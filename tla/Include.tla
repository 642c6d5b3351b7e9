------------------------------ MODULE Include ------------------------------
(***************************************************************************)
(* Which providers of a chain are included: doBind's call of               *)
(* computeDependenciesAndInclusion (include.go) and the type matching it   *)
(* rests on (match.go).  A chain is a sequence of providers in the order   *)
(* that reorder left them in; a provider is known by its place in it.      *)
(* Values flow "down" from providers to later inputs and "up" from         *)
(* returns to what earlier wrappers receive.                               *)
(*                                                                         *)
(* The code visits its work lists in passes and iterates over maps; here   *)
(* any member of the work list may be visited next, which covers every     *)
(* order the code can take.                                                *)
(***************************************************************************)
EXTENDS Naturals, Sequences, FiniteSets, FiniteSetsExt

CONSTANTS
  Chains,      \* the chains to bind
  Types,       \* the types of their parameters
  Implements,  \* <<u, t>>: type u implements interface t
  Rank,        \* bestMatch's order among types of one layer, down to their codes
  Unused       \* nject.Unused

Classes == {"literal", "static", "init", "invoke", "inject", "wrap", "final"}
(* in: inputs, for the init function what it returns; out: outputs, for    *)
(* wrappers and the invoke and init functions what they hand down; recv    *)
(* and ret: return values received and returned; must, optional, loose:    *)
(* the types of MustConsume, ConsumptionOptional and Loose annotations,    *)
(* shadow: of AllowReturnShadowing; cluster: 0 for none.                   *)
Providers ==
  [class : Classes, in : SUBSET Types, out : SUBSET Types, recv : SUBSET Types,
   ret : SUBSET Types, must : SUBSET Types, optional : SUBSET Types,
   loose : SUBSET Types, shadow : SUBSET Types, required : BOOLEAN, desired : BOOLEAN,
   shun : BOOLEAN, cluster : Nat]
Plain == [class |-> "inject", in |-> {}, out |-> {}, recv |-> {}, ret |-> {},
          must |-> {}, optional |-> {}, loose |-> {}, shadow |-> {}, required |-> FALSE,
          desired |-> FALSE, shun |-> FALSE, cluster |-> 0]

ASSUME IncludeAssumption ==
  /\ Chains \subseteq Seq(Providers)
  /\ IsFiniteSet(Types) /\ Implements \subseteq Types \X Types
  /\ Rank \in [Types -> Nat]
  /\ \A t, u, v \in Types : {<<u, t>>, <<v, t>>} \subseteq Implements /\ Rank[u] = Rank[v] => u = v
  /\ \A c \in Chains : \E i \in DOMAIN c : c[i].class = "invoke" /\ c[i].required

VARIABLES
  funcs,     \* the chain
  phase,     \* see Phases
  usesDetail, \* what providesReturns found: the sources of every type needed
  excluded,  \* fm.d.excluded # nil
  cannot,    \* fm.cannotInclude # nil
  include,   \* fm.include
  wanted,    \* fm.wanted
  todo,      \* the work list of checkFlows or eliminateUnused
  proposals, \* eliminations yet to try
  without,   \* the providers of the elimination being tried
  possible   \* history: what the first validation included

vars == <<funcs, phase, usesDetail, excluded, cannot, include, wanted, todo, proposals, without, possible>>

Validating == {"first", "trying", "last"}
Phases == Validating \cup {"idle", "unused", "try", "done", "invalid", "internal"}   \* idle: no chain yet
Places == DOMAIN funcs

-----------------------------------------------------------------------------
(* Flows, providesReturns.                                                 *)
Directions == {"down", "up"}
Needs(dir, i) == IF dir = "down" THEN funcs[i].in ELSE funcs[i].recv
Offers(dir, i) == IF dir = "down" THEN funcs[i].out ELSE funcs[i].ret

(* What the init function returns is looked up where the invoke function   *)
(* stands.                                                                 *)
Seat(i) ==
  IF funcs[i].class = "init"
  THEN CHOOSE j \in Places : funcs[j].class = "invoke"
  ELSE i
Precedes(dir, j, i) == IF dir = "down" THEN j < Seat(i) ELSE j > i
Offering(L, dir, i, t) == {j \in L : Precedes(dir, j, i) /\ t \in Offers(dir, j)}

(* The layer of a type is that of the first provider that was added.       *)
Layer(L, dir, i, t) ==
  LET js == Offering(L, dir, i, t) IN IF dir = "down" THEN Min(js) ELSE Len(funcs) - Max(js)

(* bestMatch: the type itself, or else the best type that implements it,   *)
(* from those of its providers that are Loose about it.                    *)
BestType(L, dir, i, t) ==
  LET candidates == {u \in Types : <<u, t>> \in Implements /\ Offering(L, dir, i, u) # {}} IN
  IF Offering(L, dir, i, t) # {} \/ candidates = {} THEN t
  ELSE CHOOSE u \in candidates : \A v \in candidates \ {u} :
         \/ Layer(L, dir, i, u) > Layer(L, dir, i, v)
         \/ Layer(L, dir, i, u) = Layer(L, dir, i, v) /\ Rank[u] > Rank[v]
BestMatch(L, dir, i, t) ==
  LET best == BestType(L, dir, i, t) IN
  {j \in Offering(L, dir, i, best) : best = t \/ t \in funcs[j].loose}

(* usesDetail of every provider of L; a type without a match (usesError)   *)
(* has no sources.                                                         *)
ProvidesReturns(L) ==
  [dir \in Directions |-> [i \in Places |-> [t \in Types |->
     IF i \in L /\ t \in Needs(dir, i) THEN BestMatch(L, dir, i, t) ELSE {}]]]

Sources(dir, i, t) == usesDetail[dir][i][t]
Uses(i) == UNION {Sources(dir, i, t) : dir \in Directions, t \in Types}
(* usedByDetail is kept under the type the consumer asked for.             *)
Consumers(dir, i, t) == {j \in Places : i \in Sources(dir, j, t)}

(* One ConsumptionOptional annotation lifts the rule from all of a         *)
(* provider's returns.                                                     *)
MustConsumeFlow(dir, i) ==
  IF dir = "down" THEN funcs[i].must # {} ELSE funcs[i].optional = {}
MustBeConsumed(dir, i) ==
  IF ~MustConsumeFlow(dir, i) THEN {}
  ELSE (IF dir = "down" THEN funcs[i].out \cap funcs[i].must ELSE funcs[i].ret) \ {Unused}

(* fm.d.usedBy: those to look at again when i is dropped.                  *)
UsedBy(i) ==
  {j \in Places : i \in Uses(j)} \cup
  {d \in Places : \E dir \in Directions : /\ MustConsumeFlow(dir, d)
                                          /\ \E t \in Types : d \in Sources(dir, i, t)}

-----------------------------------------------------------------------------
AutoWanted(c, i) ==
  ~c[i].required /\ ~c[i].desired /\ c[i].out \subseteq {Unused}
WantedInCluster(i) == funcs[i].cluster # 0 /\ AutoWanted(funcs, i)

Init ==
  /\ funcs \in Chains
  /\ phase = "first"
  /\ usesDetail = ProvidesReturns(DOMAIN funcs)
  /\ include = DOMAIN funcs /\ todo = DOMAIN funcs
  /\ excluded = {} /\ cannot = {} /\ without = {} /\ possible = {}
  /\ wanted = {i \in DOMAIN funcs : AutoWanted(funcs, i)}
  /\ proposals = <<>>

(* validateChainMarkIncludeExclude's first loop, with the providers of out *)
(* excluded: it stops at one that is required.                             *)
Mark(out) ==
  LET barred == {i \in out : funcs[i].required}
      reached == {i \in Places : \A b \in barred : i < b} IN
  /\ include' = (include \ reached) \cup (reached \ out)
  /\ cannot' = (cannot \ reached) \cup (reached \cap out)

-----------------------------------------------------------------------------
(* checkFlows, one visit at a time.                                        *)
Strict == phase = "trying"   \* ~canRemoveDesired

Unsourced(i) == \E dir \in Directions : \E t \in Needs(dir, i) :
                  Sources(dir, i, t) \cap include = {}
Unconsumed(i) == \E dir \in Directions : \E t \in MustBeConsumed(dir, i) :
                  Consumers(dir, i, t) \cap include = {}

FatalLax(i) == funcs[i].required   \* mutant: desired providers may go during a try
Fatal(i) ==
  \/ funcs[i].required
  \/ Strict /\ (i \in wanted \/ funcs[i].desired) /\ i \notin excluded

Visit(i) == /\ phase \in Validating /\ i \in todo
            /\ UNCHANGED <<funcs, usesDetail, proposals, possible>>

CheckHolds(i) ==
  /\ Visit(i) /\ i \notin cannot /\ ~Unsourced(i) /\ ~Unconsumed(i)
  /\ todo' = todo \ {i}
  /\ UNCHANGED <<phase, excluded, cannot, include, wanted, without>>

(* The reason is noted; the provider is dropped when it is visited again.  *)
CheckFails(i) ==
  /\ Visit(i) /\ i \notin cannot /\ (Unsourced(i) \/ Unconsumed(i))
  /\ cannot' = cannot \cup {i}
  /\ UNCHANGED <<phase, excluded, include, wanted, todo, without>>

DropAlone(i) ==   \* mutant: the users of i are not checked again
  /\ Visit(i) /\ i \in cannot /\ ~Fatal(i)
  /\ include' = include \ {i}
  /\ todo' = todo \ {i}
  /\ UNCHANGED <<phase, excluded, cannot, wanted, without>>
DropAgain(i) ==   \* mutant: users are checked again though i was out already
  /\ Visit(i) /\ i \in cannot /\ ~Fatal(i)
  /\ include' = include \ {i}
  /\ todo' = (todo \ {i}) \cup UsedBy(i)
  /\ UNCHANGED <<phase, excluded, cannot, wanted, without>>
Drop(i) ==
  /\ Visit(i) /\ i \in cannot /\ ~Fatal(i)
  /\ include' = include \ {i}
  /\ todo' = IF i \in include THEN (todo \ {i}) \cup UsedBy(i) ELSE todo \ {i}
  /\ UNCHANGED <<phase, excluded, cannot, wanted, without>>

(* What becomes of the wanted mark of cluster members during a try.        *)
Downgraded(S) == IF Cardinality(S) > 1 THEN {i \in S : WantedInCluster(i)} ELSE {}

RestoreNot ==   \* mutant: the providers stay excluded
  /\ wanted' = wanted \cup Downgraded(without)
  /\ without' = {}
  /\ UNCHANGED excluded
(* The chain is invalid without them: they come back.                      *)
Restore ==
  /\ excluded' = excluded \ without
  /\ wanted' = wanted \cup Downgraded(without)
  /\ without' = {}

Refuse(i) ==
  /\ Visit(i) /\ i \in cannot /\ Fatal(i)
  /\ todo' = {}
  /\ phase' = CASE phase = "first" -> "invalid" [] Strict -> "try" [] OTHER -> "internal"
  /\ IF Strict THEN Restore ELSE UNCHANGED <<excluded, wanted, without>>
  /\ UNCHANGED <<cannot, include>>

-----------------------------------------------------------------------------
(* The first validation is over: what cannot be included is excluded.      *)
ExcludeImpossible ==
  /\ phase = "first" /\ todo = {}
  /\ excluded' = cannot
  /\ include' = include \ cannot /\ possible' = include'
  /\ phase' = "unused" /\ todo' = Places
  /\ UNCHANGED <<funcs, usesDetail, cannot, wanted, proposals, without>>

(* eliminateUnused; clusters are spared.                                   *)
Spared(i) ==
  \/ funcs[i].required \/ funcs[i].desired \/ i \in wanted
  \/ i \notin include \/ i \in excluded \/ funcs[i].cluster # 0
KeepUsed(i) ==
  /\ phase = "unused" /\ i \in todo
  /\ Spared(i) \/ UsedBy(i) \cap include # {}
  /\ todo' = todo \ {i}
  /\ UNCHANGED <<funcs, phase, usesDetail, excluded, cannot, include, wanted, proposals, without, possible>>
EliminateUnused(i) ==
  /\ phase = "unused" /\ i \in todo
  /\ ~Spared(i) /\ UsedBy(i) \cap include = {}
  /\ include' = include \ {i}
  /\ cannot' = cannot \cup {i}
  /\ excluded' = excluded \cup {i}
  /\ todo' = (todo \ {i}) \cup Uses(i)
  /\ UNCHANGED <<funcs, phase, usesDetail, wanted, proposals, without, possible>>

(* proposeEliminations: in each direction, what the required, desired and  *)
(* wanted providers need, taking each type from one source: the closest    *)
(* going down, the one deepest in the chain going up.                      *)
Roots == {i \in Places \ excluded : \/ funcs[i].required \/ funcs[i].desired
                                    \/ i \in wanted /\ ~WantedInCluster(i)}
Preferred(dir, i) ==
  {Max(Sources(dir, i, t) \ (cannot \cup excluded)) :
      t \in {u \in Needs(dir, i) : Sources(dir, i, u) \ (cannot \cup excluded) # {}}}
Kept(dir) ==
  LET closed == {S \in SUBSET Places : /\ Roots \subseteq S
                                       /\ \A i \in S : Preferred(dir, i) \subseteq S}
  IN {i \in Places : \A S \in closed : i \in S}

(* Those to shun come first, whether they are needed or not.               *)
Ascending(S) ==
  [n \in 1 .. Cardinality(S) |-> CHOOSE i \in S : Cardinality({j \in S : j <= i}) = n]
ProposeShunned ==   \* mutant: the rest is not proposed
  /\ phase = "unused" /\ todo = {}
  /\ proposals' = Ascending({i \in Places : funcs[i].shun})
  /\ phase' = "try"
  /\ UNCHANGED <<funcs, usesDetail, excluded, cannot, include, wanted, todo, without, possible>>
Propose ==
  LET shunned == {i \in Places : funcs[i].shun}
      kept == Kept("down") \cup Kept("up") IN
  /\ phase = "unused" /\ todo = {}
  /\ proposals' = Ascending(shunned) \o Ascending(Places \ (kept \cup shunned))
  /\ phase' = "try"
  /\ UNCHANGED <<funcs, usesDetail, excluded, cannot, include, wanted, todo, without, possible>>

(* Members of a cluster go together; their leader, the first that is not   *)
(* excluded, stands for them all.                                          *)
ClusterOfOne(i) == {i}   \* mutant: clusters are tried member by member
ClusterOf(i) ==
  IF funcs[i].cluster = 0 THEN {i}
  ELSE {j \in Places \ excluded : funcs[j].cluster = funcs[i].cluster}
Passed(i) ==
  \/ i \in excluded
  \/ \E j \in ClusterOf(i) : j < i
  \/ ClusterOf(i) = {i} /\ i \in wanted /\ WantedInCluster(i)

SkipProposal ==
  /\ phase = "try" /\ proposals # <<>> /\ Passed(Head(proposals))
  /\ proposals' = Tail(proposals)
  /\ UNCHANGED <<funcs, phase, usesDetail, excluded, cannot, include, wanted, todo, without, possible>>

TryWithout ==
  LET i == Head(proposals)
      out == ClusterOf(i) IN
  /\ phase = "try" /\ proposals # <<>> /\ ~Passed(i)
  /\ proposals' = Tail(proposals)
  /\ Mark(excluded \cup out)
  /\ IF \E j \in excluded \cup out : funcs[j].required
     THEN UNCHANGED <<phase, excluded, wanted, todo, without>>   \* an error at once
     ELSE /\ phase' = "trying" /\ without' = out
          /\ excluded' = excluded \cup out
          /\ wanted' = wanted \ Downgraded(out)
          /\ todo' = Places \ (excluded \cup out)
  /\ UNCHANGED <<funcs, usesDetail, possible>>

(* The chain is valid without them: they are left out for good.            *)
ExcludeTried ==
  /\ phase = "trying" /\ todo = {}
  /\ phase' = "try"
  /\ wanted' = wanted \cup Downgraded(without)
  /\ without' = {}
  /\ UNCHANGED <<funcs, usesDetail, excluded, cannot, include, todo, proposals, possible>>

(* The flows are calculated again, from what is left, and checked.         *)
CalculateFinalFlows ==
  /\ phase = "try" /\ proposals = <<>>
  /\ usesDetail' = ProvidesReturns(Places \ excluded)
  /\ cannot' = excluded /\ include' = Places \ excluded
  /\ todo' = Places \ excluded
  /\ phase' = IF \E i \in excluded : funcs[i].required THEN "internal" ELSE "last"
  /\ UNCHANGED <<funcs, excluded, wanted, proposals, without, possible>>

Finish ==
  /\ phase = "last" /\ todo = {}
  /\ phase' = "done"
  /\ UNCHANGED <<funcs, usesDetail, excluded, cannot, include, wanted, todo, proposals, without, possible>>

Next ==
  \/ \E i \in Places : CheckHolds(i) \/ CheckFails(i) \/ Drop(i) \/ Refuse(i)
  \/ \E i \in Places : KeepUsed(i) \/ EliminateUnused(i)
  \/ ExcludeImpossible \/ Propose \/ SkipProposal \/ TryWithout
  \/ ExcludeTried \/ CalculateFinalFlows \/ Finish

Spec == Init /\ [][Next]_vars /\ WF_vars(Next)

-----------------------------------------------------------------------------
(* Work lists hold places, the marks agree: TypeOK also says that nobody   *)
(* is included and excluded, outside of the middle of a try.               *)
TypeOK ==
  /\ phase \in Phases
  /\ usesDetail \in [Directions -> [Places -> [Types -> SUBSET Places]]]
  /\ excluded \subseteq Places /\ cannot \subseteq Places
  /\ include \subseteq Places /\ wanted \subseteq Places /\ todo \subseteq Places
  /\ possible \subseteq Places /\ without \subseteq excluded /\ (without # {} => phase = "trying")
  /\ proposals \in Seq(Places)
  /\ phase \in {"unused", "last", "done"} => include \cap excluded = {}

(* S supports itself: each input, and each received value, of its members  *)
(* has a source in S, and what must be consumed has a consumer in S.       *)
Supported(S) ==
  \A i \in S : \A dir \in Directions :
    /\ \A t \in Needs(dir, i) : Sources(dir, i, t) \cap S # {}
    /\ \A t \in MustBeConsumed(dir, i) : Consumers(dir, i, t) \cap S # {}
GreatestIn(A) == UNION {S \in SUBSET A : Supported(S)}

(* checkFlows: a validation that ends well has found the greatest set of   *)
(* providers that support each other, in whatever order it went, and one   *)
(* that makes Bind fail misses a required provider in it.                  *)
GreatestSupported ==
  /\ phase \in Validating /\ todo = {} => include = GreatestIn(Places \ excluded)
  /\ phase = "invalid" => \E i \in Places \ GreatestIn(Places) : funcs[i].required

(* tryWithout: a provider is dropped if, and only if, all that the rest of *)
(* the chain has to hold is still supported; otherwise it is back.         *)
Demanded == {i \in Places \ excluded : funcs[i].required \/ funcs[i].desired \/ i \in wanted}
TryDecidesRightly ==
  [][phase = "trying" /\ phase' = "try"
       => IF Demanded \subseteq GreatestIn(Places \ excluded)
          THEN excluded' = excluded ELSE excluded' = excluded \ without]_vars

(* Desired(): "it will be included in the provider chain unless doing so   *)
(* creates an un-met dependency" (api.go:217-219).  A desired provider     *)
(* that the whole chain supports is in the final chain.                    *)
DesiredKept ==
  phase = "done" => \A p \in possible : funcs[p].desired => p \in include

(* Cluster(): "all of the providers in the in the cluster will be included *)
(* or excluded as a group.  This doesn't apply to providers that cannot be *)
(* included at all" (api.go:69-71).                                        *)
ClusterTogether ==
  phase = "done" => \A i, j \in possible :
    funcs[i].cluster # 0 /\ funcs[i].cluster = funcs[j].cluster
      => (i \in include <=> j \in include)

(* "Only include if at least one output is transitively consumed by a      *)
(* Required or Desired provider" (doc.go:344-346): everything included is  *)
(* required, desired, wanted, in a cluster with what serves, or serves     *)
(* such a provider in turn: as the closest source of an input, as a source *)
(* of a return value, or as the only consumer of what must be consumed.    *)
TakenFrom(dir, i, t) ==
  LET S == Sources(dir, i, t) \cap include IN
  IF dir = "down" /\ S # {} THEN {Max(S)} ELSE S
Serves(i, j) ==
  \/ funcs[i].cluster # 0 /\ funcs[i].cluster = funcs[j].cluster
  \/ \E dir \in Directions :
       \/ \E t \in Types : i \in TakenFrom(dir, j, t)
       \/ \E t \in MustBeConsumed(dir, j) : Consumers(dir, j, t) \cap include = {i}
Useful ==
  LET reach[n \in Nat] ==
        IF n = 0 THEN {i \in include : funcs[i].required \/ funcs[i].desired \/ i \in wanted}
        ELSE LET R == reach[n - 1] IN R \cup {i \in include : \E j \in R : Serves(i, j)}
  IN reach[Len(funcs)]
NoDeadweight == phase = "done" => include \subseteq Useful

(* The final check never fails: the two "internal error: uh oh" of the     *)
(* code (include.go:207-216) are not reached.                              *)
NoInternalError == phase # "internal"
=============================================================================
