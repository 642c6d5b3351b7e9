---------------------------- MODULE Characterize ----------------------------
(***************************************************************************)
(* How a collection becomes the two lists of providers that run before and *)
(* after the invoke function: characterizeAndFlatten (nject.go) and the    *)
(* registry of prototypes it matches providers with (characterize.go).     *)
(* handleReplaceByName, which it calls first, is in Replace.tla.           *)
(***************************************************************************)
EXTENDS MapKey, Naturals, FiniteSetsExt, SequencesExt

CONSTANTS
  Collections,  \* the collections to bind
  Substitutes,  \* what ReplaceSelf may return, flattened
  Handed        \* what the invoke function may hand down

Annotations == {"MustCache", "Cacheable", "Singleton", "NotCacheable", "Memoize", "Reorder", "NonFinal"}
(* kind: a value, a function, one whose first parameter is an untyped      *)
(* function, one with an untyped function elsewhere, a ReflectiveInvoker,  *)
(* what GenerateFromInjectionChain makes, or a provider of another version *)
(* of the package; in, out: inputs and outputs, for a wrapper what it      *)
(* hands to inner(); terminal: it returns a TerminalError.                 *)
Kinds == {"value", "func", "inner", "untyped", "invoker", "generated", "foreign"}
Providers ==
  [kind : Kinds, in : SUBSET Types, out : SUBSET Types, terminal : BOOLEAN,
   annotations : SUBSET Annotations]

ASSUME CharacterizeAssumption ==
  /\ Collections \cup Substitutes \subseteq Seq(Providers)
  /\ Handed \subseteq SUBSET Types

VARIABLES
  given,       \* how many providers the collection had
  handed,      \* what the invoke function hands down
  providers,   \* all providers met: those of the collection, then substitutes
  contents,    \* c.contents, as indexes of providers
  phase,       \* "shift", "mutate", "list", "done", "error"
  i,           \* the place in contents of the loop that runs
  mutated,     \* some provider replaced itself
  nonStatic,   \* nonStaticTypes
  afterInit,   \* the LITERAL and STATIC sets, as indexes of providers
  afterInvoke, \* the RUN set and the final function
  matched      \* the prototype that each listed provider got, as its place in Registry

vars == <<given, handed, providers, contents, phase, i, mutated, nonStatic, afterInit, afterInvoke, matched>>
input == <<given, handed>>
lists == <<afterInit, afterInvoke, matched>>

-----------------------------------------------------------------------------
(* The predicates, for a provider p of a chain; last: it is the last one;  *)
(* static: its inputs may all be static (charContext).                     *)
Marked(p, a) == a \in p.annotations
Passes(test, p, last, static) ==
  CASE test = "notFunc"            -> p.kind \in {"value", "generated"}
    [] test = "isFunc"             -> p.kind \notin {"value", "generated"}
    [] test = "isLast"             -> last
    [] test = "notLast"            -> ~last
    [] test = "inStatic"           -> static
    [] test = "unstaticOkay"       -> ~Marked(p, "MustCache") /\ ~Marked(p, "Singleton")
    [] test = "hasOutputs"         -> p.out # {} \/ p.terminal
    [] test = "mustNotMemoize"     -> ~Marked(p, "Memoize")
    [] test = "markedMemoized"     -> Marked(p, "Memoize")
    [] test = "markedCacheable"    ->
         p.annotations \cap {"Cacheable", "MustCache", "Singleton", "Memoize"} # {}
    [] test = "markedSingleton"    -> Marked(p, "Singleton")
    [] test = "notMarkedSingleton" -> ~Marked(p, "Singleton")
    [] test = "notMarkedReorder"   -> ~Marked(p, "Reorder")
    [] test = "notMarkedNoCache"   -> ~Marked(p, "NotCacheable")
    [] test = "mappableInputs"     -> \A t \in p.in : Mappable[t]
    [] test = "possibleMapKey"     -> \A t \in p.in : CanBeMapKey[t]
    [] test = "returnsTerminalError" -> p.terminal
    [] test = "noAnonymousFuncs"   -> p.kind \notin {"inner", "untyped"}
    [] test = "hasInner"           -> p.kind = "inner"
    [] test = "noAnonymousExceptFirstInput" -> p.kind # "untyped"
    [] test = "isNotFuncPointer"   -> p.kind # "invoker"

(* What the prototypes of one sort have in common. *)
Injector == {"isFunc", "noAnonymousFuncs", "notLast", "isNotFuncPointer"}
StaticInjector == Injector \cup {"inStatic", "markedCacheable", "notMarkedNoCache"}
Singleton == StaticInjector \cup {"markedSingleton", "mappableInputs", "mustNotMemoize", "notMarkedReorder"}
StaticMemoized ==
  StaticInjector \cup {"markedMemoized", "mappableInputs", "possibleMapKey", "notMarkedSingleton", "notMarkedReorder"}
UnstaticAnyhow == {"notMarkedSingleton"}   \* mutant: MustCache is not looked at
Unstatic == {"unstaticOkay", "notMarkedSingleton"}

Prototype(class, group, memoized, tests) ==
  [class |-> class, group |-> group, memoized |-> memoized, tests |-> tests]
fallible == {"returnsTerminalError"}

(* handlerRegistry: the first prototype that passes all tests is it. *)
Registry ==
  <<Prototype("literal-value", "literal", FALSE, {"notFunc", "inStatic", "notLast"}),
    Prototype("fallible-static-injector", "static", FALSE, Singleton \cup fallible),
    Prototype("static-injector", "static", FALSE, Singleton),
    Prototype("fallible-static-injector", "static", TRUE, StaticMemoized \cup fallible),
    Prototype("static-injector", "static", TRUE, StaticMemoized \cup {"hasOutputs"}),
    Prototype("fallible-static-injector", "static", FALSE,
      StaticInjector \cup fallible \cup {"mustNotMemoize", "notMarkedSingleton", "notMarkedReorder"}),
    Prototype("fallible-injector", "run", TRUE, Injector \cup Unstatic \cup fallible \cup {"markedMemoized"}),
    Prototype("fallible-injector", "run", FALSE, Injector \cup Unstatic \cup fallible \cup {"mustNotMemoize"}),
    Prototype("static-injector", "static", FALSE,
      StaticInjector \cup {"hasOutputs", "mustNotMemoize", "notMarkedSingleton"}),
    Prototype("injector", "run", TRUE, Injector \cup Unstatic \cup {"markedMemoized"}),
    Prototype("injector", "run", FALSE, Injector \cup Unstatic \cup {"mustNotMemoize"}),
    Prototype("wrapper-func", "run", FALSE,
      (Injector \ {"noAnonymousFuncs"}) \cup Unstatic
        \cup {"hasInner", "noAnonymousExceptFirstInput", "mustNotMemoize"}),
    Prototype("final-func", "final", FALSE,
      (Injector \ {"notLast"}) \cup Unstatic \cup {"isLast", "mustNotMemoize"})>>

Fits(p, last, static) ==
  {k \in DOMAIN Registry : \A test \in Registry[k].tests : Passes(test, p, last, static)}
(* characterizeFunc: the first prototype that fits, 0 if there is none.    *)
CharacterizeFunc(p, last, static) ==
  LET fits == Fits(p, last, static) IN IF fits = {} THEN 0 ELSE Min(fits)

-----------------------------------------------------------------------------
Init ==
  /\ providers \in Collections
  /\ given = Len(providers)
  /\ contents = [k \in DOMAIN providers |-> k]
  /\ handed \in Handed /\ nonStatic = handed
  /\ phase = "shift" /\ i = 1 /\ mutated = FALSE
  /\ afterInit = <<>> /\ afterInvoke = <<>> /\ matched = <<>>

NonFinal(n) == Marked(providers[n], "NonFinal")
(* Mutant: it changes places with the last one. *)
SwapFinal(c) ==
  LET finals == {k \in DOMAIN c : ~NonFinal(c[k])} IN
  IF finals = {} THEN c ELSE [[c EXCEPT ![Max(finals)] = c[Len(c)]] EXCEPT ![Len(c)] = c[Max(finals)]]
(* reorderNonFinal: the last provider that may be final goes to the end.   *)
ShiftFinal(c) ==
  LET finals == {k \in DOMAIN c : ~NonFinal(c[k])} IN
  IF finals = {} THEN c ELSE Append(RemoveAt(c, Max(finals)), c[Max(finals)])

Shift ==
  /\ phase = "shift"
  /\ phase' = "mutate"
  /\ contents' = ShiftFinal(contents)
  /\ UNCHANGED <<input, providers, i, mutated, nonStatic, lists>>

At(kinds) == phase = "mutate" /\ i <= Len(contents) /\ providers[contents[i]].kind \in kinds

PassOver ==
  /\ At(Kinds \ {"generated", "foreign"})
  /\ i' = i + 1
  /\ UNCHANGED <<input, providers, contents, phase, mutated, nonStatic, lists>>

(* The provider at i replaces itself.  The loop goes on behind the first   *)
(* of its substitutes, whatever their number.                              *)
ReplaceSelf ==
  /\ At({"generated"})
  /\ \E s \in Substitutes :
       /\ providers' = providers \o s
       /\ contents' = SubSeq(contents, 1, i - 1)
                        \o [k \in DOMAIN s |-> Len(providers) + k]
                        \o SubSeq(contents, i + 1, Len(contents))
  /\ i' = i + 1 /\ mutated' = TRUE
  /\ UNCHANGED <<input, phase, nonStatic, lists>>

(* A collection made by another version, or ReplaceSelf returns an error.  *)
Refuse ==
  /\ At({"generated", "foreign"})
  /\ phase' = "error"
  /\ UNCHANGED <<input, providers, contents, i, mutated, nonStatic, lists>>

(* Mutant: the loop ends where the collection ended when it began. *)
SettleEarly ==
  /\ phase = "mutate" /\ (i > given \/ i > Len(contents))
  /\ phase' = "list" /\ i' = 1
  /\ contents' = IF mutated THEN ShiftFinal(contents) ELSE contents
  /\ UNCHANGED <<input, providers, mutated, nonStatic, lists>>
(* The end of the loop. *)
Settle ==
  /\ phase = "mutate" /\ i > Len(contents)
  /\ phase' = "list" /\ i' = 1
  /\ contents' = IF mutated THEN ShiftFinal(contents) ELSE contents
  /\ UNCHANGED <<input, providers, mutated, nonStatic, lists>>

(* What a static prototype was found for is characterized again if one of  *)
(* its inputs is not static.                                               *)
Match(n) ==
  LET p == providers[n]
      last == n = contents[Len(contents)]
      first == CharacterizeFunc(p, last, TRUE)
  IN IF first # 0 /\ Registry[first].group = "static" /\ p.in \cap nonStatic # {}
     THEN CharacterizeFunc(p, last, FALSE) ELSE first

(* Mutant: what wrappers hand to inner() counts as static. *)
NotStaticLess(n) ==
  IF Registry[Match(n)].class \in {"injector", "fallible-injector"} THEN providers[n].out ELSE {}
NotStatic(n) == IF Registry[Match(n)].group = "run" THEN providers[n].out ELSE {}

List ==
  /\ phase = "list" /\ i <= Len(contents)
  /\ LET n == contents[i] IN
     /\ Match(n) # 0
     /\ matched' = [m \in DOMAIN matched \cup {n} |-> IF m = n THEN Match(n) ELSE matched[m]]
     /\ nonStatic' = nonStatic \cup NotStatic(n)
     /\ IF Registry[Match(n)].group \in {"literal", "static"}
        THEN afterInit' = Append(afterInit, n) /\ UNCHANGED afterInvoke
        ELSE afterInvoke' = Append(afterInvoke, n) /\ UNCHANGED afterInit
  /\ i' = i + 1
  /\ UNCHANGED <<input, providers, contents, phase, mutated>>

(* Could not match to any prototype. *)
Mismatch ==
  /\ phase = "list" /\ i <= Len(contents)
  /\ Match(contents[i]) = 0
  /\ phase' = "error"
  /\ UNCHANGED <<input, providers, contents, i, mutated, nonStatic, lists>>

Finish ==
  /\ phase = "list" /\ i > Len(contents)
  /\ phase' = "done"
  /\ UNCHANGED <<input, providers, contents, i, mutated, nonStatic, lists>>

Next == Shift \/ PassOver \/ ReplaceSelf \/ Refuse \/ Settle \/ List \/ Mismatch \/ Finish

Spec == Init /\ [][Next]_vars

-----------------------------------------------------------------------------
(* The loops' data keep their types (nject.go:192-198). *)
TypeOK ==
  /\ providers \in Seq(Providers) /\ contents \in Seq(DOMAIN providers)
  /\ phase \in {"shift", "mutate", "list", "done", "error"} /\ i \in Nat \ {0} /\ mutated \in BOOLEAN
  /\ nonStatic \subseteq Types
  /\ afterInit \in Seq(DOMAIN providers) /\ afterInvoke \in Seq(DOMAIN providers)
  /\ \A n \in DOMAIN matched : matched[n] \in DOMAIN Registry

Got(n) == Registry[matched[n]]

(* "An injector may not be promoted to the STATIC set if it takes as input *)
(* data that comes from a provider that is not in the STATIC or LITERAL    *)
(* sets.  For example, arguments to the invocation function"               *)
(* (doc.go:122-127); and no other reason keeps an injector out of it that    *)
(* is annotated for it and whose inputs can be a key when it needs one.    *)
Promotable(p) ==
  /\ p.kind = "func" /\ (p.out # {} \/ p.terminal \/ Marked(p, "Singleton"))
  /\ p.annotations \cap {"Cacheable", "MustCache", "Singleton", "Memoize"} # {}
  /\ ~Marked(p, "NotCacheable") /\ ~Marked(p, "Reorder")
  /\ Marked(p, "Singleton") => \A t \in p.in : Mappable[t]
  /\ Marked(p, "Memoize") => \A t \in p.in : Mappable[t] /\ CanBeMapKey[t]
RunTypes(k) ==
  handed \cup UNION {providers[contents[l]].out :
                     l \in {l \in 1 .. k - 1 : Got(contents[l]).group = "run"}}
StaticIffIndependent ==
  phase = "done" =>
    \A k \in 1 .. Len(contents) - 1 :
      LET p == providers[contents[k]] IN
      Got(contents[k]).group = "static" <=> Promotable(p) /\ p.in \cap RunTypes(k) = {}

(* Whoever is listed got what the annotations demand: MustCache and        *)
(* Singleton are not in the RUN set (api.go:120-122, 143-145), NotCacheable*)
(* is not in the STATIC set (api.go:160-162), a function marked Memoize    *)
(* remembers (api.go:171-174), and a function that returns a TerminalError *)
(* can end the chain (doc.go:159-161).                                     *)
AsAnnotated ==
  phase = "done" =>
    \A n \in ToSet(contents) :
      LET p == providers[n] IN
      /\ Marked(p, "MustCache") \/ Marked(p, "Singleton") => Got(n).group \in {"literal", "static"}
      /\ Marked(p, "NotCacheable") => Got(n).group # "static"
      /\ Marked(p, "Memoize") /\ p.kind = "func" => Got(n).memoized
      /\ p.terminal /\ p.kind = "func" /\ Got(n).group # "final"
           => Got(n).class \in {"fallible-injector", "fallible-static-injector"}

(* "Providers within a set are executed in the order that they were        *)
(* originally specified" (doc.go:87-88), and the final one is the last     *)
(* that is not NonFinal, unless all are: "If NonFinal providers are        *)
(* invoked, they will be called before the final provider"                 *)
(* (api.go:367-368).  Every special provider "replace[s] itself with a     *)
(* regular provider" (filler_api.go:18-19): none is left, which would pass *)
(* for a literal.                                                          *)
FinalLast ==
  phase = "done" =>
    LET f == Last(afterInvoke) IN
    /\ \A n \in ToSet(contents) : providers[n].kind # "generated"
    /\ Got(f).group = "final"
    /\ NonFinal(f) => \A n \in ToSet(contents) : NonFinal(n)
    /\ \A n \in ToSet(contents) : f < n /\ n <= given => NonFinal(n)
    /\ \A s \in {afterInit, afterInvoke} : \A k \in DOMAIN s, l \in DOMAIN s :
         k < l /\ s[k] <= given /\ s[l] <= given => s[k] < s[l] \/ s[l] = f

(* "Memoize can only be used on functions whose inputs are valid map keys  *)
(* (interfaces, arrays (not slices), structs, pointers, and primitive      *)
(* types)" (api.go:173-177): when a memoized static injector is called,    *)
(* with whatever its inputs can hold, and the check that it was given lets *)
(* the call go to the map, then the inputs can be hashed.                  *)
ArgsOf(p) ==
  {args \in [p.in -> UNION {ValuesOf[t] : t \in p.in}] : \A t \in p.in : args[t].type = t}
KeysHashable ==
  phase = "done" =>
    \A n \in {n \in ToSet(afterInit) : Got(n).memoized} :
      \A args \in ArgsOf(providers[n]) :
        Remembers(args) => \A t \in DOMAIN args : Hashable[args[t]]
=============================================================================
