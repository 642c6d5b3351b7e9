------------------------ MODULE Characterize_proofs ------------------------
(***************************************************************************)
(* Proofs about Characterize.tla, for collections of any length: where a   *)
(* provider goes, what it gets there and who is the final function.        *)
(***************************************************************************)
EXTENDS Characterize, SequenceTheorems, NaturalsInduction, WellFoundedInduction, TLAPS

-----------------------------------------------------------------------------
(* The registry, entry by entry. *)
LEMMA RegistryTable ==
  /\ DOMAIN Registry = 1 .. 13
  /\ Registry[1] = Prototype("literal-value", "literal", FALSE, {"notFunc", "inStatic", "notLast"})
  /\ Registry[2] = Prototype("fallible-static-injector", "static", FALSE, Singleton \cup fallible)
  /\ Registry[3] = Prototype("static-injector", "static", FALSE, Singleton)
  /\ Registry[4] = Prototype("fallible-static-injector", "static", TRUE, StaticMemoized \cup fallible)
  /\ Registry[5] = Prototype("static-injector", "static", TRUE, StaticMemoized \cup {"hasOutputs"})
  /\ Registry[6] = Prototype("fallible-static-injector", "static", FALSE,
       StaticInjector \cup fallible \cup {"mustNotMemoize", "notMarkedSingleton", "notMarkedReorder"})
  /\ Registry[7] = Prototype("fallible-injector", "run", TRUE,
       Injector \cup Unstatic \cup fallible \cup {"markedMemoized"})
  /\ Registry[8] = Prototype("fallible-injector", "run", FALSE,
       Injector \cup Unstatic \cup fallible \cup {"mustNotMemoize"})
  /\ Registry[9] = Prototype("static-injector", "static", FALSE,
       StaticInjector \cup {"hasOutputs", "mustNotMemoize", "notMarkedSingleton"})
  /\ Registry[10] = Prototype("injector", "run", TRUE, Injector \cup Unstatic \cup {"markedMemoized"})
  /\ Registry[11] = Prototype("injector", "run", FALSE, Injector \cup Unstatic \cup {"mustNotMemoize"})
  /\ Registry[12] = Prototype("wrapper-func", "run", FALSE,
       (Injector \ {"noAnonymousFuncs"}) \cup Unstatic
         \cup {"hasInner", "noAnonymousExceptFirstInput", "mustNotMemoize"})
  /\ Registry[13] = Prototype("final-func", "final", FALSE,
       (Injector \ {"notLast"}) \cup Unstatic \cup {"isLast", "mustNotMemoize"})
BY DEF Registry

(* What each of its tests asks, taken together. *)
Injects(p, last) == p.kind \in {"func", "foreign"} /\ ~last
MayRun(p) == ~Marked(p, "MustCache") /\ ~Marked(p, "Singleton")
Static(p, last, static) ==
  /\ Injects(p, last) /\ static /\ ~Marked(p, "NotCacheable")
  /\ p.annotations \cap {"Cacheable", "MustCache", "Singleton", "Memoize"} # {}
Keyed(p) == \A t \in p.in : Mappable[t]
Fit(k, p, last, static) ==
  /\ k = 1 => p.kind \in {"value", "generated"} /\ static /\ ~last
  /\ k = 2 => /\ Static(p, last, static) /\ Marked(p, "Singleton") /\ Keyed(p)
              /\ ~Marked(p, "Memoize") /\ ~Marked(p, "Reorder") /\ p.terminal
  /\ k = 3 => /\ Static(p, last, static) /\ Marked(p, "Singleton") /\ Keyed(p)
              /\ ~Marked(p, "Memoize") /\ ~Marked(p, "Reorder")
  /\ k = 4 => /\ Static(p, last, static) /\ Marked(p, "Memoize") /\ Keyed(p)
              /\ (\A t \in p.in : CanBeMapKey[t])
              /\ ~Marked(p, "Singleton") /\ ~Marked(p, "Reorder") /\ p.terminal
  /\ k = 5 => /\ Static(p, last, static) /\ Marked(p, "Memoize") /\ Keyed(p)
              /\ (\A t \in p.in : CanBeMapKey[t])
              /\ ~Marked(p, "Singleton") /\ ~Marked(p, "Reorder") /\ (p.out # {} \/ p.terminal)
  /\ k = 6 => /\ Static(p, last, static) /\ p.terminal /\ ~Marked(p, "Memoize")
              /\ ~Marked(p, "Singleton") /\ ~Marked(p, "Reorder")
  /\ k = 7 => Injects(p, last) /\ MayRun(p) /\ p.terminal /\ Marked(p, "Memoize")
  /\ k = 8 => Injects(p, last) /\ MayRun(p) /\ p.terminal /\ ~Marked(p, "Memoize")
  /\ k = 9 => /\ Static(p, last, static) /\ (p.out # {} \/ p.terminal)
              /\ ~Marked(p, "Memoize") /\ ~Marked(p, "Singleton")
  /\ k = 10 => Injects(p, last) /\ MayRun(p) /\ Marked(p, "Memoize")
  /\ k = 11 => Injects(p, last) /\ MayRun(p) /\ ~Marked(p, "Memoize")
  /\ k = 12 => p.kind = "inner" /\ ~last /\ MayRun(p) /\ ~Marked(p, "Memoize")
  /\ k = 13 => p.kind \in {"func", "foreign"} /\ last /\ MayRun(p) /\ ~Marked(p, "Memoize")

LEMMA PassesTable ==
  ASSUME NEW p, NEW last, NEW static
  PROVE
  /\ Passes("notFunc", p, last, static) <=> p.kind \in {"value", "generated"}
  /\ Passes("isFunc", p, last, static) <=> p.kind \notin {"value", "generated"}
  /\ Passes("isLast", p, last, static) <=> last
  /\ Passes("notLast", p, last, static) <=> ~last
  /\ Passes("inStatic", p, last, static) <=> static
  /\ Passes("unstaticOkay", p, last, static) <=> ~Marked(p, "MustCache") /\ ~Marked(p, "Singleton")
  /\ Passes("hasOutputs", p, last, static) <=> p.out # {} \/ p.terminal
  /\ Passes("mustNotMemoize", p, last, static) <=> ~Marked(p, "Memoize")
  /\ Passes("markedMemoized", p, last, static) <=> Marked(p, "Memoize")
  /\ Passes("markedCacheable", p, last, static)
       <=> p.annotations \cap {"Cacheable", "MustCache", "Singleton", "Memoize"} # {}
  /\ Passes("markedSingleton", p, last, static) <=> Marked(p, "Singleton")
  /\ Passes("notMarkedSingleton", p, last, static) <=> ~Marked(p, "Singleton")
  /\ Passes("notMarkedReorder", p, last, static) <=> ~Marked(p, "Reorder")
  /\ Passes("notMarkedNoCache", p, last, static) <=> ~Marked(p, "NotCacheable")
  /\ Passes("mappableInputs", p, last, static) <=> \A t \in p.in : Mappable[t]
  /\ Passes("possibleMapKey", p, last, static) <=> \A t \in p.in : CanBeMapKey[t]
  /\ Passes("returnsTerminalError", p, last, static) <=> p.terminal
  /\ Passes("noAnonymousFuncs", p, last, static) <=> p.kind \notin {"inner", "untyped"}
  /\ Passes("hasInner", p, last, static) <=> p.kind = "inner"
  /\ Passes("noAnonymousExceptFirstInput", p, last, static) <=> p.kind # "untyped"
  /\ Passes("isNotFuncPointer", p, last, static) <=> p.kind # "invoker"
BY DEF Passes


LEMMA FitsTable ==
  ASSUME NEW p \in Providers, NEW last \in BOOLEAN, NEW static \in BOOLEAN, NEW n \in 1 .. 13
  PROVE  n \in Fits(p, last, static) <=> Fit(n, p, last, static)
<1>1. n \in Fits(p, last, static) <=> \A test \in Registry[n].tests : Passes(test, p, last, static)
  BY RegistryTable DEF Fits
<1>2. p.kind \in Kinds
  BY DEF Providers
<1>3. Fit(1, p, last, static) <=> p.kind \in {"value", "generated"} /\ static /\ ~last
  BY DEF Fit
<1>4. (\A test \in StaticInjector : Passes(test, p, last, static)) <=> Static(p, last, static)
  BY <1>2, PassesTable DEF StaticInjector, Injector, Static, Injects, Kinds
<1>5. (\A test \in Injector \cup Unstatic : Passes(test, p, last, static)) <=> Injects(p, last) /\ MayRun(p)
  BY <1>2, PassesTable DEF Unstatic, Injector, MayRun, Injects, Kinds
<1>6. (\A test \in fallible : Passes(test, p, last, static)) <=> p.terminal
  BY PassesTable DEF fallible
<1>7. CASE n = 1
  <2>1. Registry[n].tests = {"notFunc", "inStatic", "notLast"}
    BY <1>7, RegistryTable DEF Prototype
  <2>2. (\A test \in Registry[n].tests : Passes(test, p, last, static))
          <=> p.kind \in {"value", "generated"} /\ static /\ ~last
    BY <2>1, PassesTable
  <2> QED
    BY <1>1, <1>3, <1>7, <2>2
<1>8. CASE n \in {2, 3}
  <2>1. /\ n = 2 => Registry[n].tests = Singleton \cup fallible
        /\ n = 3 => Registry[n].tests = Singleton
    BY <1>8, RegistryTable DEF Prototype
  <2>2. (\A test \in Singleton : Passes(test, p, last, static)) <=>
          /\ Static(p, last, static) /\ Marked(p, "Singleton") /\ Keyed(p)
          /\ ~Marked(p, "Memoize") /\ ~Marked(p, "Reorder")
    BY <1>4, PassesTable DEF Singleton, Keyed
  <2>3. Fit(2, p, last, static) <=> (\A test \in Singleton \cup fallible : Passes(test, p, last, static))
    BY <1>6, <2>2 DEF Fit
  <2>4. Fit(3, p, last, static) <=> (\A test \in Singleton : Passes(test, p, last, static))
    BY <2>2 DEF Fit
  <2> QED
    BY <1>1, <1>8, <2>1, <2>3, <2>4
<1>9. CASE n \in {4, 5}
  <2>1. /\ n = 4 => Registry[n].tests = StaticMemoized \cup fallible
        /\ n = 5 => Registry[n].tests = StaticMemoized \cup {"hasOutputs"}
    BY <1>9, RegistryTable DEF Prototype
  <2>2. (\A test \in StaticMemoized : Passes(test, p, last, static)) <=>
          /\ Static(p, last, static) /\ Marked(p, "Memoize") /\ Keyed(p)
          /\ (\A t \in p.in : CanBeMapKey[t]) /\ ~Marked(p, "Singleton") /\ ~Marked(p, "Reorder")
    BY <1>4, PassesTable DEF StaticMemoized, Keyed
  <2>3. Fit(4, p, last, static) <=> (\A test \in StaticMemoized \cup fallible : Passes(test, p, last, static))
    BY <1>6, <2>2 DEF Fit
  <2>4. (\A test \in {"hasOutputs"} : Passes(test, p, last, static)) <=> p.out # {} \/ p.terminal
    BY PassesTable
  <2>5. Fit(5, p, last, static)
          <=> (\A test \in StaticMemoized \cup {"hasOutputs"} : Passes(test, p, last, static))
    BY <2>2, <2>4 DEF Fit
  <2> QED
    BY <1>1, <1>9, <2>1, <2>3, <2>5
<1>10. CASE n \in {6, 9}
  <2>1. /\ n = 6 => Registry[n].tests =
             StaticInjector \cup fallible \cup {"mustNotMemoize", "notMarkedSingleton", "notMarkedReorder"}
        /\ n = 9 => Registry[n].tests = StaticInjector \cup {"hasOutputs", "mustNotMemoize", "notMarkedSingleton"}
    BY <1>10, RegistryTable DEF Prototype
  <2>2. (\A test \in {"mustNotMemoize", "notMarkedSingleton", "notMarkedReorder"} : Passes(test, p, last, static))
          <=> ~Marked(p, "Memoize") /\ ~Marked(p, "Singleton") /\ ~Marked(p, "Reorder")
    BY PassesTable
  <2>3. (\A test \in {"hasOutputs", "mustNotMemoize", "notMarkedSingleton"} : Passes(test, p, last, static))
          <=> (p.out # {} \/ p.terminal) /\ ~Marked(p, "Memoize") /\ ~Marked(p, "Singleton")
    BY PassesTable
  <2>4. Fit(6, p, last, static) <=> \A test \in
          StaticInjector \cup fallible \cup {"mustNotMemoize", "notMarkedSingleton", "notMarkedReorder"} :
            Passes(test, p, last, static)
    BY <1>4, <1>6, <2>2 DEF Fit
  <2>5. Fit(9, p, last, static) <=> \A test \in
          StaticInjector \cup {"hasOutputs", "mustNotMemoize", "notMarkedSingleton"} :
            Passes(test, p, last, static)
    BY <1>4, <2>3 DEF Fit
  <2> QED
    BY <1>1, <1>10, <2>1, <2>4, <2>5
<1>11. CASE n \in {7, 8}
  <2>1. /\ n = 7 => Registry[n].tests = Injector \cup Unstatic \cup fallible \cup {"markedMemoized"}
        /\ n = 8 => Registry[n].tests = Injector \cup Unstatic \cup fallible \cup {"mustNotMemoize"}
    BY <1>11, RegistryTable DEF Prototype
  <2>2. Passes("markedMemoized", p, last, static) <=> Marked(p, "Memoize")
    BY PassesTable
  <2>3. Passes("mustNotMemoize", p, last, static) <=> ~Marked(p, "Memoize")
    BY PassesTable
  <2>4. Fit(7, p, last, static) <=> \A test \in Injector \cup Unstatic \cup fallible \cup {"markedMemoized"} :
          Passes(test, p, last, static)
    BY <1>5, <1>6, <2>2 DEF Fit
  <2>5. Fit(8, p, last, static) <=> \A test \in Injector \cup Unstatic \cup fallible \cup {"mustNotMemoize"} :
          Passes(test, p, last, static)
    BY <1>5, <1>6, <2>3 DEF Fit
  <2> QED
    BY <1>1, <1>11, <2>1, <2>4, <2>5
<1>12. CASE n \in {10, 11}
  <2>1. /\ n = 10 => Registry[n].tests = Injector \cup Unstatic \cup {"markedMemoized"}
        /\ n = 11 => Registry[n].tests = Injector \cup Unstatic \cup {"mustNotMemoize"}
    BY <1>12, RegistryTable DEF Prototype
  <2>2. Passes("markedMemoized", p, last, static) <=> Marked(p, "Memoize")
    BY PassesTable
  <2>3. Passes("mustNotMemoize", p, last, static) <=> ~Marked(p, "Memoize")
    BY PassesTable
  <2>4. Fit(10, p, last, static) <=> \A test \in Injector \cup Unstatic \cup {"markedMemoized"} :
          Passes(test, p, last, static)
    BY <1>5, <2>2 DEF Fit
  <2>5. Fit(11, p, last, static) <=> \A test \in Injector \cup Unstatic \cup {"mustNotMemoize"} :
          Passes(test, p, last, static)
    BY <1>5, <2>3 DEF Fit
  <2> QED
    BY <1>1, <1>12, <2>1, <2>4, <2>5
<1>13. CASE n \in {12, 13}
  <2>1. /\ n = 12 => Registry[n].tests = {"isFunc", "notLast", "isNotFuncPointer", "unstaticOkay",
             "notMarkedSingleton", "hasInner", "noAnonymousExceptFirstInput", "mustNotMemoize"}
        /\ n = 13 => Registry[n].tests = {"isFunc", "noAnonymousFuncs", "isNotFuncPointer", "unstaticOkay",
             "notMarkedSingleton", "isLast", "mustNotMemoize"}
    BY <1>13, RegistryTable DEF Prototype, Injector, Unstatic
  <2>2. (\A test \in {"isFunc", "notLast", "isNotFuncPointer", "unstaticOkay", "notMarkedSingleton",
                      "hasInner", "noAnonymousExceptFirstInput", "mustNotMemoize"} :
           Passes(test, p, last, static))
          <=> p.kind = "inner" /\ ~last /\ MayRun(p) /\ ~Marked(p, "Memoize")
    BY PassesTable DEF MayRun
  <2>3. (\A test \in {"isFunc", "noAnonymousFuncs", "isNotFuncPointer", "unstaticOkay",
                      "notMarkedSingleton", "isLast", "mustNotMemoize"} :
           Passes(test, p, last, static))
          <=> p.kind \in {"func", "foreign"} /\ last /\ MayRun(p) /\ ~Marked(p, "Memoize")
    BY <1>2, PassesTable DEF MayRun, Kinds
  <2>4. Fit(12, p, last, static) <=> p.kind = "inner" /\ ~last /\ MayRun(p) /\ ~Marked(p, "Memoize")
    BY DEF Fit
  <2>5. Fit(13, p, last, static)
          <=> p.kind \in {"func", "foreign"} /\ last /\ MayRun(p) /\ ~Marked(p, "Memoize")
    BY DEF Fit
  <2> QED
    BY <1>1, <1>13, <2>1, <2>2, <2>3, <2>4, <2>5
<1> QED
  BY <1>7, <1>8, <1>9, <1>10, <1>11, <1>12, <1>13


LEMMA GroupTable ==
  ASSUME NEW n \in 1 .. 13
  PROVE  /\ Registry[n].group = "literal" <=> n = 1
         /\ Registry[n].group = "static" <=> n \in {2, 3, 4, 5, 6, 9}
         /\ Registry[n].group = "run" <=> n \in {7, 8, 10, 11, 12}
         /\ Registry[n].group = "final" <=> n = 13
         /\ Registry[n].memoized <=> n \in {4, 5, 7, 10}
         /\ Registry[n].class \in {"fallible-injector", "fallible-static-injector"} <=> n \in {2, 4, 6, 7, 8}
<1>1. CASE n \in {1, 2, 3, 4, 5, 6}
  BY <1>1, RegistryTable DEF Prototype
<1>2. CASE n \in {7, 8, 9, 10, 11, 12, 13}
  BY <1>2, RegistryTable DEF Prototype
<1> QED
  BY <1>1, <1>2

-----------------------------------------------------------------------------
LEMMA NatLeast ==
  ASSUME NEW T \in SUBSET Nat, T # {}
  PROVE  \E m \in T : \A n \in T : m <= n
<1>1. PICK m \in T : \A n \in T : ~(<<n, m>> \in OpToRel(<, Nat))
  BY NatLessThanWellFounded, WFMin
<1>2. ASSUME NEW n \in T PROVE m <= n
  <2>1. ~(<<n, m>> \in OpToRel(<, Nat))
    BY <1>1
  <2>2. ~(n < m)
    BY <2>1 DEF OpToRel
  <2> QED
    BY <2>2
<1> QED
  BY <1>2

(* characterizeFunc finds the first prototype that fits. *)
LEMMA FirstFit ==
  ASSUME NEW p \in Providers, NEW last \in BOOLEAN, NEW static \in BOOLEAN
  PROVE  /\ CharacterizeFunc(p, last, static) \in 0 .. 13
         /\ CharacterizeFunc(p, last, static) # 0
              => Fit(CharacterizeFunc(p, last, static), p, last, static)
         /\ \A j \in 1 .. 13 : Fit(j, p, last, static)
              => CharacterizeFunc(p, last, static) # 0 /\ CharacterizeFunc(p, last, static) <= j
<1>1. PICK fits : fits = Fits(p, last, static)
  OBVIOUS
<1>2. fits \subseteq 1 .. 13
  BY <1>1, RegistryTable DEF Fits
<1>3. \A j \in 1 .. 13 : j \in fits <=> Fit(j, p, last, static)
  BY <1>1, FitsTable
<1>4. PICK c : c = CharacterizeFunc(p, last, static)
  OBVIOUS
<1>5. c = IF fits = {} THEN 0 ELSE Min(fits)
  BY <1>1, <1>4 DEF CharacterizeFunc
<1>6. fits # {} => Min(fits) \in fits /\ \A j \in fits : Min(fits) <= j
  <2> SUFFICES ASSUME fits # {} PROVE Min(fits) \in fits /\ \A j \in fits : Min(fits) <= j
    OBVIOUS
  <2>1. \E m \in fits : \A j \in fits : m <= j
    BY <1>2, NatLeast
  <2> QED
    BY <2>1 DEF Min
<1>7. c \in 0 .. 13 /\ (c # 0 => Fit(c, p, last, static))
  BY <1>2, <1>3, <1>5, <1>6
<1>8. ASSUME NEW j \in 1 .. 13, Fit(j, p, last, static) PROVE c # 0 /\ c <= j
  BY <1>2, <1>3, <1>5, <1>6, <1>8
<1> QED
  BY <1>4, <1>7, <1>8

-----------------------------------------------------------------------------
(* What the loop of characterizeAndFlatten decides about a provider, when  *)
(* it comes to it with types as nonStaticTypes.                            *)
Decision(p, last, types) ==
  LET first == CharacterizeFunc(p, last, TRUE)
  IN IF first # 0 /\ Registry[first].group = "static" /\ p.in \cap types # {}
     THEN CharacterizeFunc(p, last, FALSE) ELSE first

Decided(p, last, types, d) ==
  /\ d \in 0 .. 13
  /\ d # 0 => \E static \in BOOLEAN : /\ Fit(d, p, last, static)
                                      /\ \A j \in 1 .. 13 : Fit(j, p, last, static) => d <= j
  /\ d # 0 /\ Registry[d].group = "static" => p.in \cap types = {}
  /\ p.in \cap types = {} => \A static \in BOOLEAN : static =>
       /\ d # 0 => Fit(d, p, last, static)
       /\ \A j \in 1 .. 13 : Fit(j, p, last, static) => d # 0 /\ d <= j
LEMMA DecidedAt ==
  ASSUME NEW p \in Providers, NEW last \in BOOLEAN, NEW types
  PROVE  Decided(p, last, types, Decision(p, last, types))
<1>1. PICK d : d = Decision(p, last, types)
  OBVIOUS
<1>2. PICK first : first = CharacterizeFunc(p, last, TRUE)
  OBVIOUS
<1>3. PICK second : second = CharacterizeFunc(p, last, FALSE)
  OBVIOUS
<1>4. d = IF first # 0 /\ Registry[first].group = "static" /\ p.in \cap types # {} THEN second ELSE first
  BY <1>1, <1>2, <1>3 DEF Decision
<1>5. /\ first \in 0 .. 13 /\ (first # 0 => Fit(first, p, last, TRUE))
      /\ \A j \in 1 .. 13 : Fit(j, p, last, TRUE) => first # 0 /\ first <= j
  BY <1>2, FirstFit
<1>6. /\ second \in 0 .. 13 /\ (second # 0 => Fit(second, p, last, FALSE))
      /\ \A j \in 1 .. 13 : Fit(j, p, last, FALSE) => second # 0 /\ second <= j
  BY <1>3, FirstFit
<1>7. second # 0 => Registry[second].group # "static"
  <2>1. second \in {2, 3, 4, 5, 6, 9} => ~Fit(second, p, last, FALSE)
    BY DEF Fit, Static
  <2>2. second # 0 => second \in 1 .. 13
    BY <1>6
  <2> QED
    BY <1>6, <2>1, <2>2, GroupTable
<1>8. d \in 0 .. 13
  BY <1>4, <1>5, <1>6
<1>9. d # 0 => \E static \in BOOLEAN : /\ Fit(d, p, last, static)
                                       /\ \A j \in 1 .. 13 : Fit(j, p, last, static) => d <= j
  BY <1>4, <1>5, <1>6
<1>10. d # 0 /\ Registry[d].group = "static" => p.in \cap types = {}
  BY <1>4, <1>7
<1>11. ASSUME p.in \cap types = {}, NEW static \in BOOLEAN, static
       PROVE  /\ d # 0 => Fit(d, p, last, static)
              /\ \A j \in 1 .. 13 : Fit(j, p, last, static) => d # 0 /\ d <= j
  <2>1. static = TRUE /\ d = first
    BY <1>4, <1>11
  <2> QED
    BY <1>5, <2>1
<1> QED
  BY <1>1, <1>8, <1>9, <1>10, <1>11 DEF Decided

LEMMA FitEntry ==
  ASSUME NEW p \in Providers, NEW last \in BOOLEAN, NEW static \in BOOLEAN
  PROVE  /\ Fit(5, p, last, static) <=>
              /\ Static(p, last, static) /\ Marked(p, "Memoize") /\ Keyed(p)
              /\ (\A t \in p.in : CanBeMapKey[t])
              /\ ~Marked(p, "Singleton") /\ ~Marked(p, "Reorder") /\ (p.out # {} \/ p.terminal)
         /\ Fit(6, p, last, static) <=>
              /\ Static(p, last, static) /\ p.terminal /\ ~Marked(p, "Memoize")
              /\ ~Marked(p, "Singleton") /\ ~Marked(p, "Reorder")
         /\ Fit(9, p, last, static) <=>
              /\ Static(p, last, static) /\ (p.out # {} \/ p.terminal)
              /\ ~Marked(p, "Memoize") /\ ~Marked(p, "Singleton")
BY DEF Fit

StaticMarks == {"Cacheable", "MustCache", "Singleton", "Memoize"}
ReorderApart(p) == Marked(p, "Reorder") => p.annotations \cap StaticMarks = {}

LEMMA StaticDecision ==
  ASSUME NEW p \in Providers, NEW types, NEW last \in BOOLEAN, ~last, Decision(p, last, types) # 0,
         p.kind # "foreign", ReorderApart(p)
  PROVE  Registry[Decision(p, last, types)].group = "static"
           <=> Promotable(p) /\ p.in \cap types = {}
<1>1. PICK d : d = Decision(p, last, types)
  OBVIOUS
<1> PICK static \in BOOLEAN : static
  OBVIOUS
<1>2. /\ d \in 1 .. 13
      /\ Registry[d].group = "static" => p.in \cap types = {}
      /\ p.in \cap types = {} =>
           Fit(d, p, last, static) /\ \A j \in 1 .. 13 : Fit(j, p, last, static) => d <= j
  <2>1. Decided(p, last, types, d) /\ d # 0
    BY <1>1, DecidedAt
  <2>2. d \in 1 .. 13 /\ (Registry[d].group = "static" => p.in \cap types = {})
    BY <2>1 DEF Decided
  <2>3. ASSUME p.in \cap types = {}
        PROVE  Fit(d, p, last, static) /\ \A j \in 1 .. 13 : Fit(j, p, last, static) => d <= j
    <3>1. \A s \in BOOLEAN : s =>
            /\ d # 0 => Fit(d, p, last, s)
            /\ \A j \in 1 .. 13 : Fit(j, p, last, s) => d # 0 /\ d <= j
      BY <2>1, <2>3 DEF Decided
    <3> QED
      BY <2>1, <3>1
  <2> QED
    BY <2>2, <2>3
<1>3. Registry[d].group = "static" <=> d \in {2, 3, 4, 5, 6, 9}
  BY <1>2, GroupTable
<1>4. ASSUME d \in {2, 3, 4, 5, 6, 9} PROVE Promotable(p)
  <2>1. Fit(d, p, last, static)
    BY <1>2, <1>3, <1>4
  <2>2. Static(p, last, static)
    BY <1>4, <2>1 DEF Fit
  <2>3. Marked(p, "Singleton") \/ p.out # {} \/ p.terminal
    BY <1>4, <2>1 DEF Fit
  <2>4. Marked(p, "Singleton") => Keyed(p)
    BY <1>4, <2>1 DEF Fit
  <2>5. Marked(p, "Memoize") => Keyed(p) /\ \A t \in p.in : CanBeMapKey[t]
    BY <1>4, <2>1 DEF Fit
  <2>6. p.kind = "func" /\ ~Marked(p, "NotCacheable") /\ p.annotations \cap StaticMarks # {}
    BY <2>2 DEF Static, Injects, StaticMarks
  <2>7. ~Marked(p, "Reorder")
    BY <2>6 DEF ReorderApart
  <2> QED
    BY <2>3, <2>4, <2>5, <2>6, <2>7 DEF Promotable, StaticMarks, Keyed
<1>5. ASSUME Promotable(p), p.in \cap types = {}, d \notin {2, 3, 4, 5, 6, 9} PROVE FALSE
  <2>1. Fit(d, p, last, static) /\ \A j \in 1 .. 13 : Fit(j, p, last, static) => d <= j
    BY <1>2, <1>5
  <2>2. Static(p, last, static)
    BY <1>5 DEF Promotable, Static, Injects
  <2>3. d \notin {1, 12, 13}
    BY <1>5, <2>1 DEF Fit, Promotable
  <2>4. /\ ~Marked(p, "Reorder") /\ (p.out # {} \/ p.terminal \/ Marked(p, "Singleton"))
        /\ Marked(p, "Memoize") => Keyed(p) /\ \A t \in p.in : CanBeMapKey[t]
    BY <1>5 DEF Promotable, Keyed
  <2>5. CASE d \in {7, 10}
    <3>1. Marked(p, "Memoize") /\ ~Marked(p, "Singleton")
      BY <2>1, <2>5 DEF Fit, MayRun
    <3>2. Fit(5, p, last, static)
      <4>1. p.out # {} \/ p.terminal
        BY <2>4, <3>1
      <4>2. Keyed(p) /\ (\A t \in p.in : CanBeMapKey[t]) /\ ~Marked(p, "Reorder")
        BY <2>4, <3>1
      <4> QED
        BY <2>2, <3>1, <4>1, <4>2, FitEntry
    <3>3. d <= 5
      BY <2>1, <3>2
    <3> QED
      BY <2>5, <3>3
  <2>6. CASE d \in {8, 11}
    <3>1. ~Marked(p, "Memoize") /\ ~Marked(p, "Singleton") /\ (d = 8 => p.terminal)
      BY <2>1, <2>6 DEF Fit, MayRun
    <3>2. Fit(9, p, last, static)
      <4>1. p.out # {} \/ p.terminal
        BY <2>4, <3>1
      <4> QED
        BY <2>2, <3>1, <4>1, FitEntry
    <3>3. p.terminal => Fit(6, p, last, static)
      BY <2>2, <2>4, <3>1, FitEntry
    <3>4. d <= 9 /\ (p.terminal => d <= 6)
      <4>1. 6 \in 1 .. 13 /\ 9 \in 1 .. 13
        OBVIOUS
      <4>2. \A j \in 1 .. 13 : Fit(j, p, last, static) => d <= j
        BY <2>1
      <4> QED
        BY <3>2, <3>3, <4>1, <4>2, Zenon
    <3> QED
      BY <2>6, <3>1, <3>4
  <2> QED
    BY <1>2, <1>5, <2>3, <2>5, <2>6
<1> QED
  BY <1>1, <1>2, <1>3, <1>4, <1>5

(* What Memoize, MustCache, Singleton and NotCacheable ask for, and what a *)
(* TerminalError does.                                                     *)
Granted(p, d) ==
  /\ Marked(p, "MustCache") \/ Marked(p, "Singleton") => Registry[d].group \in {"literal", "static"}
  /\ Marked(p, "NotCacheable") => Registry[d].group # "static"
  /\ Marked(p, "Memoize") /\ p.kind = "func" => Registry[d].memoized
  /\ p.terminal /\ p.kind = "func" /\ Registry[d].group # "final"
       => Registry[d].class \in {"fallible-injector", "fallible-static-injector"}
LEMMA DecisionGranted ==
  ASSUME NEW p \in Providers, NEW last \in BOOLEAN, NEW types,
         Decision(p, last, types) # 0, p.terminal => ReorderApart(p)
  PROVE  Granted(p, Decision(p, last, types))
<1>1. PICK d : d = Decision(p, last, types)
  OBVIOUS
<1>2. Decided(p, last, types, d) /\ d # 0
  BY <1>1, DecidedAt
<1>2a. d \in 1 .. 13
  BY <1>2 DEF Decided
<1>3. PICK static \in BOOLEAN : /\ Fit(d, p, last, static)
                                /\ \A j \in 1 .. 13 : Fit(j, p, last, static) => d <= j
  BY <1>2 DEF Decided
<1>4. Marked(p, "MustCache") \/ Marked(p, "Singleton") => d \in {1, 2, 3, 4, 5, 6, 9}
  BY <1>2a, <1>3 DEF Fit, MayRun
<1>5. Marked(p, "NotCacheable") => d \notin {2, 3, 4, 5, 6, 9}
  BY <1>2a, <1>3 DEF Fit, Static
<1>6. Marked(p, "Memoize") /\ p.kind = "func" => d \in {4, 5, 7, 10}
  BY <1>2a, <1>3 DEF Fit
<1>7. ASSUME p.terminal, p.kind = "func", d # 13 PROVE d \in {2, 4, 6, 7, 8}
  <2>1. d \notin {1, 12}
    BY <1>3, <1>7 DEF Fit
  <2>2. d # 3
    BY <1>3, <1>7 DEF Fit
  <2>3. d # 5
    BY <1>3, <1>7 DEF Fit
  <2>4. d # 9
    <3> SUFFICES ASSUME d = 9 PROVE FALSE
      OBVIOUS
    <3>1. Static(p, last, static) /\ ~Marked(p, "Memoize") /\ ~Marked(p, "Singleton")
      BY <1>3 DEF Fit
    <3>2. ~Marked(p, "Reorder")
      BY <1>7, <3>1 DEF Static, ReorderApart, StaticMarks
    <3>3. Fit(6, p, last, static)
      BY <1>7, <3>1, <3>2 DEF Fit
    <3>4. d <= 6
      BY <1>3, <3>3
    <3> QED
      BY <3>4
  <2>5. d # 10 /\ d # 11
    <3>1. d = 10 => Fit(7, p, last, static)
      BY <1>3, <1>7 DEF Fit
    <3>2. d = 11 => Fit(8, p, last, static)
      BY <1>3, <1>7 DEF Fit
    <3> QED
      BY <1>3, <3>1, <3>2
  <2> QED
    BY <1>2a, <1>7, <2>1, <2>2, <2>3, <2>4, <2>5
<1>8. Granted(p, d)
  BY <1>2a, <1>4, <1>5, <1>6, <1>7, GroupTable DEF Granted
<1> QED
  BY <1>1, <1>8

(* Whoever is last is the final function, and nobody else.                 *)
LEMMA DecisionLast ==
  ASSUME NEW p \in Providers, NEW last \in BOOLEAN, NEW types, Decision(p, last, types) # 0
  PROVE  last <=> Registry[Decision(p, last, types)].group = "final"
<1>1. PICK d : d = Decision(p, last, types)
  OBVIOUS
<1>2. Decided(p, last, types, d) /\ d # 0
  BY <1>1, DecidedAt
<1>2a. d \in 1 .. 13
  BY <1>2 DEF Decided
<1>3. PICK static \in BOOLEAN : Fit(d, p, last, static)
  BY <1>2 DEF Decided
<1>4. last <=> d = 13
  BY <1>2a, <1>3 DEF Fit, Static, Injects
<1> QED
  BY <1>1, <1>2a, <1>4, GroupTable


-----------------------------------------------------------------------------
(* reorderNonFinal takes the last provider that may be final, at place m,  *)
(* to the end; those behind it move up.                                    *)
From(m, n, k) == IF k < m THEN k ELSE IF k < n THEN k + 1 ELSE m
MovedFrom(c, d, m) ==
  /\ m \in 1 .. Len(c) /\ ~NonFinal(c[m]) /\ \A k \in m + 1 .. Len(c) : NonFinal(c[k])
  /\ d = [k \in 1 .. Len(c) |-> c[From(m, Len(c), k)]]

LEMMA ShiftFinalMoves ==
  ASSUME NEW D, NEW c \in Seq(D)
  PROVE  \/ ShiftFinal(c) = c /\ \A k \in 1 .. Len(c) : NonFinal(c[k])
         \/ \E m \in 1 .. Len(c) : MovedFrom(c, ShiftFinal(c), m)
<1>1. PICK finals : finals = {k \in DOMAIN c : ~NonFinal(c[k])}
  OBVIOUS
<1>2. ShiftFinal(c) = IF finals = {} THEN c ELSE Append(RemoveAt(c, Max(finals)), c[Max(finals)])
  BY <1>1 DEF ShiftFinal
<1>3. CASE finals = {}
  BY <1>1, <1>2, <1>3
<1>4. CASE finals # {}
  <2>1. finals \subseteq 1 .. Len(c) /\ Len(c) \in Nat
    BY <1>1
  <2>2. \E m \in finals : \A k \in finals : k <= m
    <3> DEFINE R == {Len(c) - k : k \in finals}
    <3>1. \A k \in finals : Len(c) - k \in Nat
      BY <2>1
    <3>2. R \in SUBSET Nat /\ R # {}
      BY <1>4, <3>1
    <3>3. PICK r \in R : \A q \in R : r <= q
      BY <3>2, NatLeast
    <3>4. PICK m \in finals : r = Len(c) - m
      BY <3>3
    <3>5. ASSUME NEW k \in finals PROVE k <= m
      <4>1. Len(c) - m <= Len(c) - k
        BY <3>3, <3>4
      <4> QED
        BY <2>1, <4>1
    <3> QED
      BY <3>5
  <2>3. PICK m \in finals : m = Max(finals) /\ \A k \in finals : k <= m
    BY <2>2 DEF Max
  <2>4. m \in 1 .. Len(c) /\ ~NonFinal(c[m])
    BY <1>1, <2>3
  <2>5. ASSUME NEW k \in m + 1 .. Len(c) PROVE NonFinal(c[k])
    <3>1. k \in 1 .. Len(c) /\ k > m
      BY <2>1, <2>4
    <3>2. k \notin finals
      BY <2>1, <2>3, <2>4, <3>1
    <3> QED
      BY <1>1, <3>1, <3>2
  <2>6. PICK before \in Seq(D) : before = SubSeq(c, 1, m - 1)
    <3>1. \A k \in 1 .. m - 1 : c[k] \in D
      BY <2>4
    <3>2. 1 \in Int /\ m - 1 \in Int
      BY <2>4
    <3>3. SubSeq(c, 1, m - 1) \in Seq(D)
      BY <3>1, <3>2, SubSeqProperties, Zenon
    <3> QED
      BY <3>3
  <2>7. PICK after \in Seq(D) : after = SubSeq(c, m + 1, Len(c))
    <3>1. \A k \in m + 1 .. Len(c) : c[k] \in D
      BY <2>4
    <3>2. m + 1 \in Int /\ Len(c) \in Int
      BY <2>4
    <3>3. SubSeq(c, m + 1, Len(c)) \in Seq(D)
      BY <3>1, <3>2, SubSeqProperties, Zenon
    <3> QED
      BY <3>3
  <2>8. /\ Len(before) = m - 1 /\ \A k \in 1 .. m - 1 : before[k] = c[k]
        /\ Len(after) = Len(c) - m /\ \A k \in 1 .. Len(c) - m : after[k] = c[m + k]
    BY <2>4, <2>6, <2>7
  <2>9. PICK rest \in Seq(D) : rest = before \o after
    BY ConcatProperties
  <2>10. /\ Len(rest) = Len(c) - 1
         /\ \A k \in 1 .. Len(c) - 1 : rest[k] = IF k < m THEN c[k] ELSE c[k + 1]
    <3>1. Len(rest) = Len(before) + Len(after)
      BY <2>9
    <3>2. \A k \in 1 .. m - 1 : rest[k] = before[k]
      BY <2>8, <2>9, <3>1
    <3>3. \A k \in m .. Len(c) - 1 : rest[k] = after[k - (m - 1)]
      BY <2>4, <2>8, <2>9, <3>1
    <3>4. \A k \in m .. Len(c) - 1 : k - (m - 1) \in 1 .. Len(c) - m /\ m + (k - (m - 1)) = k + 1
      BY <2>4
    <3> QED
      BY <2>4, <2>8, <3>1, <3>2, <3>3, <3>4
  <2>11. ShiftFinal(c) = Append(rest, c[m])
    BY <1>2, <1>4, <2>3, <2>6, <2>7, <2>9 DEF RemoveAt
  <2>12. c[m] \in D
    BY <2>4
  <2>13. ShiftFinal(c) = [k \in 1 .. Len(c) |-> c[From(m, Len(c), k)]]
    <3>1. ShiftFinal(c) = [k \in 1 .. Len(c) |-> IF k = Len(c) THEN c[m] ELSE rest[k]]
      BY <2>4, <2>10, <2>11, <2>12
    <3>2. \A k \in 1 .. Len(c) : (IF k = Len(c) THEN c[m] ELSE rest[k]) = c[From(m, Len(c), k)]
      BY <2>4, <2>10 DEF From
    <3> QED
      BY <3>1, <3>2
  <2> QED
    BY <2>4, <2>5, <2>13 DEF MovedFrom
<1> QED
  BY <1>3, <1>4

(* It loses nobody and doubles nobody. *)
Once(c) == \A k, l \in 1 .. Len(c) : c[k] = c[l] => k = l
LEMMA ShiftFinalKeeps ==
  ASSUME NEW D, NEW c \in Seq(D)
  PROVE  /\ ShiftFinal(c) \in Seq(D) /\ Len(ShiftFinal(c)) = Len(c)
         /\ Once(c) => Once(ShiftFinal(c))
         /\ \A k \in 1 .. Len(c) : \E l \in 1 .. Len(c) : ShiftFinal(c)[k] = c[l]
<1>1. CASE ShiftFinal(c) = c
  BY <1>1
<1>2. ASSUME NEW m \in 1 .. Len(c), MovedFrom(c, ShiftFinal(c), m)
      PROVE  /\ ShiftFinal(c) \in Seq(D) /\ Len(ShiftFinal(c)) = Len(c)
             /\ Once(c) => Once(ShiftFinal(c))
             /\ \A k \in 1 .. Len(c) : \E l \in 1 .. Len(c) : ShiftFinal(c)[k] = c[l]
  <2>1. PICK n \in Nat : n = Len(c)
    OBVIOUS
  <2>2. PICK d : d = ShiftFinal(c)
    OBVIOUS
  <2>3. d = [k \in 1 .. n |-> c[From(m, n, k)]]
    BY <1>2, <2>1, <2>2 DEF MovedFrom
  <2>4. \A k \in 1 .. n : From(m, n, k) \in 1 .. n /\ c[From(m, n, k)] \in D
    <3>1. \A k \in 1 .. n : From(m, n, k) \in 1 .. n
      BY <2>1 DEF From
    <3> QED
      BY <2>1, <3>1
  <2>5. d \in [1 .. n -> D]
    BY <2>3, <2>4
  <2>6. d \in Seq(D) /\ Len(d) = n
    BY <2>5
  <2>7. \A k, l \in 1 .. n : From(m, n, k) = From(m, n, l) => k = l
    BY <2>1 DEF From
  <2>8. Once(c) => Once(d)
    BY <2>1, <2>3, <2>4, <2>6, <2>7 DEF Once
  <2> QED
    BY <2>1, <2>2, <2>3, <2>4, <2>6, <2>8
<1> QED
  BY <1>1, <1>2, ShiftFinalMoves


(* ReplaceSelf at a place: q providers, numbered from N + 1 on, take it.   *)
ReplacedAt(N, c, at, q, k) ==
  IF k < at THEN c[k] ELSE IF k < at + q THEN N + (k - at + 1) ELSE c[k - q + 1]
Replacing(N, c, at, q, d) ==
  /\ d \in Seq(1 .. N + q) /\ Len(d) = Len(c) - 1 + q
  /\ \A k \in 1 .. Len(c) - 1 + q : d[k] = ReplacedAt(N, c, at, q, k)

LEMMA JoinedParts ==
  ASSUME NEW S, NEW a \in Seq(S), NEW b \in Seq(S)
  PROVE  /\ a \o b \in Seq(S) /\ Len(a \o b) = Len(a) + Len(b)
         /\ \A k \in 1 .. Len(a) : (a \o b)[k] = a[k]
         /\ \A k \in Len(a) + 1 .. Len(a) + Len(b) : (a \o b)[k] = b[k - Len(a)]
<1>1. PICK j : j = a \o b
  OBVIOUS
<1>2. j \in Seq(S) /\ Len(j) = Len(a) + Len(b)
  BY <1>1, ConcatProperties
<1>3. \A k \in 1 .. Len(a) + Len(b) : j[k] = IF k <= Len(a) THEN a[k] ELSE b[k - Len(a)]
  BY <1>1, ConcatProperties
<1>4. Len(a) \in Nat /\ Len(b) \in Nat
  OBVIOUS
<1> QED
  BY <1>1, <1>2, <1>3, <1>4

LEMMA Substituted ==
  ASSUME NEW N \in Nat, NEW c \in Seq(1 .. N), NEW at \in 1 .. Len(c), NEW q \in Nat
  PROVE  Replacing(N, c, at, q,
           SubSeq(c, 1, at - 1) \o [k \in 1 .. q |-> N + k] \o SubSeq(c, at + 1, Len(c)))
<1>1. PICK n \in Nat : n = Len(c)
  OBVIOUS
<1>2. \A k \in 1 .. n : c[k] \in 1 .. N + q
  BY <1>1
<1>3. PICK s \in Seq(1 .. N + q) : s = [k \in 1 .. q |-> N + k] /\ Len(s) = q
  <2>1. PICK s \in [1 .. q -> 1 .. N + q] : s = [k \in 1 .. q |-> N + k]
    <3>1. \A k \in 1 .. q : N + k \in 1 .. N + q
      OBVIOUS
    <3>2. [k \in 1 .. q |-> N + k] \in [1 .. q -> 1 .. N + q]
      BY <3>1
    <3> QED
      BY <3>2
  <2>2. s \in Seq(1 .. N + q) /\ Len(s) = q
    OBVIOUS
  <2> QED
    BY <2>1, <2>2
<1>4. PICK before \in Seq(1 .. N + q) : before = SubSeq(c, 1, at - 1)
  <2>1. \A k \in 1 .. at - 1 : c[k] \in 1 .. N + q
    BY <1>1, <1>2
  <2>2. 1 \in Int /\ at - 1 \in Int
    BY <1>1
  <2>3. SubSeq(c, 1, at - 1) \in Seq(1 .. N + q)
    BY <2>1, <2>2, SubSeqProperties, Zenon
  <2> QED
    BY <2>3
<1>5. PICK after \in Seq(1 .. N + q) : after = SubSeq(c, at + 1, Len(c))
  <2>1. \A k \in at + 1 .. Len(c) : c[k] \in 1 .. N + q
    BY <1>1, <1>2
  <2>2. at + 1 \in Int /\ Len(c) \in Int
    BY <1>1
  <2>3. SubSeq(c, at + 1, Len(c)) \in Seq(1 .. N + q)
    BY <2>1, <2>2, SubSeqProperties, Zenon
  <2> QED
    BY <2>3
<1>6. /\ Len(before) = at - 1 /\ \A k \in 1 .. at - 1 : before[k] = c[k]
      /\ Len(after) = n - at /\ \A k \in 1 .. n - at : after[k] = c[at + k]
  BY <1>1, <1>4, <1>5
<1>7. at - 1 \in Nat /\ n - at \in Nat /\ at - 1 + q \in Nat
  BY <1>1
<1>8. PICK front \in Seq(1 .. N + q) :
        /\ front = before \o s /\ Len(front) = at - 1 + q
        /\ \A k \in 1 .. at - 1 : front[k] = before[k]
        /\ \A k \in at - 1 + 1 .. at - 1 + q : front[k] = s[k - (at - 1)]
  <2>1. PICK front : front = before \o s
    OBVIOUS
  <2>2. /\ front \in Seq(1 .. N + q) /\ Len(front) = Len(before) + Len(s)
        /\ \A k \in 1 .. Len(before) : front[k] = before[k]
        /\ \A k \in Len(before) + 1 .. Len(before) + Len(s) : front[k] = s[k - Len(before)]
    BY <2>1, JoinedParts
  <2>3. Len(before) = at - 1 /\ Len(s) = q
    BY <1>3, <1>6
  <2>4. /\ Len(front) = at - 1 + q /\ \A k \in 1 .. at - 1 : front[k] = before[k]
        /\ \A k \in at - 1 + 1 .. at - 1 + q : front[k] = s[k - (at - 1)]
    BY <2>2, <2>3
  <2> QED
    BY <2>1, <2>2, <2>4
<1>9. PICK d \in Seq(1 .. N + q) :
        /\ d = front \o after /\ Len(d) = at - 1 + q + (n - at)
        /\ \A k \in 1 .. at - 1 + q : d[k] = front[k]
        /\ \A k \in at - 1 + q + 1 .. at - 1 + q + (n - at) : d[k] = after[k - (at - 1 + q)]
  <2>1. PICK d : d = front \o after
    OBVIOUS
  <2>2. /\ d \in Seq(1 .. N + q) /\ Len(d) = Len(front) + Len(after)
        /\ \A k \in 1 .. Len(front) : d[k] = front[k]
        /\ \A k \in Len(front) + 1 .. Len(front) + Len(after) : d[k] = after[k - Len(front)]
    BY <2>1, JoinedParts
  <2>3. Len(front) = at - 1 + q /\ Len(after) = n - at
    BY <1>6, <1>8
  <2> QED
    BY <2>1, <2>2, <2>3
<1>10. Len(d) = n - 1 + q
  BY <1>1, <1>9
<1>11. ASSUME NEW k \in 1 .. n - 1 + q PROVE d[k] = ReplacedAt(N, c, at, q, k)
  <2>1. CASE k < at
    <3>1. k \in 1 .. at - 1 /\ k \in 1 .. at - 1 + q
      BY <1>1, <2>1
    <3> QED
      BY <1>6, <1>8, <1>9, <2>1, <3>1 DEF ReplacedAt
  <2>2. CASE ~(k < at) /\ k < at + q
    <3>1. k \in at - 1 + 1 .. at - 1 + q /\ k \in 1 .. at - 1 + q /\ k - (at - 1) \in 1 .. q
      BY <1>1, <2>2
    <3>2. d[k] = s[k - (at - 1)]
      BY <1>8, <1>9, <3>1
    <3>3. s[k - (at - 1)] = N + (k - (at - 1)) /\ k - (at - 1) = k - at + 1
      BY <1>1, <1>3, <3>1
    <3> QED
      BY <2>2, <3>2, <3>3 DEF ReplacedAt
  <2>3. CASE ~(k < at + q)
    <3>1. /\ k \in at - 1 + q + 1 .. at - 1 + q + (n - at)
          /\ k - (at - 1 + q) \in 1 .. n - at /\ at + (k - (at - 1 + q)) = k - q + 1
      BY <1>1, <2>3
    <3>2. d[k] = c[at + (k - (at - 1 + q))]
      BY <1>6, <1>9, <3>1
    <3>3. ~(k < at)
      BY <1>1, <2>3
    <3> QED
      BY <2>3, <3>1, <3>2, <3>3 DEF ReplacedAt
  <2> QED
    BY <2>1, <2>2, <2>3
<1>12. Replacing(N, c, at, q, d)
  BY <1>1, <1>10, <1>11 DEF Replacing
<1> QED
  BY <1>3, <1>4, <1>5, <1>8, <1>9, <1>12

(* Whoever is not a substitute keeps its number, at a place of its own.    *)
LEMMA SubstitutedFrom ==
  ASSUME NEW N \in Nat, NEW c \in Seq(1 .. N), NEW at \in 1 .. Len(c), NEW q \in Nat, NEW d,
         Replacing(N, c, at, q, d), NEW k \in 1 .. Len(d)
  PROVE  \/ k < at + q /\ ~(k < at) /\ d[k] = N + (k - at + 1)
         \/ (k < at \/ ~(k < at + q)) /\ d[k] <= N
            /\ \E l \in 1 .. Len(c) : d[k] = c[l] /\ l # at /\ l = IF k < at THEN k ELSE k - q + 1
<1>1. PICK n \in Nat : n = Len(c)
  OBVIOUS
<1>2. k \in 1 .. n - 1 + q /\ d[k] = ReplacedAt(N, c, at, q, k)
  BY <1>1 DEF Replacing
<1>3. \A l \in 1 .. n : c[l] \in 1 .. N
  BY <1>1
<1>4. CASE k < at + q /\ ~(k < at)
  BY <1>2, <1>4 DEF ReplacedAt
<1>5. CASE k < at
  <2>1. k \in 1 .. n /\ d[k] = c[k] /\ k # at
    BY <1>1, <1>2, <1>5 DEF ReplacedAt
  <2> QED
    BY <1>1, <1>3, <1>5, <2>1
<1>6. CASE ~(k < at + q)
  <2>1. k - q + 1 \in 1 .. n /\ k - q + 1 # at /\ ~(k < at)
    BY <1>1, <1>2, <1>6
  <2>2. d[k] = c[k - q + 1]
    BY <1>2, <1>6, <2>1 DEF ReplacedAt
  <2> QED
    BY <1>1, <1>3, <1>6, <2>1, <2>2
<1> QED
  BY <1>4, <1>5, <1>6

LEMMA SubstitutedOnce ==
  ASSUME NEW N \in Nat, NEW c \in Seq(1 .. N), NEW at \in 1 .. Len(c), NEW q \in Nat, NEW d,
         Replacing(N, c, at, q, d), Once(c)
  PROVE  Once(d)
<1>1. \A k, l \in 1 .. Len(c) : c[k] = c[l] => k = l
  BY DEF Once
<1>2. Len(d) \in Nat /\ at \in Nat
  BY DEF Replacing
<1>3. ASSUME NEW k \in 1 .. Len(d), NEW l \in 1 .. Len(d), d[k] = d[l] PROVE k = l
  <2>1. \/ k < at + q /\ ~(k < at) /\ d[k] = N + (k - at + 1)
        \/ (k < at \/ ~(k < at + q)) /\ d[k] <= N
           /\ \E m \in 1 .. Len(c) : d[k] = c[m] /\ m # at /\ m = IF k < at THEN k ELSE k - q + 1
    BY SubstitutedFrom
  <2>2. \/ l < at + q /\ ~(l < at) /\ d[l] = N + (l - at + 1)
        \/ (l < at \/ ~(l < at + q)) /\ d[l] <= N
           /\ \E m \in 1 .. Len(c) : d[l] = c[m] /\ m # at /\ m = IF l < at THEN l ELSE l - q + 1
    BY SubstitutedFrom
  <2> QED
    BY <1>1, <1>2, <1>3, <2>1, <2>2
<1> QED
  BY <1>3 DEF Once


-----------------------------------------------------------------------------
(* The chain has each provider once, and the list is made from it: when    *)
(* the loop comes to a place it has decided about all those before, by     *)
(* what those of them in the RUN set hand down.                            *)
Supplied(p) == \E s \in Collections \cup Substitutes : \E k \in DOMAIN s : p = s[k]
Typed ==
  /\ providers \in Seq(Providers) /\ contents \in Seq(1 .. Len(providers)) /\ Once(contents)
  /\ given \in Nat /\ given <= Len(providers)
  /\ handed \subseteq Types /\ nonStatic \subseteq Types
  /\ phase \in {"shift", "mutate", "list", "done", "error"} /\ i \in Nat \ {0} /\ mutated \in BOOLEAN
  /\ \A n \in 1 .. Len(providers) : Supplied(providers[n])
  /\ afterInit \in Seq(1 .. Len(providers)) /\ afterInvoke \in Seq(1 .. Len(providers))
  /\ \A n \in DOMAIN matched : matched[n] \in 1 .. 13
MatchedAs(k) ==
  \E last \in BOOLEAN : /\ last <=> k = Len(contents)
                        /\ matched[contents[k]] = Decision(providers[contents[k]], last, RunTypes(k))
ListedTo(k) ==
  /\ phase = "done" => k = Len(contents) + 1
  /\ \A l \in 1 .. k - 1 : contents[l] \in DOMAIN matched /\ MatchedAs(l)
  /\ nonStatic = RunTypes(k)
Listed ==
  /\ phase \in {"shift", "mutate"} =>
       nonStatic = handed /\ matched = <<>> /\ afterInit = <<>> /\ afterInvoke = <<>>
  /\ phase \in {"list", "done"} => \E k \in 1 .. Len(contents) + 1 : k = i /\ ListedTo(k)
CInv == Typed /\ Listed

LEMMA TypedIsOK == Typed => TypeOK
<1> SUFFICES ASSUME Typed PROVE TypeOK
  OBVIOUS
<1>1. DOMAIN providers = 1 .. Len(providers)
  BY DEF Typed
<1> QED
  BY <1>1, RegistryTable DEF Typed, TypeOK

LEMMA CInit == Init => CInv
<1> SUFFICES ASSUME Init PROVE CInv
  OBVIOUS
<1>1. providers \in Seq(Providers) /\ providers \in Collections
  BY CharacterizeAssumption DEF Init
<1>2. PICK n \in Nat : n = Len(providers) /\ DOMAIN providers = 1 .. n
  BY <1>1
<1>3. contents = [k \in 1 .. n |-> k]
  BY <1>2 DEF Init
<1>4. contents \in Seq(1 .. n) /\ Len(contents) = n
  <2>1. contents \in [1 .. n -> 1 .. n]
    BY <1>3
  <2> QED
    BY <2>1
<1>5. Once(contents)
  BY <1>3, <1>4 DEF Once
<1>6. \A k \in 1 .. Len(providers) : Supplied(providers[k])
  BY <1>1, <1>2 DEF Supplied
<1>7. handed \subseteq Types /\ nonStatic = handed
  BY CharacterizeAssumption DEF Init
<1>8. afterInit = <<>> /\ afterInvoke = <<>> /\ matched = <<>> /\ given = n /\ phase = "shift" /\ i = 1
      /\ mutated = FALSE
  BY <1>2 DEF Init
<1>9. Typed
  <2>1. afterInit \in Seq(1 .. Len(providers)) /\ afterInvoke \in Seq(1 .. Len(providers))
    BY <1>8
  <2>2. \A k \in DOMAIN matched : matched[k] \in 1 .. 13
    BY <1>8
  <2>3. given \in Nat /\ given <= Len(providers) /\ contents \in Seq(1 .. Len(providers))
    BY <1>2, <1>4, <1>8
  <2>4. /\ phase \in {"shift", "mutate", "list", "done", "error"} /\ i \in Nat \ {0}
        /\ mutated \in BOOLEAN /\ handed \subseteq Types /\ nonStatic \subseteq Types
    <3>1. nonStatic \subseteq Types
      BY <1>7
    <3>2. i \in Nat \ {0} /\ mutated \in BOOLEAN
      <4>1. i \in Nat \ {0}
        BY <1>8
      <4>2. mutated \in BOOLEAN
        BY <1>8, Zenon
      <4> QED
        BY <4>1, <4>2
    <3>3. phase \in {"shift", "mutate", "list", "done", "error"}
      BY <1>8
    <3> QED
      BY <1>7, <3>1, <3>2, <3>3
  <2> QED
    BY <1>1, <1>5, <1>6, <2>1, <2>2, <2>3, <2>4 DEF Typed
<1> QED
  BY <1>7, <1>8, <1>9 DEF CInv, Listed

LEMMA RunTypesSame ==
  ASSUME UNCHANGED <<handed, providers, contents, matched>>
  PROVE  \A k : RunTypes(k)' = RunTypes(k) /\ MatchedAs(k)' = MatchedAs(k)
<1>1. \A k : RunTypes(k)' = RunTypes(k)
  BY DEF RunTypes, Got
<1> QED
  BY <1>1 DEF MatchedAs

(* The loops that shift and replace know nothing of the lists. *)
LEMMA ShiftKeeps == CInv /\ Shift => CInv'
<1> SUFFICES ASSUME CInv, Shift PROVE CInv'
  OBVIOUS
<1>1. /\ contents' = ShiftFinal(contents) /\ phase = "shift" /\ phase' = "mutate"
      /\ UNCHANGED <<given, handed, providers, i, mutated, nonStatic, afterInit, afterInvoke, matched>>
  BY DEF Shift, input, lists
<1>2. contents' \in Seq(1 .. Len(providers)) /\ Once(contents')
  BY <1>1, ShiftFinalKeeps DEF CInv, Typed
<1>3. Typed'
  BY <1>1, <1>2 DEF CInv, Typed, Supplied
<1> QED
  BY <1>1, <1>3 DEF CInv, Listed

LEMMA SettleKeeps == CInv /\ Settle => CInv'
<1> SUFFICES ASSUME CInv, Settle PROVE CInv'
  OBVIOUS
<1>1. /\ contents' = IF mutated THEN ShiftFinal(contents) ELSE contents
      /\ phase = "mutate" /\ phase' = "list" /\ i' = 1
      /\ UNCHANGED <<given, handed, providers, mutated, nonStatic, afterInit, afterInvoke, matched>>
  BY DEF Settle, input, lists
<1>2. contents' \in Seq(1 .. Len(providers)) /\ Once(contents')
  BY <1>1, ShiftFinalKeeps DEF CInv, Typed
<1>3. Typed'
  BY <1>1, <1>2 DEF CInv, Typed, Supplied
<1>4. RunTypes(1)' = handed'
  BY DEF RunTypes
<1>5. 1 \in 1 .. Len(contents') + 1
  BY <1>1, <1>2
<1>6. nonStatic' = RunTypes(1)'
  BY <1>1, <1>4 DEF CInv, Listed
<1>7. \A l \in 1 .. 1 - 1 : FALSE
  OBVIOUS
<1>8. ListedTo(1)'
  BY <1>1, <1>6, <1>7 DEF ListedTo
<1> QED
  BY <1>1, <1>3, <1>5, <1>8 DEF CInv, Listed

LEMMA ReplaceSelfKeeps == CInv /\ ReplaceSelf => CInv'
<1> SUFFICES ASSUME CInv, ReplaceSelf PROVE CInv'
  OBVIOUS
<1>1. PICK s \in Substitutes :
        /\ providers' = providers \o s
        /\ contents' = SubSeq(contents, 1, i - 1)
                         \o [k \in DOMAIN s |-> Len(providers) + k]
                         \o SubSeq(contents, i + 1, Len(contents))
  BY DEF ReplaceSelf
<1>2. /\ phase = "mutate" /\ i <= Len(contents) /\ i' = i + 1 /\ mutated' = TRUE
      /\ UNCHANGED <<given, handed, phase, nonStatic, afterInit, afterInvoke, matched>>
  BY DEF ReplaceSelf, At, input, lists
<1>3. PICK N \in Nat : N = Len(providers)
  BY DEF CInv, Typed
<1>4. s \in Seq(Providers)
  BY CharacterizeAssumption
<1>5. PICK q \in Nat : q = Len(s) /\ DOMAIN s = 1 .. q
  BY <1>4
<1>6. /\ providers' \in Seq(Providers) /\ Len(providers') = N + q
      /\ \A k \in 1 .. N : providers'[k] = providers[k]
      /\ \A k \in N + 1 .. N + q : providers'[k] = s[k - N]
  BY <1>1, <1>3, <1>4, <1>5, JoinedParts DEF CInv, Typed
<1>7. contents \in Seq(1 .. N) /\ i \in 1 .. Len(contents) /\ Once(contents)
  BY <1>2, <1>3 DEF CInv, Typed
<1>8. Replacing(N, contents, i, q, contents')
  BY <1>1, <1>3, <1>5, <1>7, Substituted
<1>9. contents' \in Seq(1 .. N + q) /\ Once(contents')
  BY <1>7, <1>8, SubstitutedOnce DEF Replacing
<1>10. ASSUME NEW n \in 1 .. N + q PROVE Supplied(providers'[n])
  <2>1. CASE n <= N
    BY <1>3, <1>6, <2>1 DEF CInv, Typed
  <2>2. CASE ~(n <= N)
    <3>1. n \in N + 1 .. N + q /\ n - N \in DOMAIN s
      BY <1>5, <2>2
    <3> QED
      BY <1>6, <3>1 DEF Supplied
  <2> QED
    BY <2>1, <2>2
<1>11. afterInit' = <<>> /\ afterInvoke' = <<>> /\ matched' = <<>> /\ nonStatic' = handed'
  BY <1>2 DEF CInv, Listed
<1>12. given' <= N + q
  BY <1>2, <1>3 DEF CInv, Typed
<1>13. Typed'
  <2>1. given' \in Nat /\ handed' \subseteq Types /\ i' \in Nat \ {0} /\ mutated' \in BOOLEAN
    BY <1>2 DEF CInv, Typed
  <2> QED
    BY <1>2, <1>6, <1>9, <1>10, <1>11, <1>12, <2>1 DEF Typed, Supplied
<1> QED
  BY <1>2, <1>11, <1>13 DEF CInv, Listed


LEMMA StillKeeps ==
  ASSUME CInv, UNCHANGED <<given, handed, providers, contents, nonStatic, lists>>,
         mutated' = mutated, i' \in Nat \ {0},
         \/ phase' \in {"mutate", "error"} /\ phase = "mutate"
         \/ phase' = "error"
         \/ phase' = phase /\ i' = i
         \/ phase = "list" /\ phase' = "done" /\ i' = i /\ i > Len(contents)
  PROVE  CInv'
<1>1. Typed'
  <2>1. phase' \in {"shift", "mutate", "list", "done", "error"}
    BY DEF CInv, Typed
  <2> QED
    BY <2>1 DEF CInv, Typed, Supplied, lists
<1>2. \A k : RunTypes(k)' = RunTypes(k) /\ MatchedAs(k)' = MatchedAs(k)
  BY RunTypesSame DEF lists
<1>3. phase' \in {"shift", "mutate"} =>
        nonStatic' = handed' /\ matched' = <<>> /\ afterInit' = <<>> /\ afterInvoke' = <<>>
  BY DEF CInv, Listed, lists
<1>4. ASSUME phase' \in {"list", "done"}
      PROVE  \E k \in 1 .. Len(contents') + 1 : k = i' /\ ListedTo(k)'
  <2>1. i' = i /\ phase \in {"list", "done"} /\ matched' = matched
    BY <1>4 DEF lists
  <2>2. PICK k \in 1 .. Len(contents) + 1 : k = i /\ ListedTo(k)
    BY <2>1 DEF CInv, Listed
  <2>3. Len(contents) \in Nat
    BY DEF CInv, Typed
  <2>4. phase' = "done" => k = Len(contents') + 1
    BY <2>1, <2>2, <2>3 DEF ListedTo
  <2>5. \A l \in 1 .. k - 1 : contents'[l] \in DOMAIN matched' /\ MatchedAs(l)'
    BY <1>2, <2>1, <2>2 DEF ListedTo
  <2>6. nonStatic' = RunTypes(k)'
    BY <1>2, <2>2 DEF ListedTo
  <2>7. ListedTo(k)'
    BY <2>4, <2>5, <2>6 DEF ListedTo
  <2> QED
    BY <2>1, <2>2, <2>7
<1>5. Listed'
  BY <1>3, <1>4 DEF Listed
<1> QED
  BY <1>1, <1>5 DEF CInv


(* Whoever is listed is matched as it must be, and those before it keep    *)
(* what they got.                                                          *)
LEMMA MatchIsDecision ==
  ASSUME NEW n, NEW last \in BOOLEAN, last <=> n = contents[Len(contents)]
  PROVE  Match(n) = Decision(providers[n], last, nonStatic)
<1>1. last = (n = contents[Len(contents)])
  OBVIOUS
<1> QED
  BY <1>1, Zenon DEF Match, Decision

LEMMA NotStaticTyped ==
  ASSUME NEW n, providers[n] \in Providers
  PROVE  NotStatic(n) \subseteq Types
BY DEF NotStatic, Providers

LEMMA RunTypesNext ==
  ASSUME NEW k \in Nat \ {0}
  PROVE  RunTypes(k + 1)' = RunTypes(k)' \cup
           IF Got(contents[k])'.group = "run" THEN providers'[contents'[k]].out ELSE {}
<1> DEFINE run(m) == {l \in 1 .. m - 1 : Got(contents[l])'.group = "run"}
<1>1. run(k + 1) = run(k) \cup (IF Got(contents[k])'.group = "run" THEN {k} ELSE {})
  OBVIOUS
<1>2. {providers'[contents'[l]].out : l \in run(k + 1)}
        = {providers'[contents'[l]].out : l \in run(k)}
          \cup (IF Got(contents[k])'.group = "run" THEN {providers'[contents'[k]].out} ELSE {})
  BY <1>1
<1> QED
  BY <1>2 DEF RunTypes

LEMMA RunTypesBefore ==
  ASSUME NEW k \in Nat, UNCHANGED <<handed, providers, contents>>,
         \A l \in 1 .. k - 1 : matched'[contents[l]] = matched[contents[l]]
  PROVE  RunTypes(k)' = RunTypes(k)
<1>1. \A l \in 1 .. k - 1 : Got(contents[l])' = Got(contents[l])
  BY DEF Got
<1>2. {l \in 1 .. k - 1 : Got(contents[l])'.group = "run"}
        = {l \in 1 .. k - 1 : Got(contents[l]).group = "run"}
  BY <1>1
<1>3. RunTypes(k)' = handed \cup UNION {providers[contents[l]].out :
                                        l \in {l \in 1 .. k - 1 : Got(contents[l])'.group = "run"}}
  BY DEF RunTypes, Got
<1> QED
  BY <1>2, <1>3 DEF RunTypes


LEMMA ListKeeps == CInv /\ List => CInv'
<1> SUFFICES ASSUME CInv, List PROVE CInv'
  OBVIOUS
<1>1. PICK n : n = contents[i]
  OBVIOUS
<1>2. PICK m : m = Match(n)
  OBVIOUS
<1>3. /\ m # 0
      /\ matched' = [k \in DOMAIN matched \cup {n} |-> IF k = n THEN m ELSE matched[k]]
      /\ nonStatic' = nonStatic \cup NotStatic(n)
      /\ IF Registry[m].group \in {"literal", "static"}
         THEN afterInit' = Append(afterInit, n) /\ UNCHANGED afterInvoke
         ELSE afterInvoke' = Append(afterInvoke, n) /\ UNCHANGED afterInit
  BY <1>1, <1>2 DEF List
<1>4. /\ phase = "list" /\ i <= Len(contents) /\ i' = i + 1
      /\ UNCHANGED <<given, handed, providers, contents, phase, mutated>>
  BY DEF List, input
<1>5. PICK k \in 1 .. Len(contents) + 1 : k = i /\ ListedTo(k)
  BY <1>4 DEF CInv, Listed
<1>6. Len(contents) \in Nat /\ k \in 1 .. Len(contents) /\ k + 1 \in 1 .. Len(contents') + 1
  BY <1>4, <1>5 DEF CInv, Typed
<1>7. n = contents[k] /\ n \in 1 .. Len(providers) /\ providers[n] \in Providers
  BY <1>1, <1>5, <1>6 DEF CInv, Typed
<1>8. \A l \in 1 .. k - 1 : contents[l] # n
  BY <1>6, <1>7 DEF CInv, Typed, Once
<1>9. \A l \in 1 .. k - 1 : contents[l] \in DOMAIN matched /\ MatchedAs(l)
  BY <1>5 DEF ListedTo
<1>10. \A l \in 1 .. k - 1 : matched'[contents[l]] = matched[contents[l]]
  BY <1>3, <1>8, <1>9
<1>11. \A l \in 1 .. k : RunTypes(l)' = RunTypes(l)
  <2>1. ASSUME NEW l \in 1 .. k PROVE RunTypes(l)' = RunTypes(l)
    <3>1. l \in Nat /\ \A j \in 1 .. l - 1 : matched'[contents[j]] = matched[contents[j]]
      BY <1>6, <1>10
    <3> QED
      BY <1>4, <3>1, RunTypesBefore
  <2> QED
    BY <2>1
<1>12. matched'[n] = m /\ n \in DOMAIN matched'
  BY <1>3
<1>13. PICK last \in BOOLEAN : last <=> n = contents[Len(contents)]
  OBVIOUS
<1>14. m = Decision(providers[n], last, nonStatic) /\ (last <=> k = Len(contents))
  <2>1. n = contents[Len(contents)] <=> k = Len(contents)
    BY <1>6, <1>7 DEF CInv, Typed, Once
  <2> QED
    BY <1>2, <1>13, <2>1, MatchIsDecision
<1>15. m \in 1 .. 13
  <2>1. Decided(providers[n], last, nonStatic, m)
    BY <1>7, <1>14, DecidedAt
  <2> QED
    BY <1>3, <2>1 DEF Decided
<1>16. MatchedAs(k)'
  <2>1. nonStatic = RunTypes(k)' /\ providers' = providers /\ contents' = contents
    BY <1>4, <1>5, <1>6, <1>11 DEF ListedTo
  <2>2. matched'[contents'[k]] = Decision(providers'[contents'[k]], last, RunTypes(k)')
    BY <1>7, <1>12, <1>14, <2>1
  <2>3. last <=> k = Len(contents')
    BY <1>14, <2>1
  <2> QED
    BY <2>2, <2>3 DEF MatchedAs
<1>17. ASSUME NEW l \in 1 .. k - 1 PROVE MatchedAs(l)'
  <2>1. PICK end \in BOOLEAN : /\ end <=> l = Len(contents)
                               /\ matched[contents[l]] = Decision(providers[contents[l]], end, RunTypes(l))
    BY <1>9 DEF MatchedAs
  <2>2. RunTypes(l)' = RunTypes(l) /\ matched'[contents[l]] = matched[contents[l]]
    BY <1>6, <1>10, <1>11
  <2>3. providers' = providers /\ contents' = contents
    BY <1>4
  <2>4. matched'[contents'[l]] = Decision(providers'[contents'[l]], end, RunTypes(l)')
    BY <2>1, <2>2, <2>3
  <2> QED
    BY <2>1, <2>3, <2>4 DEF MatchedAs
<1>18. nonStatic' = RunTypes(k + 1)'
  <2>1. RunTypes(k + 1)' = RunTypes(k)' \cup
          IF Got(contents[k])'.group = "run" THEN providers'[contents'[k]].out ELSE {}
    BY <1>6, RunTypesNext
  <2>2. RunTypes(k)' = nonStatic
    BY <1>5, <1>6, <1>11 DEF ListedTo
  <2>3. Got(contents[k])' = Registry[m]
    BY <1>4, <1>7, <1>12 DEF Got
  <2>4. NotStatic(n) = IF Registry[m].group = "run" THEN providers[n].out ELSE {}
    BY <1>2 DEF NotStatic
  <2> QED
    BY <1>3, <1>4, <1>7, <2>1, <2>2, <2>3, <2>4
<1>19. ListedTo(k + 1)'
  <2>1. k + 1 - 1 = k /\ \A l \in 1 .. k : l = k \/ l \in 1 .. k - 1
    BY <1>6
  <2>2. \A l \in 1 .. k : contents'[l] \in DOMAIN matched'
    <3>1. DOMAIN matched' = DOMAIN matched \cup {n}
      BY <1>3
    <3> QED
      BY <1>4, <1>7, <1>9, <2>1, <3>1
  <2>3. \A l \in 1 .. k + 1 - 1 : contents'[l] \in DOMAIN matched' /\ MatchedAs(l)'
    BY <1>16, <1>17, <2>1, <2>2
  <2> QED
    BY <1>4, <1>18, <2>3 DEF ListedTo
<1>20. Typed'
  <2>1. afterInit' \in Seq(1 .. Len(providers)) /\ afterInvoke' \in Seq(1 .. Len(providers))
    <3>1. afterInit \in Seq(1 .. Len(providers)) /\ afterInvoke \in Seq(1 .. Len(providers))
      BY DEF CInv, Typed
    <3>2. /\ Append(afterInit, n) \in Seq(1 .. Len(providers))
          /\ Append(afterInvoke, n) \in Seq(1 .. Len(providers))
      BY <1>7, <3>1
    <3> QED
      BY <1>3, <3>1, <3>2
  <2>2. \A l \in DOMAIN matched' : matched'[l] \in 1 .. 13
    BY <1>3, <1>15 DEF CInv, Typed
  <2>3. nonStatic' \subseteq Types
    BY <1>3, <1>7, NotStaticTyped DEF CInv, Typed
  <2>4. i' \in Nat \ {0}
    BY <1>4, <1>5, <1>6
  <2> QED
    BY <1>4, <2>1, <2>2, <2>3, <2>4 DEF CInv, Typed, Supplied
<1>21. k + 1 = i'
  BY <1>4, <1>5
<1> QED
  BY <1>4, <1>6, <1>19, <1>20, <1>21 DEF CInv, Listed

LEMMA CNext == CInv /\ [Next]_vars => CInv'
<1> SUFFICES ASSUME CInv, [Next]_vars PROVE CInv'
  OBVIOUS
<1>0. i \in Nat /\ i \in Nat \ {0} /\ i + 1 \in Nat \ {0}
  BY DEF CInv, Typed
<1>1. CASE Shift
  BY <1>1, ShiftKeeps
<1>2. CASE PassOver
  BY <1>0, <1>2, StillKeeps DEF PassOver, At, input
<1>3. CASE ReplaceSelf
  BY <1>3, ReplaceSelfKeeps
<1>4. CASE Refuse
  BY <1>0, <1>4, StillKeeps DEF Refuse, At, input
<1>5. CASE Settle
  BY <1>5, SettleKeeps
<1>6. CASE List
  BY <1>6, ListKeeps
<1>7. CASE Mismatch
  BY <1>0, <1>7, StillKeeps DEF Mismatch, input
<1>8. CASE Finish
  BY <1>0, <1>8, StillKeeps DEF Finish, input
<1>9. CASE UNCHANGED vars
  BY <1>0, <1>9, StillKeeps DEF vars, lists
<1> QED
  BY <1>1, <1>2, <1>3, <1>4, <1>5, <1>6, <1>7, <1>8, <1>9 DEF Next

(* characterizeAndFlatten (nject.go:188-287) comes to each provider with   *)
(* nonStaticTypes as exactly what the invoke function and the RUN set      *)
(* before it hand down, and matches it by that and by its place alone.     *)
THEOREM Invariance == Spec => []CInv
<1>1. Init => CInv
  BY CInit
<1>2. CInv /\ [Next]_vars => CInv'
  BY CNext
<1> QED
  BY <1>1, <1>2, PTL DEF Spec

(* The loops of characterizeAndFlatten keep the types of their data.       *)
THEOREM TypeCorrectness == Spec => []TypeOK
<1>1. CInv => TypeOK
  BY TypedIsOK DEF CInv
<1> QED
  BY <1>1, Invariance, PTL


-----------------------------------------------------------------------------
(* No provider is marked Reorder and for the STATIC set at once: the last  *)
(* of the prototypes of a static injector does not look at Reorder.        *)
ReorderedApart == \A s \in Collections \cup Substitutes : \A k \in DOMAIN s : ReorderApart(s[k])
TerminalsApart ==
  \A s \in Collections \cup Substitutes : \A k \in DOMAIN s : s[k].terminal => ReorderApart(s[k])

LEMMA DoneDecided ==
  ASSUME CInv, phase = "done", NEW k \in 1 .. Len(contents)
  PROVE  /\ contents[k] \in 1 .. Len(providers) /\ contents[k] \in DOMAIN matched
         /\ providers[contents[k]] \in Providers /\ Supplied(providers[contents[k]])
         /\ \E last \in BOOLEAN :
              /\ last <=> k = Len(contents)
              /\ Decision(providers[contents[k]], last, RunTypes(k)) # 0
              /\ matched[contents[k]] = Decision(providers[contents[k]], last, RunTypes(k))
<1>1. contents[k] \in 1 .. Len(providers)
  BY DEF CInv, Typed
<1>2. providers[contents[k]] \in Providers /\ Supplied(providers[contents[k]])
  BY <1>1 DEF CInv, Typed
<1>3. PICK j \in 1 .. Len(contents) + 1 : j = i /\ ListedTo(j)
  BY DEF CInv, Listed
<1>4. k \in 1 .. j - 1
  BY <1>3 DEF ListedTo, CInv, Typed
<1>5. contents[k] \in DOMAIN matched /\ MatchedAs(k)
  BY <1>3, <1>4 DEF ListedTo
<1>6. matched[contents[k]] \in 1 .. 13
  BY <1>5 DEF CInv, Typed
<1> QED
  BY <1>1, <1>2, <1>5, <1>6 DEF MatchedAs

(* characterizeFunc gives each provider what its annotations demand, by the *)
(* order of the prototypes in handlerRegistry (characterize.go:251-542):   *)
(* MustCache and Singleton keep it out of the RUN set, NotCacheable out of *)
(* the STATIC set, Memoize makes it remember, a TerminalError lets it end  *)
(* the chain.                                                              *)
THEOREM AnnotationsGranted ==
  ASSUME TerminalsApart
  PROVE  Spec => []AsAnnotated
<1>1. CInv => AsAnnotated
  <2> SUFFICES ASSUME CInv, phase = "done", NEW n \in ToSet(contents) PROVE Granted(providers[n], matched[n])
    BY DEF AsAnnotated, Granted, Got
  <2>1. PICK k \in 1 .. Len(contents) : n = contents[k]
    BY DEF ToSet, CInv, Typed
  <2>2. /\ providers[n] \in Providers /\ Supplied(providers[n])
        /\ \E last \in BOOLEAN :
             /\ Decision(providers[n], last, RunTypes(k)) # 0
             /\ matched[n] = Decision(providers[n], last, RunTypes(k))
    BY <2>1, DoneDecided
  <2>3. providers[n].terminal => ReorderApart(providers[n])
    BY <2>2 DEF Supplied, TerminalsApart
  <2> QED
    BY <2>2, <2>3, DecisionGranted
<1> QED
  BY <1>1, Invariance, PTL

(* ReplaceSelf returns at least one provider, and the loop does not look   *)
(* at the first one again: it must be a regular one.                       *)
RegularSubstitutes == \A s \in Substitutes : s # <<>> /\ s[1].kind \notin {"generated", "foreign"}
RegularAt(k) == providers[contents[k]].kind \notin {"generated", "foreign"}
Regular ==
  /\ phase = "shift" => i = 1
  /\ phase = "mutate" => i <= Len(contents) + 1 /\ \A k \in 1 .. i - 1 : RegularAt(k)
  /\ phase \in {"list", "done"} => \A k \in 1 .. Len(contents) : RegularAt(k)

LEMMA ReplaceSelfRegular ==
  ASSUME RegularSubstitutes, CInv, Regular, ReplaceSelf
  PROVE  Regular'
<1>1. PICK s \in Substitutes :
        /\ providers' = providers \o s
        /\ contents' = SubSeq(contents, 1, i - 1)
                         \o [k \in DOMAIN s |-> Len(providers) + k]
                         \o SubSeq(contents, i + 1, Len(contents))
  BY DEF ReplaceSelf
<1>2. phase = "mutate" /\ i <= Len(contents) /\ i' = i + 1 /\ phase' = phase
  BY DEF ReplaceSelf, At
<1>3. PICK N \in Nat : N = Len(providers)
  BY DEF CInv, Typed
<1>4. s \in Seq(Providers) /\ s # <<>> /\ s[1].kind \notin {"generated", "foreign"}
  BY CharacterizeAssumption DEF RegularSubstitutes
<1>5. PICK q \in Nat \ {0} : q = Len(s) /\ DOMAIN s = 1 .. q
  BY <1>4
<1>6. /\ Len(providers') = N + q
      /\ \A k \in 1 .. N : providers'[k] = providers[k]
      /\ \A k \in N + 1 .. N + q : providers'[k] = s[k - N]
  BY <1>1, <1>3, <1>4, <1>5, JoinedParts DEF CInv, Typed
<1>7. contents \in Seq(1 .. N) /\ i \in 1 .. Len(contents)
  BY <1>2, <1>3 DEF CInv, Typed
<1>8. Replacing(N, contents, i, q, contents')
  BY <1>1, <1>3, <1>5, <1>7, Substituted
<1>9. i' <= Len(contents') + 1
  BY <1>2, <1>5, <1>7, <1>8 DEF Replacing
<1>10. ASSUME NEW k \in 1 .. i PROVE RegularAt(k)'
  <2>1. k \in 1 .. Len(contents) - 1 + q /\ k \in 1 .. Len(contents)
    BY <1>5, <1>7
  <2>2. contents'[k] = ReplacedAt(N, contents, i, q, k)
    BY <1>8, <2>1 DEF Replacing
  <2>3. CASE k = i
    <3>1. contents'[k] = N + 1
      BY <1>5, <1>7, <2>2, <2>3 DEF ReplacedAt
    <3>2. N + 1 \in N + 1 .. N + q /\ N + 1 - N = 1
      BY <1>5
    <3>3. providers'[N + 1] = s[1]
      BY <1>6, <3>2
    <3> QED
      BY <1>4, <3>1, <3>3 DEF RegularAt
  <2>4. CASE k \in 1 .. i - 1
    <3>1. contents'[k] = contents[k] /\ contents[k] \in 1 .. N
      BY <1>7, <2>1, <2>2, <2>4 DEF ReplacedAt
    <3> QED
      BY <1>2, <1>6, <2>4, <3>1 DEF Regular, RegularAt
  <2> QED
    BY <1>7, <2>3, <2>4
<1>11. \A k \in 1 .. i' - 1 : RegularAt(k)'
  BY <1>2, <1>7, <1>10
<1> QED
  BY <1>2, <1>9, <1>11 DEF Regular


LEMMA RegularNext ==
  ASSUME RegularSubstitutes
  PROVE  CInv /\ Regular /\ [Next]_vars => Regular'
<1> SUFFICES ASSUME CInv, Regular, [Next]_vars PROVE Regular'
  OBVIOUS
<1>0. Len(contents) \in Nat /\ i \in Nat /\ i # 0
  BY DEF CInv, Typed
<1>1. CASE Shift
  <2>1. contents' = ShiftFinal(contents) /\ phase' = "mutate" /\ i' = 1
    BY <1>1 DEF Shift, Regular
  <2>2. Len(contents') \in Nat
    BY <2>1, ShiftFinalKeeps DEF CInv, Typed
  <2>3. \A k \in 1 .. i' - 1 : FALSE
    BY <2>1
  <2> QED
    BY <2>1, <2>2, <2>3 DEF Regular
<1>2. CASE PassOver
  <2>1. /\ phase = "mutate" /\ i <= Len(contents) /\ i' = i + 1
        /\ UNCHANGED <<providers, contents, phase>> /\ RegularAt(i)
    BY <1>2 DEF PassOver, At, RegularAt
  <2>2. \A k \in 1 .. i : RegularAt(k)
    <3>1. \A k \in 1 .. i : k = i \/ k \in 1 .. i - 1
      BY <1>0
    <3> QED
      BY <2>1, <3>1 DEF Regular
  <2>3. \A k \in 1 .. i' - 1 : RegularAt(k)'
    BY <1>0, <2>1, <2>2 DEF RegularAt
  <2> QED
    BY <1>0, <2>1, <2>3 DEF Regular
<1>3. CASE ReplaceSelf
  BY <1>3, ReplaceSelfRegular
<1>4. CASE Refuse
  BY <1>4 DEF Refuse, Regular
<1>5. CASE Settle
  <2>1. /\ contents' = IF mutated THEN ShiftFinal(contents) ELSE contents
        /\ phase = "mutate" /\ phase' = "list" /\ i > Len(contents) /\ providers' = providers
    BY <1>5 DEF Settle
  <2>2. Len(contents') = Len(contents)
        /\ \A k \in 1 .. Len(contents) : \E l \in 1 .. Len(contents) : contents'[k] = contents[l]
    BY <2>1, ShiftFinalKeeps DEF CInv, Typed
  <2>3. \A k \in 1 .. Len(contents) : RegularAt(k)
    <3>1. \A k \in 1 .. Len(contents) : k \in 1 .. i - 1
      BY <1>0, <2>1
    <3> QED
      BY <2>1, <3>1 DEF Regular
  <2> QED
    BY <2>1, <2>2, <2>3 DEF Regular, RegularAt
<1>6. CASE List
  BY <1>6 DEF List, Regular, RegularAt
<1>7. CASE Mismatch
  BY <1>7 DEF Mismatch, Regular
<1>8. CASE Finish
  BY <1>8 DEF Finish, Regular, RegularAt
<1>9. CASE UNCHANGED vars
  BY <1>9 DEF vars, Regular, RegularAt
<1> QED
  BY <1>1, <1>2, <1>3, <1>4, <1>5, <1>6, <1>7, <1>8, <1>9 DEF Next

(* "An injector may not be promoted to the STATIC set if it takes as input *)
(* data that comes from a provider that is not in the STATIC or LITERAL    *)
(* sets" (doc.go:122-127), and nothing else keeps an injector out of it    *)
(* that asks for it: the loop of characterizeAndFlatten (nject.go:188-287) *)
(* decides both, for every collection and every set of prototypes' flags   *)
(* that keeps Reorder apart.                                               *)
THEOREM StaticExactly ==
  ASSUME ReorderedApart, RegularSubstitutes
  PROVE  Spec => []StaticIffIndependent
<1>1. Init => Regular
  BY DEF Init, Regular
<1>2. CInv /\ Regular /\ [Next]_vars => Regular'
  BY RegularNext
<1>3. CInv /\ Regular => StaticIffIndependent
  <2> SUFFICES ASSUME CInv, Regular, phase = "done", NEW k \in 1 .. Len(contents) - 1
               PROVE  LET p == providers[contents[k]] IN
                      Got(contents[k]).group = "static" <=> Promotable(p) /\ p.in \cap RunTypes(k) = {}
    BY DEF StaticIffIndependent
  <2>0. Len(contents) \in Nat
    BY DEF CInv, Typed
  <2>1. k \in 1 .. Len(contents) /\ k # Len(contents)
    BY <2>0
  <2>2. PICK p : p = providers[contents[k]]
    OBVIOUS
  <2>3. /\ p \in Providers /\ Supplied(p)
        /\ \E last \in BOOLEAN :
             /\ ~last /\ Decision(p, last, RunTypes(k)) # 0
             /\ matched[contents[k]] = Decision(p, last, RunTypes(k))
    BY <2>1, <2>2, DoneDecided
  <2>4. ReorderApart(p)
    BY <2>3 DEF Supplied, ReorderedApart
  <2>5. p.kind # "foreign"
    BY <2>1, <2>2 DEF Regular, RegularAt
  <2> QED
    BY <2>2, <2>3, <2>4, <2>5, StaticDecision DEF Got
<1> QED
  BY <1>1, <1>2, <1>3, Invariance, PTL DEF Spec


-----------------------------------------------------------------------------
(* Where reorderNonFinal leaves the providers, and in which order.         *)
FinalPlace(c) == NonFinal(c[Len(c)]) => \A k \in 1 .. Len(c) : NonFinal(c[k])
LastAfter(c) ==
  ~NonFinal(c[Len(c)]) =>
    \A k \in 1 .. Len(c) : c[Len(c)] < c[k] /\ c[k] <= given => NonFinal(c[k])
Sorted(c) ==
  \A k, l \in 1 .. Len(c) :
    k < l /\ c[k] <= given /\ c[l] <= given => c[k] < c[l] \/ (l = Len(c) /\ ~NonFinal(c[l]))

LEMMA ShiftFinalPlaces ==
  ASSUME NEW N \in Nat, NEW c \in Seq(1 .. N), Len(c) >= 1, given \in Nat, Sorted(c), LastAfter(c)
  PROVE  /\ Sorted(ShiftFinal(c)) /\ LastAfter(ShiftFinal(c)) /\ FinalPlace(ShiftFinal(c))
         /\ Len(ShiftFinal(c)) >= 1
<1>1. CASE ShiftFinal(c) = c /\ \A k \in 1 .. Len(c) : NonFinal(c[k])
  BY <1>1 DEF FinalPlace
<1>2. ASSUME NEW m \in 1 .. Len(c), MovedFrom(c, ShiftFinal(c), m)
      PROVE  /\ Sorted(ShiftFinal(c)) /\ LastAfter(ShiftFinal(c)) /\ FinalPlace(ShiftFinal(c))
             /\ Len(ShiftFinal(c)) >= 1
  <2>1. PICK n \in Nat \ {0} : n = Len(c)
    OBVIOUS
  <2>2. PICK d : d = ShiftFinal(c)
    OBVIOUS
  <2>3. Len(d) = n
    BY <2>1, <2>2, ShiftFinalKeeps
  <2>4. /\ \A k \in 1 .. n : d[k] = c[From(m, n, k)]
        /\ ~NonFinal(c[m]) /\ \A k \in m + 1 .. n : NonFinal(c[k])
    BY <1>2, <2>1, <2>2 DEF MovedFrom
  <2>5. \A k \in 1 .. n : From(m, n, k) \in 1 .. n /\ c[k] \in 1 .. N
    BY <2>1 DEF From
  <2>6. d[n] = c[m]
    BY <2>1, <2>4 DEF From
  <2>7. FinalPlace(d)
    BY <2>3, <2>4, <2>6 DEF FinalPlace
  <2>8. ASSUME NEW k \in 1 .. n, c[m] < c[k], c[k] <= given PROVE NonFinal(c[k])
    <3>1. CASE k > m
      <4>1. k \in m + 1 .. n
        BY <2>1, <3>1
      <4> QED
        BY <2>4, <4>1
    <3>2. CASE k < m
      <4>1. c[m] \in 1 .. N /\ c[k] \in 1 .. N /\ c[m] <= given
        BY <2>1, <2>5, <2>8
      <4>2. c[k] < c[m] \/ m = Len(c)
        BY <2>1, <2>8, <3>2, <4>1 DEF Sorted
      <4>3. m = Len(c)
        BY <2>8, <4>1, <4>2
      <4> QED
        BY <2>1, <2>4, <2>8, <4>3 DEF LastAfter
    <3>3. k # m
      BY <2>5, <2>8
    <3> QED
      BY <2>1, <3>1, <3>2, <3>3
  <2>9. LastAfter(d)
    BY <2>3, <2>4, <2>5, <2>6, <2>8 DEF LastAfter
  <2>10. ASSUME NEW k \in 1 .. n, NEW l \in 1 .. n, k < l, d[k] <= given, d[l] <= given
         PROVE  d[k] < d[l] \/ (l = n /\ ~NonFinal(d[l]))
    <3>1. CASE l = n
      BY <2>4, <2>6, <3>1
    <3>2. CASE l # n
      <4>1. PICK a \in 1 .. n : a = From(m, n, k) /\ d[k] = c[a]
        BY <2>4, <2>5
      <4>2. PICK b \in 1 .. n : b = From(m, n, l) /\ d[l] = c[b]
        BY <2>4, <2>5
      <4>3. a < b
        BY <2>1, <2>10, <3>2, <4>1, <4>2 DEF From
      <4>4. c[a] < c[b] \/ (b = n /\ ~NonFinal(c[b]))
        BY <2>1, <2>10, <4>1, <4>2, <4>3 DEF Sorted
      <4>5. b = n => b \in m + 1 .. n
        BY <2>1, <3>2, <4>2 DEF From
      <4> QED
        BY <2>4, <4>1, <4>2, <4>4, <4>5
    <3> QED
      BY <3>1, <3>2
  <2>11. Sorted(d)
    BY <2>3, <2>10 DEF Sorted
  <2> QED
    BY <2>2, <2>3, <2>7, <2>9, <2>11
<1> QED
  BY <1>1, <1>2, ShiftFinalMoves


Placed ==
  /\ Len(contents) >= 1 /\ Sorted(contents) /\ LastAfter(contents)
  /\ phase \in {"list", "done"} \/ (phase = "mutate" /\ ~mutated) => FinalPlace(contents)

LEMMA PlacedInit ==
  ASSUME <<>> \notin Collections
  PROVE  Init => Placed
<1> SUFFICES ASSUME Init PROVE Placed
  OBVIOUS
<1>1. providers \in Seq(Providers) /\ providers # <<>>
  BY CharacterizeAssumption DEF Init
<1>2. PICK n \in Nat : n = Len(providers) /\ n >= 1 /\ DOMAIN providers = 1 .. n
  BY <1>1
<1>3. contents = [k \in 1 .. n |-> k]
  BY <1>2 DEF Init
<1>4. Len(contents) = n
  <2>1. contents \in [1 .. n -> 1 .. n]
    BY <1>3
  <2> QED
    BY <2>1
<1>5. Sorted(contents)
  <2>1. \A k, l \in 1 .. n : k < l => contents[k] < contents[l]
    BY <1>3
  <2>2. contents \in Seq(Nat)
    <3>1. contents \in [1 .. n -> Nat]
      BY <1>3
    <3> QED
      BY <3>1
  <2> QED
    BY <1>4, <2>1, <2>2 DEF Sorted
<1>6. LastAfter(contents)
  BY <1>2, <1>3, <1>4 DEF LastAfter
<1>7. phase = "shift"
  BY DEF Init
<1> QED
  BY <1>2, <1>4, <1>5, <1>6, <1>7 DEF Placed

LEMMA PlacedSame ==
  ASSUME Placed, UNCHANGED <<given, providers, contents, mutated>>,
         phase' = phase \/ phase' = "error" \/ phase = "list"
  PROVE  Placed'
<1>1. \A n : NonFinal(n)' = NonFinal(n)
  BY DEF NonFinal
<1>2. FinalPlace(contents)' = FinalPlace(contents)
  BY DEF FinalPlace, NonFinal
<1>3. LastAfter(contents)' = LastAfter(contents)
  BY DEF LastAfter, NonFinal
<1>4. Sorted(contents)' = Sorted(contents)
  BY DEF Sorted, NonFinal
<1> QED
  BY <1>2, <1>3, <1>4 DEF Placed

LEMMA PlacedShift ==
  ASSUME CInv, Placed, contents' = ShiftFinal(contents), UNCHANGED <<given, providers>>
  PROVE  Placed'
<1>1. /\ contents \in Seq(1 .. Len(providers)) /\ Len(providers) \in Nat /\ given \in Nat
      /\ Len(contents) >= 1 /\ Sorted(contents) /\ LastAfter(contents)
  BY DEF CInv, Typed, Placed
<1>2. PICK d : d = ShiftFinal(contents)
  OBVIOUS
<1>3. Sorted(d) /\ LastAfter(d) /\ FinalPlace(d) /\ Len(d) >= 1 /\ contents' = d
  BY <1>1, <1>2, ShiftFinalPlaces
<1>4. \A n : NonFinal(n)' = NonFinal(n)
  BY DEF NonFinal
<1>5. FinalPlace(contents)'
  BY <1>3, <1>4 DEF FinalPlace
<1>6. LastAfter(contents)'
  BY <1>3, <1>4 DEF LastAfter
<1>7. Sorted(contents)'
  BY <1>3, <1>4 DEF Sorted
<1> QED
  BY <1>3, <1>5, <1>6, <1>7 DEF Placed


(* Substitutes have numbers above those of the collection, and the others  *)
(* stay in order.                                                          *)
LEMMA PlacedReplace ==
  ASSUME RegularSubstitutes, CInv, Placed, ReplaceSelf
  PROVE  Placed'
<1>1. PICK s \in Substitutes :
        /\ providers' = providers \o s
        /\ contents' = SubSeq(contents, 1, i - 1)
                         \o [k \in DOMAIN s |-> Len(providers) + k]
                         \o SubSeq(contents, i + 1, Len(contents))
  BY DEF ReplaceSelf
<1>2. phase = "mutate" /\ i <= Len(contents) /\ mutated' = TRUE /\ phase' = phase /\ given' = given
  BY DEF ReplaceSelf, At, input
<1>3. PICK N \in Nat : N = Len(providers) /\ given <= N /\ given \in Nat
  BY DEF CInv, Typed
<1>4. s \in Seq(Providers) /\ s # <<>>
  BY CharacterizeAssumption DEF RegularSubstitutes
<1>5. PICK q \in Nat \ {0} : q = Len(s) /\ DOMAIN s = 1 .. q
  BY <1>4
<1>6. \A k \in 1 .. N : providers'[k] = providers[k]
  BY <1>1, <1>3, <1>4, <1>5, JoinedParts DEF CInv, Typed
<1>7. contents \in Seq(1 .. N) /\ i \in 1 .. Len(contents)
  BY <1>2, <1>3 DEF CInv, Typed
<1>8. PICK c \in Seq(1 .. N) : c = contents
  BY <1>7
<1>9. PICK d : d = contents'
  OBVIOUS
<1>10. PICK at \in 1 .. Len(c) : at = i
  BY <1>7, <1>8
<1>11. Replacing(N, c, at, q, d)
  BY <1>1, <1>3, <1>5, <1>8, <1>9, <1>10, Substituted
<1>12. PICK n \in Nat : n = Len(c) /\ at \in 1 .. n /\ Len(d) = n - 1 + q /\ Len(d) \in Nat /\ Len(d) >= 1
  BY <1>11 DEF Replacing
<1>13. \A k \in 1 .. N : NonFinal(k)' = NonFinal(k)
  BY <1>6 DEF NonFinal
<1>14. \A k \in 1 .. Len(d) :
         \/ k < at + q /\ ~(k < at) /\ d[k] = N + (k - at + 1)
         \/ (k < at \/ ~(k < at + q)) /\ d[k] <= N
            /\ \E l \in 1 .. Len(c) : d[k] = c[l] /\ l # at /\ l = IF k < at THEN k ELSE k - q + 1
  BY <1>11, SubstitutedFrom
<1>15. ASSUME NEW k \in 1 .. Len(d), d[k] <= given
       PROVE  \E l \in 1 .. n : /\ d[k] = c[l] /\ l # at /\ l = IF k < at THEN k ELSE k - q + 1
                                /\ (k < at \/ ~(k < at + q))
  <2>1. ~(k < at + q /\ ~(k < at) /\ d[k] = N + (k - at + 1))
    BY <1>3, <1>12, <1>15
  <2> QED
    BY <1>12, <1>14, <2>1
<1>16. \A l \in 1 .. n : c[l] \in 1 .. N
  BY <1>12
<1>17. Sorted(c) /\ LastAfter(c)
  BY <1>8 DEF Placed
<1>18. ASSUME NEW k \in 1 .. Len(d), NEW l \in 1 .. Len(d), k < l, d[k] <= given, d[l] <= given
       PROVE  d[k] < d[l] \/ (l = Len(d) /\ ~NonFinal(d[l])')
  <2>1. PICK a \in 1 .. n : d[k] = c[a] /\ a = (IF k < at THEN k ELSE k - q + 1) /\ (k < at \/ ~(k < at + q))
    BY <1>15, <1>18
  <2>2. PICK b \in 1 .. n : d[l] = c[b] /\ b = (IF l < at THEN l ELSE l - q + 1) /\ (l < at \/ ~(l < at + q))
                            /\ b # at
    BY <1>15, <1>18
  <2>3. a < b
    BY <1>12, <1>18, <2>1, <2>2
  <2>4. c[a] < c[b] \/ (b = n /\ ~NonFinal(c[b]))
    BY <1>12, <1>17, <1>18, <2>1, <2>2, <2>3 DEF Sorted
  <2>5. b = n => l = Len(d)
    BY <1>12, <2>2
  <2> QED
    BY <1>13, <1>16, <2>1, <2>2, <2>4, <2>5
<1>19. ASSUME ~NonFinal(d[Len(d)])', NEW k \in 1 .. Len(d), d[Len(d)] < d[k], d[k] <= given
       PROVE  NonFinal(d[k])'
  <2>1. Len(d) \in 1 .. Len(d)
    BY <1>12
  <2>2. PICK a \in 1 .. n : d[k] = c[a]
    BY <1>15, <1>19
  <2>3. \A l \in 1 .. Len(d) : d[l] \in Nat
    <3>1. \A l \in 1 .. Len(d) : d[l] \in 1 .. N + q
      BY <1>11 DEF Replacing
    <3> QED
      BY <3>1
  <2>4. d[Len(d)] <= given
    BY <1>3, <1>19, <2>1, <2>3
  <2>5. PICK b \in 1 .. n : /\ d[Len(d)] = c[b] /\ b = (IF Len(d) < at THEN Len(d) ELSE Len(d) - q + 1)
                            /\ b # at
    BY <1>15, <2>1, <2>4
  <2>6. b = n
    BY <1>12, <2>5
  <2>7. ~NonFinal(c[n])
    BY <1>13, <1>16, <1>19, <2>5, <2>6
  <2>8. NonFinal(c[a])
    BY <1>12, <1>17, <1>19, <2>2, <2>5, <2>6, <2>7 DEF LastAfter
  <2> QED
    BY <1>13, <1>16, <2>2, <2>8
<1>20. Sorted(contents)'
  BY <1>2, <1>9, <1>18 DEF Sorted
<1>21. LastAfter(contents)'
  BY <1>2, <1>9, <1>19 DEF LastAfter
<1> QED
  BY <1>2, <1>9, <1>12, <1>20, <1>21 DEF Placed


LEMMA PlacedNext ==
  ASSUME RegularSubstitutes
  PROVE  CInv /\ Placed /\ [Next]_vars => Placed'
<1> SUFFICES ASSUME CInv, Placed, [Next]_vars PROVE Placed'
  OBVIOUS
<1>1. CASE Shift
  BY <1>1, PlacedShift DEF Shift, input
<1>2. CASE PassOver
  BY <1>2, PlacedSame DEF PassOver, input
<1>3. CASE ReplaceSelf
  BY <1>3, PlacedReplace
<1>4. CASE Refuse
  BY <1>4, PlacedSame DEF Refuse, input
<1>5. CASE Settle
  <2>1. CASE mutated
    BY <1>5, <2>1, PlacedShift DEF Settle, input
  <2>2. CASE ~mutated
    <3>1. contents' = contents /\ UNCHANGED <<given, providers, mutated>> /\ phase = "mutate"
      BY <1>5, <2>2 DEF Settle, input
    <3>2. FinalPlace(contents)'
      <4>1. FinalPlace(contents)
        BY <2>2, <3>1 DEF Placed
      <4> QED
        BY <3>1, <4>1 DEF FinalPlace, NonFinal
    <3>3. LastAfter(contents)'
      BY <3>1 DEF Placed, LastAfter, NonFinal
    <3>4. Sorted(contents)'
      BY <3>1 DEF Placed, Sorted, NonFinal
    <3> QED
      BY <3>1, <3>2, <3>3, <3>4 DEF Placed
  <2> QED
    BY <2>1, <2>2
<1>6. CASE List
  BY <1>6, PlacedSame DEF List, input
<1>7. CASE Mismatch
  BY <1>7, PlacedSame DEF Mismatch, input
<1>8. CASE Finish
  BY <1>8, PlacedSame DEF Finish, input
<1>9. CASE UNCHANGED vars
  BY <1>9, PlacedSame DEF vars
<1> QED
  BY <1>1, <1>2, <1>3, <1>4, <1>5, <1>6, <1>7, <1>8, <1>9 DEF Next

(* Each of the two lists follows the chain, up to the place that the loop  *)
(* has come to, and the last of the chain is the last to be invoked.       *)
Follows(s, j) ==
  /\ \A x \in 1 .. Len(s) : \E k \in 1 .. j - 1 : s[x] = contents[k]
  /\ \A x, y \in 1 .. Len(s) : x < y =>
       \E k, l \in 1 .. j - 1 : k < l /\ s[x] = contents[k] /\ s[y] = contents[l]
Ends(s) == s # <<>> /\ s[Len(s)] = contents[Len(contents)]
FollowedTo(j) ==
  /\ Follows(afterInit, j) /\ Follows(afterInvoke, j)
  /\ j = Len(contents) + 1 => Ends(afterInvoke)
Followed ==
  phase \in {"list", "done"} => \E j \in 1 .. Len(contents) + 1 : j = i /\ FollowedTo(j)

LEMMA FollowsAppended ==
  ASSUME NEW D, NEW s \in Seq(D), NEW k \in Nat \ {0}, Follows(s, k), contents[k] \in D
  PROVE  Follows(Append(s, contents[k]), k + 1) /\ Follows(s, k + 1)
<1>1. PICK n \in Nat : n = Len(s)
  OBVIOUS
<1>2. PICK d : d = Append(s, contents[k])
  OBVIOUS
<1>3. Len(d) = n + 1 /\ d[n + 1] = contents[k] /\ \A x \in 1 .. n : d[x] = s[x]
  BY <1>1, <1>2
<1>0. PICK j : j = k + 1
  OBVIOUS
<1>4. k \in 1 .. j - 1 /\ \A l \in 1 .. k - 1 : l \in 1 .. j - 1 /\ l < k
  BY <1>0
<1>5. /\ \A x \in 1 .. n : \E l \in 1 .. k - 1 : s[x] = contents[l]
      /\ \A x, y \in 1 .. n : x < y =>
           \E l, m \in 1 .. k - 1 : l < m /\ s[x] = contents[l] /\ s[y] = contents[m]
  BY <1>1 DEF Follows
<1>6. Follows(s, j)
  BY <1>1, <1>4, <1>5 DEF Follows
<1>7. ASSUME NEW x \in 1 .. n + 1 PROVE \E l \in 1 .. j - 1 : d[x] = contents[l]
  BY <1>1, <1>3, <1>4, <1>5
<1>8. ASSUME NEW x \in 1 .. n + 1, NEW y \in 1 .. n + 1, x < y
      PROVE  \E l, m \in 1 .. j - 1 : l < m /\ d[x] = contents[l] /\ d[y] = contents[m]
  <2>1. x \in 1 .. n
    BY <1>1, <1>8
  <2>2. CASE y = n + 1
    <3>1. PICK l \in 1 .. k - 1 : s[x] = contents[l]
      BY <1>5, <2>1
    <3> QED
      BY <1>3, <1>4, <2>1, <2>2, <3>1
  <2>3. CASE y # n + 1
    <3>1. y \in 1 .. n
      BY <1>1, <2>3
    <3>2. PICK l \in 1 .. k - 1, m \in 1 .. k - 1 : l < m /\ s[x] = contents[l] /\ s[y] = contents[m]
      BY <1>5, <1>8, <2>1, <3>1
    <3> QED
      BY <1>3, <1>4, <2>1, <3>1, <3>2
  <2> QED
    BY <2>2, <2>3
<1>9. Follows(d, j)
  <2>1. /\ \A x \in 1 .. n + 1 : \E l \in 1 .. j - 1 : d[x] = contents[l]
        /\ \A x, y \in 1 .. n + 1 : x < y =>
             \E l, m \in 1 .. j - 1 : l < m /\ d[x] = contents[l] /\ d[y] = contents[m]
    BY <1>7, <1>8
  <2>2. 1 .. Len(d) = 1 .. n + 1
    BY <1>3
  <2>3. \A x \in 1 .. Len(d) : \E l \in 1 .. j - 1 : d[x] = contents[l]
    BY <2>1, <2>2
  <2>4. \A x, y \in 1 .. Len(d) : x < y =>
          \E l, m \in 1 .. j - 1 : l < m /\ d[x] = contents[l] /\ d[y] = contents[m]
    BY <2>1, <2>2
  <2> QED
    BY <2>3, <2>4, Zenon DEF Follows
<1> QED
  BY <1>0, <1>2, <1>6, <1>9


LEMMA FollowedList ==
  ASSUME CInv, Placed, Followed, List
  PROVE  Followed'
<1>1. /\ phase = "list" /\ i <= Len(contents) /\ i' = i + 1
      /\ contents' = contents /\ phase' = phase
  BY DEF List
<1>2. PICK k \in 1 .. Len(contents) + 1 : k = i /\ FollowedTo(k)
  BY <1>1 DEF Followed
<1>3. PICK n : n = contents[k]
  OBVIOUS
<1>4. PICK m : m = Match(n)
  OBVIOUS
<1>5. /\ m # 0
      /\ \/ Registry[m].group \in {"literal", "static"}
            /\ afterInit' = Append(afterInit, n) /\ afterInvoke' = afterInvoke
         \/ afterInvoke' = Append(afterInvoke, n) /\ afterInit' = afterInit
  BY <1>2, <1>3, <1>4 DEF List
<1>6. Len(contents) \in Nat /\ k \in 1 .. Len(contents) /\ k + 1 \in 1 .. Len(contents') + 1 /\ k \in Nat \ {0}
  BY <1>1, <1>2 DEF CInv, Typed
<1>7. n \in 1 .. Len(providers) /\ providers[n] \in Providers
  BY <1>3, <1>6 DEF CInv, Typed
<1>8. afterInit \in Seq(1 .. Len(providers)) /\ afterInvoke \in Seq(1 .. Len(providers))
  BY DEF CInv, Typed
<1>9. Follows(afterInit, k) /\ Follows(afterInvoke, k)
  BY <1>2 DEF FollowedTo
<1>10. /\ Follows(Append(afterInit, n), k + 1) /\ Follows(afterInit, k + 1)
       /\ Follows(Append(afterInvoke, n), k + 1) /\ Follows(afterInvoke, k + 1)
  BY <1>3, <1>6, <1>7, <1>8, <1>9, FollowsAppended
<1>11. Follows(afterInit', k + 1) /\ Follows(afterInvoke', k + 1)
  BY <1>5, <1>10
<1>12. Follows(afterInit, k + 1)' /\ Follows(afterInvoke, k + 1)'
  BY <1>1, <1>11 DEF Follows
<1>13. ASSUME k = Len(contents) PROVE Ends(afterInvoke)'
  <2>1. PICK last \in BOOLEAN : last
    OBVIOUS
  <2>2. m = Decision(providers[n], last, nonStatic)
    BY <1>3, <1>4, <1>13, <2>1, MatchIsDecision
  <2>3. Registry[m].group = "final"
    BY <1>5, <1>7, <2>1, <2>2, DecisionLast
  <2>4. afterInvoke' = Append(afterInvoke, n)
    BY <1>5, <2>3
  <2>5. afterInvoke' # <<>> /\ afterInvoke'[Len(afterInvoke')] = n
    <3>1. PICK d : d = Append(afterInvoke, n)
      OBVIOUS
    <3>2. Len(d) = Len(afterInvoke) + 1 /\ d[Len(afterInvoke) + 1] = n
      BY <1>7, <1>8, <3>1
    <3>3. d # <<>> /\ d[Len(d)] = n
      BY <1>8, <3>2
    <3> QED
      BY <2>4, <3>1, <3>3
  <2> QED
    BY <1>1, <1>3, <1>13, <2>5 DEF Ends
<1>14. FollowedTo(k + 1)'
  BY <1>1, <1>6, <1>12, <1>13 DEF FollowedTo
<1>15. k + 1 = i'
  BY <1>1, <1>2
<1> QED
  BY <1>6, <1>14, <1>15 DEF Followed

LEMMA FollowedNext == CInv /\ Placed /\ Followed /\ [Next]_vars => Followed'
<1> SUFFICES ASSUME CInv, Placed, Followed, [Next]_vars PROVE Followed'
  OBVIOUS
<1>1. CASE List
  BY <1>1, FollowedList
<1>2. CASE Settle
  <2>1. i' = 1 /\ phase = "mutate" /\ UNCHANGED <<afterInit, afterInvoke>>
        /\ contents' = IF mutated THEN ShiftFinal(contents) ELSE contents
    BY <1>2 DEF Settle, lists
  <2>2. Len(contents) \in Nat /\ Len(contents) >= 1
    BY DEF CInv, Typed, Placed
  <2>3. Len(contents') = Len(contents)
    BY <2>1, ShiftFinalKeeps DEF CInv, Typed
  <2>4. afterInit' = <<>> /\ afterInvoke' = <<>>
    BY <2>1 DEF CInv, Listed
  <2>5. Follows(afterInit, 1)' /\ Follows(afterInvoke, 1)'
    BY <2>4 DEF Follows
  <2>6. FollowedTo(1)'
    BY <2>2, <2>3, <2>5 DEF FollowedTo
  <2>7. 1 \in 1 .. Len(contents') + 1
    BY <2>2, <2>3
  <2> QED
    BY <2>1, <2>6, <2>7 DEF Followed
<1>3. CASE Finish \/ UNCHANGED vars
  <2>1. UNCHANGED <<contents, i, afterInit, afterInvoke>> /\ (phase' = phase \/ phase = "list")
    BY <1>3 DEF Finish, vars, lists
  <2>2. \A j : FollowedTo(j)' = FollowedTo(j)
    BY <2>1 DEF FollowedTo, Follows, Ends
  <2> QED
    BY <2>1, <2>2 DEF Followed
<1>4. CASE Shift \/ PassOver \/ ReplaceSelf \/ Refuse \/ Mismatch
  <2>1. phase' \notin {"list", "done"}
    BY <1>4 DEF Shift, PassOver, ReplaceSelf, Refuse, Mismatch, At
  <2> QED
    BY <2>1 DEF Followed
<1> QED
  BY <1>1, <1>2, <1>3, <1>4 DEF Next


(* "If NonFinal providers are invoked, they will be called before the      *)
(* final provider" (api.go:367-368), "Providers within a set are executed  *)
(* in the order that they were originally specified" (doc.go:87-88), and   *)
(* no provider that was to replace itself is left: reorderNonFinal's two   *)
(* calls (nject.go:197, 240, 381-397) and the loop around them see to it   *)
(* for every collection that has a provider.                               *)
THEOREM FinalComesLast ==
  ASSUME RegularSubstitutes, <<>> \notin Collections
  PROVE  Spec => []FinalLast
<1>1. Init => Regular /\ Placed /\ Followed
  <2>1. Init => Regular
    BY DEF Init, Regular
  <2>2. Init => Followed
    BY DEF Init, Followed
  <2> QED
    BY <2>1, <2>2, PlacedInit
<1>2. CInv /\ (Regular /\ Placed /\ Followed) /\ [Next]_vars => (Regular /\ Placed /\ Followed)'
  BY RegularNext, PlacedNext, FollowedNext
<1>3. CInv /\ (Regular /\ Placed /\ Followed) => FinalLast
  <2> SUFFICES ASSUME CInv, Regular, Placed, Followed, phase = "done", NEW f, f = Last(afterInvoke)
               PROVE  /\ \A n \in ToSet(contents) : providers[n].kind # "generated"
                      /\ Got(f).group = "final"
                      /\ NonFinal(f) => \A n \in ToSet(contents) : NonFinal(n)
                      /\ \A n \in ToSet(contents) : f < n /\ n <= given => NonFinal(n)
                      /\ \A s \in {afterInit, afterInvoke} : \A k \in DOMAIN s, l \in DOMAIN s :
                           k < l /\ s[k] <= given /\ s[l] <= given => s[k] < s[l] \/ s[l] = f
    BY DEF FinalLast
  <2>1. PICK c \in Seq(1 .. Len(providers)) : c = contents
    BY DEF CInv, Typed
  <2>2. PICK m \in Nat : m = Len(c) /\ m >= 1 /\ m \in 1 .. Len(contents)
    BY <2>1 DEF Placed
  <2>3. \A n \in ToSet(contents) : \E k \in 1 .. m : n = c[k]
    BY <2>1, <2>2 DEF ToSet
  <2>4. FollowedTo(m + 1)
    <3>1. PICK j \in 1 .. Len(contents) + 1 : j = i /\ FollowedTo(j)
      BY DEF Followed
    <3>2. PICK k \in 1 .. Len(contents) + 1 : k = i /\ ListedTo(k)
      BY DEF CInv, Listed
    <3>3. j = m + 1
      BY <2>1, <2>2, <3>1, <3>2 DEF ListedTo
    <3> QED
      BY <3>1, <3>3
  <2>5. f = c[m]
    BY <2>1, <2>2, <2>4 DEF FollowedTo, Ends, Last
  <2>6. \A n \in ToSet(contents) : providers[n].kind # "generated"
    BY <2>1, <2>2, <2>3 DEF Regular, RegularAt
  <2>7. Got(f).group = "final"
    <3>1. \E last \in BOOLEAN : /\ last /\ Decision(providers[f], last, RunTypes(m)) # 0
                                /\ matched[f] = Decision(providers[f], last, RunTypes(m))
          /\ providers[f] \in Providers
      BY <2>1, <2>2, <2>5, DoneDecided
    <3> QED
      BY <3>1, DecisionLast DEF Got
  <2>8. NonFinal(f) => \A n \in ToSet(contents) : NonFinal(n)
    BY <2>1, <2>2, <2>3, <2>5 DEF Placed, FinalPlace
  <2>9. ASSUME NEW n \in ToSet(contents), f < n, n <= given PROVE NonFinal(n)
    <3>1. CASE NonFinal(f)
      BY <2>8, <3>1
    <3>2. CASE ~NonFinal(f)
      BY <2>1, <2>2, <2>3, <2>5, <2>9, <3>2 DEF Placed, LastAfter
    <3> QED
      BY <3>1, <3>2
  <2>4a. PICK j : j = m + 1
    OBVIOUS
  <2>10. ASSUME NEW s, s \in Seq(1 .. Len(providers)), Follows(s, j), NEW k \in DOMAIN s, NEW l \in DOMAIN s,
                k < l, s[k] <= given, s[l] <= given
         PROVE  s[k] < s[l] \/ s[l] = f
    <3>1. k \in 1 .. Len(s) /\ l \in 1 .. Len(s)
      BY <2>10
    <3>2. PICK a, b \in 1 .. j - 1 : a < b /\ s[k] = contents[a] /\ s[l] = contents[b]
      <4>1. \A x, y \in 1 .. Len(s) : x < y =>
              \E a, b \in 1 .. j - 1 : a < b /\ s[x] = contents[a] /\ s[y] = contents[b]
        BY <2>10, Zenon DEF Follows
      <4> QED
        BY <2>10, <3>1, <4>1, Zenon
    <3>3. a \in 1 .. Len(contents) /\ b \in 1 .. Len(contents)
      BY <2>1, <2>2, <2>4a
    <3>4. contents[a] < contents[b] \/ b = Len(contents)
      BY <2>10, <3>2, <3>3 DEF Placed, Sorted
    <3> QED
      BY <2>1, <2>2, <2>5, <3>2, <3>4
  <2>11. \A s \in {afterInit, afterInvoke} : s \in Seq(1 .. Len(providers)) /\ Follows(s, j)
    BY <2>4, <2>4a DEF CInv, Typed, FollowedTo
  <2> QED
    BY <2>6, <2>7, <2>8, <2>9, <2>10, <2>11
<1> QED
  BY <1>1, <1>2, <1>3, Invariance, PTL DEF Spec
=============================================================================
