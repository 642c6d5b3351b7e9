# A TLA+ verification of nject

nject is a dependency-injection library for Go. A program writes down a
collection of providers (functions and values), nject works out at `Bind` time
which of them are needed and how their inputs and outputs are wired together,
and builds one function that runs them. This directory models that machinery,
checks it with TLC on small instances and proves part of it with TLAPS.

Paths are relative to the repository, so `cache.go:206` is line 206 of its
`cache.go`.

## 1. The system

`Bind(invoke, init)` goes through these stages, and the functions that it leaves
behind in `*invoke` and `*init` are called later, from any goroutine:

1. **flattening** (`nject.go`, `replace.go`, `reorder.go`): the collection
   becomes one sequence; named replacements and `Reorder` are applied,
   `ReplaceSelf` providers are asked for their substitutes;
2. **characterization** (`characterize.go`): each provider gets a class
   (literal, static injector, injector, fallible injector, wrapper, final, init,
   invoke), a group (LITERAL, STATIC, RUN) and its flows, the types that it
   takes and gives going down the chain and coming up;
3. **inclusion** (`include.go`, `match.go`): types are matched, and the
   providers that cannot or need not be in the chain are left out;
4. **shadowing check** (`shadowing.go`);
5. **wiring** (`bind.go`, `generate.go`): types become slots of a value array,
   and each provider a closure that reads and writes slots;
6. **running**: literals and the static set once, the run set on every
   invocation, through the **caches** (`cache.go`) of memoized providers and
   singletons, which are global to the process;
7. **debugging** (`debug.go`): a `Bind` that fails is run once more, alone, to
   record a trace.

| component | state | operations | interacts with |
|---|---|---|---|
| memoization, singletons (`cache.go`) | two registries, a mutex and a map per memoized provider, a `sync.Once` per singleton | make or look up a cacher, call through it | all chains of the process; provider functions run under the mutex |
| run set and wrappers (`generate.go`, `bind.go:253-297, 378-410`) | value arrays (`valueCollection`), copied at some places and shared at others | invoke, inject, fail, enter a wrapper, `inner()`, return, panic | caches; goroutines of a Parallel wrapper |
| static set (`bind.go:299-376`) | `baseValues`, `initOnce` | init, invoke, run the static chain | run set (copies `baseValues`) |
| inclusion (`include.go`, `match.go`) | per-provider marks: include, cannotInclude, excluded, wanted; use and used-by tables | validate, eliminate unused, propose, try without | assembly and reordering before it, shadowing check and wiring after it |
| assembly, shadowing check, wiring (`bind.go:19-177`, `shadowing.go`) | the chain, the index of the invoke function, slots by type for each direction | add synthetic providers, check returns, give out slots | inclusion between them; the closures of the static and the run set use the slots |
| named replacement (`replace.go`) | a doubly linked list with a name index and a cursor | replace, insert before, insert after | flattening |
| Bind and debugging (`api.go:445-472`, `debug.go:12-80`) | `debugLock`, the flag `debug`, captured text | bind, capture | every `Bind`, nested ones too |
| flattening, `ReplaceSelf` (`nject.go:192-287`) | slices of the collection, shared between Binds; the types that are not static | flatten, substitute, list | `Bind` (nested), characterization |
| characterization (`characterize.go`) | none; a registry of prototypes, each a list of predicates | characterize | type codes (`type_codes.go`, a map under a mutex), map keys |
| map keys (`cache.go:25-140`, `characterize.go:102-124`) | none; a check function per memoized provider | decide on types, make a check, check values | characterization makes the check, cachers call it |
| reordering (`reorder.go`, `intheap.go`) | a graph and two heaps | reorder | inclusion |
| net flows (`flows.go`) | what was met so far, in and out | `DownFlows`, `UpFlows` | characterized or not, matching of types; condensing |
| condensing (`condense.go`, `reflective.go`) | none | `Condense` | characterization, net flows, a `Bind` of its own |
| struct fillers (`filler.go`, `filler_api.go`) | the walk along the fields: inputs with their paths, actions found | make a builder, fill, act on fields, call methods | makes a cluster of providers; inclusion keeps it together |

### What is hard here

* *Concurrency.* Cachers are shared by all chains and goroutines, and a provider
  runs with its cacher's mutex held. First invocations race for `initOnce`.
  Overlapping invocations, retries and Parallel wrappers work on arrays some of
  which are shared. `debugLock` is a read-write lock that is taken recursively.
* *Failure in the middle.* A fallible injector ends the chain and everything
  that was not run must read as zero while the error reaches the top; a panic
  unwinds through wrappers, caches and locks; a failed `Bind` is run again.
* *Order and stale state.* Inclusion works in passes over marks that earlier
  passes set, on work lists that are filled from Go maps, and tries eliminations
  that it takes back. The replacement editor relinks the list under its cursor.
  The index of the invoke function is taken before the chain shifts; a matched
  type has two names; net flows are taken from another order of the providers
  than the one that is bound; a field's words and actions undo each other.

Correctness, component by component, is stated by the properties in section 4.
`PROJECT.json` lists each hazard at its line with the properties that cover it.

## 2. Modules

| module | models | how it corresponds to the code |
|---|---|---|
| `Memo` | the promise of a memoized provider: a table of answers whose entries are written once and answer every later call | abstract |
| `Cache` | `cache.go` | A cacher is named by the chain whose Bind made it; `cachers` is the registry and `bound` the cacher that a chain got from it. `lock`, `cache` are the mutex and map of one cacher (for a singleton: the inside of `sync.Once` and its result). A goroutine is a stack of calls (`act`, `depth`), since a provider's function may run another chain. Each locking step, lookup, return and panic is an action. `FilledKey`, `KeyWidth` are the key arrays |
| `Cache_proofs` | theorems about `Cache` | section 6 |
| `ChainDefs` | the bound run chain and its slots (`bind.go:140-177`) | `DownTypes`, `UpTypes`: the types that have a slot; `MustZeroIfInnerNotCalled` |
| `ChainSpec` | what running a chain means: every task has an environment of its own | abstract |
| `RunChain` | the closures of `generate.go` and `bind.go` for the run set | `heap` holds the value arrays, a task refers to them by `v`, `arg` and `snap` (`vCopy`); copies are made exactly where the code calls `Copy()` |
| `RunChain_proofs` | theorems about `RunChain` | section 6 |
| `StaticSet` | literals, static chain, init, first invocations (`bind.go:299-410`, `generate.go:353-383`) | `base` is `baseValues`, `once` is `initOnce` |
| `StaticSet_proofs` | theorems about `StaticSet` | section 6 |
| `FallibleMemo` | a memoized fallible injector of the run set | the remembered slice, edited by each caller (`generate.go:290`) |
| `Include` | `include.go` and `match.go` | marks are sets of places; a visit of a work list is an action, in any order |
| `Wire` | the rest of `doBind`: assembly, `shadowing.go`, the slots of types | EXTENDS `Include` and goes on where its phase is "done"; `Assembled` is the chain that `doBind` puts together, `DownMapped` and `UpMapped` are the types with a slot (`downVmap`, `upVmap`), `Remapped` is `addToVmap` with its map of matched types |
| `Condense` | `flows.go`, `condense.go` | EXTENDS `Wire`; `netFlows` takes one provider at a time; `BindInner` starts the machine of `Include` and `Wire` on the collection with an invoke function made of the net flows, `Return` takes its result |
| `Bind_proofs` | theorems about `Include`, `Wire` and `Condense` | section 6 |
| `MapKey` | `mappable`, `canBeMapKey`, `canValueBeMapKey` | types are terms (`Decl`), values are trees over them; the check functions that the code composes are `Checked` and `Remembers` |
| `Filler` | `MakeStructBuilder`, `addFieldFiller`, the filler's `Call` | `at` is `np`, the path of the field at hand; a word or action of its tag is a step; `reflectives` are the actions found, `chain` is the cluster, `held` the struct when it runs |
| `Filler_proofs` | theorems about `Filler` | section 6 |
| `Reorder` | `reorder.go` and `intheap.go` | a provider is its place in the chain as bound; `nodes` is the graph as built, and what is left of a node's `after` follows from `released`; the heaps are `unblocked` (with `unblockedTypes`) and `weakBlocked`; `cannotReorder` the queue of the unmarked; one action per pop, force and end. `Placeable` is the least complete set: what some order could release |
| `Characterize` | `characterize.go`, `characterizeAndFlatten` (`nject.go`) | EXTENDS `MapKey`, which tells what can be memoized; `contents` is the slice that `reorderNonFinal` and the `ReplaceSelf` loop edit, `nonStatic` is `nonStaticTypes`; a provider is what the predicates see of it; one action per turn of each loop |
| `Characterize_proofs` | theorems about `Characterize` | section 6 |
| `Replace` | `replace.go` | `next`, `prev` are the links of the nodes, `n` the cursor; a directive with all its snips and insertions is one action |
| `Flatten_proofs` | theorems about `Reorder` and `Replace` | section 6 |
| `DebugLock` | `Bind`, `bindFast`, `captureDoBindDebugging`, `ReplaceSelf` as far as locks go | `sync.RWMutex` with its writer preference: `pending` keeps new readers out |
| `DebugLock_proofs` | theorems about `DebugLock` | section 6 |
| `MC*` | the instances that TLC checks | |

`RunChain` composes with `ChainSpec` by the refinement mapping `AbstractTask`,
`Cache` with `Memo` by `Table`. `FallibleMemo` takes from `Cache` that one
execution is shared by all callers. `StaticSet` and `RunChain` meet in
`baseValues`: the snapshots that `SnapshotsComplete` shows to be final are the
`BaseEnv` from which `RunChain` starts. `Condense` on `Wire` on `Include` is one
machine, `Bind` as it is called by a program and as it is called by `Condense`.
`Characterize` with `MapKey` tells which calls reach the map of a cacher, where
`Cache` goes on with constants for values that a check turns down.

`PROJECT.json` maps every definition that models code to its lines. Operators
marked "mutant" are wrong variants of the one that follows; they take no part in
a specification and serve to show that a property notices such a bug.

## 3. Abstractions

* Types are names; values are named by the provider execution that made them, so
  that a wrong, stale or zeroed value can be told from the right one. The
  invalid `reflect.Value` is distinct from zero and is read as zero, as the
  input mappers do.
* What a provider function does is free: it succeeds, fails (if fallible),
  panics, calls `inner()` any number of times up to a bound, or runs another
  chain.
* One access of a slot array by one provider is one step. That arrays are not
  raced on is a property (`RaceFree`, `SnapshotsComplete`), not an assumption.
* A heap is a set from which the least element by priority is taken. Among type
  nodes, whose numbers come from the order in which they were first met, any may
  be taken.
* Reflection, formatting of errors and the text of traces are left out.

## 4. Runs

The twelve runs, nine that pass and three that show a divergence; states are
distinct states.

| run | question | instance | states |
|---|---|---|---|
| `cache` | Is a memoized provider or singleton executed once per key and answered consistently and for its own inputs, with no mutex left held, whatever the interleaving? | 2 goroutines, 4 chains, a memoized provider of two chains, one with 91 inputs, a singleton; values that are nil, unhashable or refused by the key check; calls nest to depth 2; panics | 60,014 |
| `run_chain` | Do the shared arrays implement the meaning of a chain? | two overlapping invocations with retries; a Parallel wrapper around a wrapper; a retrying wrapper in a retrying wrapper; one panic; up to 2 calls of `inner()` | 94,222 |
| `static` | Does the static set run once, is it complete before anyone reads it, are failures zeroed and reported? | 3 goroutines, 4 calls, two static sets, with and without an init function | 3,671 |
| `fallible_memo_first` | Do callers of a memoized fallible injector agree with its execution? | TerminalError first of 3 values; violated | |
| `bind` | Which providers are included, are values then read from where they were matched, are returns overridden, are net flows net, can whatever the documentation allows be condensed, and does it all end? | 6,073 chains: up to three providers from each of five menus (annotated injectors, init functions, wrappers and errors, clusters, loose interfaces) between invoke and final, and chains as `doBind` assembles them (literals, static providers, init, `Unused`, `*Debugging`, shadowing); 1,446 collections of up to three to condense | 699,516 |
| `characterize` | What does a collection become? | all collections of the forms in `MCCharacterize`, up to four providers: each set of annotations that meet in a test, providers of run-time and of static inputs before it, wrappers, values, `NonFinal` and generated providers; inputs of nine types for map keys: basic, slice, channel, interfaces that may hold them, structs and structs in structs with exported and hidden fields | 1,625,489 |
| `replace` | Is the edited collection right? | all collections of up to 5 providers over 2 names, and of up to 3 whose directives have names of their own, that the editor handles | 207,606 |
| `reorder` | Where do the providers marked `Reorder` go? | 19,652 chains of three providers (injectors, wrappers, a literal, a loose interface) between the invoke and the final function, with and without an init function and a static injector | 405,287 |
| `filler` | Does a struct hold what its tags and actions ask for, and do actions run once and in order? | a struct of a field, an inner struct with a field and a hidden one, and a last field: 11 tags by 6 by 4, actions by tag, name and type with and without pointers and `WithFill`, three kinds of model; builders that are refused; only those for which code and documentation agree (`SkipLast`, `NofillStands`) | 611,062 |
| `bind_capture` | Is a capture alone, the lock balanced, does every Bind return? | 3 goroutines, 4 Binds or requests for debugging, failing and generated collections | 18,622 |
| `bind_nested` | Does every Bind return when a `ReplaceSelf` function binds? | 2 goroutines, 2 Binds; violated | |
| `condense_returns` | Does a condensed provider return what its wrappers return? | collections with middleware that receives an error and returns it; violated | |

What the properties say:

* `cache`: `OncePerCombination` and `AnswersAgree` (one completed execution
  under a key, the same answer for everybody), `LockDiscipline` (a mutex is held
  by exactly the call inside it, panics included), `CallsEnd`,
  `AnswerMatchesInputs` (nobody is told the result for other inputs), and
  `MemoSpec`: `Cache` implements `Memo`.
* `run_chain`: `RaceFree` (two tasks that can both run never share an array, nor
  touch the copy kept for a retry, nor `baseValues`), `ChainMeaning`: `RunChain`
  implements `ChainSpec`, so that every input, every returned value, every value
  that an error or panic zeroes is what a chain without sharing would have; and
  `InvocationsEnd`. A retried wrapper's own return values are exempt (section 7).
* `static`: `StaticRunsOnce`, `SnapshotsComplete` (no call reads `baseValues`
  before the static chain is over, nothing is written after), `SkippedAreZero`,
  `ErrorReported`, `ClosestProvider` and `EveryCallReturns`.
* `bind`: of inclusion `GreatestSupported` (a validation finds the greatest set
  of providers that support one another, whatever the order of its visits),
  `TryDecidesRightly` (an elimination stays if and only if everything demanded is
  still supported, and is taken back completely otherwise), `DesiredKept`,
  `ClusterTogether`, `NoDeadweight`, `NoInternalError`; of wiring
  `ValuesAsMatched` (each slot that is read was last written by the closest of the
  providers that inclusion matched, and what the init function returns has a slot)
  and `NothingOverridden` (what `checkForShadowing` lets pass overrides no return
  that is not received, exempt or the error that ends the chain); of condensing
  `NetFlowsAreNet` (the one walk over the collection finds exactly the inputs
  that nothing before them matches, whatever repeats or passes through) and
  `Condensable` (the net flows, found by one way of matching on one order of the
  providers, are enough for a Bind that matches in another way and on another
  order); and `BindReturns`.
* `characterize`: `StaticIffIndependent` (who is annotated for the STATIC set is
  in it if and only if none of its types comes from the invoke function, an
  injector or a wrapper of the RUN set above it), `AsAnnotated` (the first
  prototype that matches meets the demands of all annotations), `FinalLast` (the
  last provider that may be final is, the others keep their order, and nobody is
  left who was to replace itself), `KeysHashable` (whatever values a memoized
  function of the static set is called with, it goes to the map only with ones
  that Go can hash).
* `replace`: `NothingLost` (nobody is lost or doubled, plain providers keep their
  order), `PlacedAsAsked` and `Ends` (neither a nil
  dereference nor an endless walk).
* `reorder`: `InputsFirst` (whatever was not forced out comes after a source of
  each of its inputs, and after the static set), `AllThatCan`: the order is a
  permutation in which the others keep their places, the greedy sort releases
  exactly the providers that some order could release, and gives an exclusion
  mark to the rest of those that are marked `Reorder`.
* `filler`: `StructAsAsked` (each leaf of the struct holds in the end what the
  last action left that got its address, or the input for its own or the whole
  field, or what was there, as its tag and its actions say), `ActionsInOrder`
  (after the filling and before the methods, tag before name before type, each
  that applies once). What applies (`Applied`) and what is filled (`Fills`) is what
  `filler.go:124-135` and `filler_api.go:182-185` say, not what the flags of the
  walk say: `-` and `skip` turn off the actions by name and by type, the last word
  on filling overrides all actions. On two orders of words and actions the code
  does otherwise (section 7); `SkipLast` and `NofillStands` exclude them. Without
  `NofillStands` TLC finds `StructAsAsked` violated, and with the tag
  `act,skip,act` instead of `SkipLast`, `ActionsInOrder`.
* `bind_capture`: `CaptureAlone`, `LockBalanced`, `EveryBindReturns`.

The type invariants `TypeOK` of `Cache`, `StaticSet`, `RunChain`, `Reorder` and
`Characterize` are theorems, and those of `DebugLock`, `Include` and `Filler` (in
the last two `Typed`) are conjuncts of inductive invariants, which are. In the other modules `TypeOK`
says what the variables are, and no run is spent on it.

### Bounds, and why they are enough

* `Cache`: a conflict over a cacher needs two goroutines; a third call finds what
  the first two left; depth 2 has a provider that runs a chain that uses another
  cacher. Chains `c1` and `c2` share a provider, so that two Binds race for one
  registry entry.
* `RunChain`: two invocations are enough for `baseValues` to be shared, two calls
  of `inner()` for the switch from the caller's array to a copy
  (`generate.go:209-226` treats all later calls alike), and one panic for an
  unwinding; further ones start from the same states. `MaxInvokes` is 1 for the
  chains in which tasks overlap or nest within an invocation.
* `StaticSet`: one goroutine runs the chain, one waits for `initOnce`, one comes
  late.
* `Include`, under `MCBind`: three providers between invoke and final give a chain of
  dependencies, a cycle, two sources of one type and an alternative; each menu
  has the annotations that interact, and every order of visits is explored.
* `Wire`, under `MCBind`: two providers before the invoke function and one after
  give every order of a literal, a static provider, an init function and a
  consumer of `Unused`; two wrappers with a final function give a return, one that
  overrides it and one in between that receives it.
* `Condense`, under `MCBind`: two providers and a last one give a type that is
  provided twice, passes through, is asked for before it is provided, and a
  provider that moves before a wrapper.
* `MapKey`, under `MCCharacterize`: an interface in a struct in a struct is where
  the checks descend for the second time, an interface that holds a struct with an
  interface is where they stop.
* `Filler`: a field inside of a field has something above it to be skipped, filled
  whole or acted on; up to two words and one action of each kind on a field
  give every order in which they undo each other.
* `Reorder`: three providers that may each be marked, with three types and an
  interface, give chains of wishes, cycles of two and three, a source after its
  consumer, and types with several sources.
* `Characterize`: what a provider becomes depends on itself, on being last and on
  the types that are not static by then; two providers before it and one after
  give each of those. Four places hold a generated provider, what it is replaced
  by, a final and a `NonFinal` provider in any order.
* `Replace`: five places hold a target, a run of two directives and what stands
  on both sides of them; three places hold a directive with a name of its own, its
  target and a provider of the same name.
* `DebugLock`: a reader, a writer that drains and a reader that is kept out.

Each bound is a CONSTANT or a definition of an MC module; `MaxCalls` and
`MaxDepth` of `Cache`, `MaxCalls` of `StaticSet` and `FallibleMemo`,
`MaxInvokes`, `MaxInner` and `MaxPanics` of `RunChain`, and `MaxStarts` of
`DebugLock` appear in guards of the actions that start something, never of those that end it, so they do not hide
an unfinished operation from a liveness property. Deadlock checking is off where
the programs modelled may stop: when all calls that the bounds allow are over.

## 5. Fairness

| module | assumption | justification |
|---|---|---|
| `Cache` | weak fairness of each goroutine's steps, strong fairness of taking a mutex | goroutines are scheduled; provider functions end; Go's mutexes hand over to waiters that starve (starvation mode) |
| `RunChain` | weak fairness of some task's step | the same; wrappers do not wait for anything but their own calls of `inner()` |
| `StaticSet` | weak fairness of each goroutine | the same |
| `DebugLock` | weak fairness of each goroutine, strong fairness of `RLock` and of announcing a writer | `sync.RWMutex` admits the readers that waited when a writer leaves, and its writers share a mutex |
| `Include`, `Wire` and `Condense`; `Replace` | weak fairness of the one sequential program | it is a sequence of loops that wait for nobody |

`Reorder`, `Characterize` and `Filler` have safety properties only and no
fairness; their loops take one node from a heap or the list, one provider or one
field at each turn. Binding, calling and invoking carry no
fairness: a program need not do them.

## 6. Proofs

Each theorem is proved for every value of the constants that its module's
assumptions admit, with no bound on goroutines, chains, providers, calls or
steps. Where a theorem has a hypothesis on the inputs, the hypothesis names what
a program must avoid for the property to hold of this code; section 7 has the
divergence behind each. All but one of them hold of every input that the run
which checks the property is given, so that the theorem says of all inputs of that
kind what the run says of those; of `Wireable` see below.

`Cache_proofs`, from `CacheAssumption` (the constants have their types, `None` is
none of the other values):

| theorem | property | hypothesis |
|---|---|---|
| `TypeCorrect` | `TypeOK` (no run) | |
| `ExecutedOnce` | `OncePerCombination` | |
| `SameAnswers` | `AnswersAgree` | |
| `LocksBalanced` | `LockDiscipline` | |
| `EntriesStay` | `EntriesAreFinal`: no step changes or removes what is remembered (no run) | |
| `ImplementsMemo` | `MemoSpec` | |
| `AnsweredAsAsked` | `AnswerMatchesInputs` | `KeysTellApart` |

`OncePerCombination` is not inductive: that an execution is not repeated depends
on who holds the mutex, on every chain of a provider having the same cacher, and
on the lookup of a running call still being valid. The invariant `IInv`
(theorem `Invariance`) adds just that:

* `Shape`: the types, exactly the frames below `depth` are there
  (`StackShape`), and a frame's chain is bound (`FramesBound`);
* `RegistryAgrees`: whoever is bound has the registry's cacher;
* `EntriesOwned`: only the registry's cachers remember anything;
* `LockDiscipline`: at most one call is inside a cacher;
* `BodyMissed`: while a provider's function runs, its key is still absent. This
  is what a miss established under the mutex, and it survives because whoever
  could store the key would have to hold that mutex;
* `CountsMatch`: an execution is counted if and only if its result is remembered;
* `AnswersRemembered`: what was told is what is remembered.

The proof goes action by action. Lemmas say what a step does to the frames
(`StepFrames`, `StepShape`), to the mutexes (`StepLocks`), and to the entries
(`StepEffect`, `StepEntries`); the conjuncts follow from those. The refinement
proof shows that a step that stores an entry is `Execute`, one that answers from
it is `Recall`, and all others stutter. `AnsweredAsAsked` adds `Asked`, that an
entry is the result for inputs that make up its key, and the lemma that two
argument lists of one key are the same, which is where `KeysTellApart` is needed:
the lists of a provider have one length, and no place has nil in one and `""` in
another.

`StaticSet_proofs`, from `StaticSetAssumption` (providers have a class, a fallible
one provides `error`, without an init function there are no parameters of it, and
what it returns is provided by somebody):

| theorem | property | hypothesis |
|---|---|---|
| `StaticTypes` | `TypeOK` (no run) | |
| `RunsOnce` | `StaticRunsOnce` | |
| `CompleteSnapshots` | `SnapshotsComplete` | |
| `SkippedZeroed` | `SkippedAreZero` | |
| `ClosestProviders` | `ClosestProvider` | `LiteralsAreFirst` |
| `ErrorsReported` | `ErrorReported` | `ErrorsAreLast` |

None but the first is inductive. `IInv` (theorem `StaticInvariance`) ties the
parts together: whoever is in the chain is inside of `initOnce` and alone there
(`OneRunner`); whoever reads, or has read, came after (`ReadersLate`), so that a
provider that writes has no reader before it; what has run is behind the place of
the next (`InOrder`); and after an error the slots of everything below it are
zero (`Zeroed`), which holds because `MustZeroIfRemainderSkipped` is about all
providers below, the excluded ones too, and each of their mapped types is in the
flows. `MeetsFacts` states once what the three ways to end an execution share,
`LeaveFacts` what the three ways to leave the chain share. `ClosestProviders`
needs `Closest`: the values are, at each place of the walk, those of the closest
providers above, and the literals below have kept their slots (`Held`). A literal
that shares its type with a provider above it, or with a parameter of the init
function, breaks `Held`, and `LiteralsAreFirst` excludes it. `ErrorsReported`
needs `ErrorKept`, that the error of the provider that ended the chain is still in
its slot, which `MustZeroIfRemainderSkipped` clears if a provider below returns an
error too (`ErrorsAreLast`).

`RunChain_proofs`, from `ChainAssumption` (the last provider of a bound chain and no
other is final, an injector returns nothing, a fallible one just an error) and
`PanicsAssumption`:

| theorem | property | hypothesis |
|---|---|---|
| `TypeCorrectness` | `TypeOK` (no run) | |
| `NoRaces` | `RaceFree` | |
| `Refinement` | `ChainMeaning` | |

The code shares one array between a wrapper and what it calls, copies it for the
second call of `inner()` and for each call of a Parallel wrapper, and keeps a copy
for retries. `IInv` (theorem `Invariance`) says who is on which array. `Linked`: a
task has a caller that is inside of its wrapper, and nobody works on a copy that
is kept. `Sharing`: of two tasks on one array the later one was called, directly or
through others on that array, by the earlier one, which waits for it; and
who waits cannot run, hence `RaceFree`. The refinement adds, in `MInv`,
what an environment of its own would hold: who may still turn to another array
(`Passing`), one call at a time unless Parallel (`OneCall`), a task nested in
another is further down the chain (`Nested`), and what is read before anything was
returned is zero (`Contents`). `Undisturbed` concludes that a running task writes
nothing that the abstract state of another is read from; then each action of
`RunChain` is the one of `ChainSpec` with its name, under `AbstractTask`.

`Bind_proofs`, about `Include`, from `IncludeAssumption` (finitely many types, the ranks of
candidates for one type differ, a chain has an invoke function, which is required):

| theorem | property | hypothesis |
|---|---|---|
| `ValidationIsExact` | `GreatestSupported` | |
| `TriesDecideRightly` | `TryDecidesRightly` | |
| `NeverInternal` | `NoInternalError` | `MatchedOneWay` |
| `DesiredStay` | `DesiredKept` | `MatchedOneWay`, `DesiredPlainly` |

`checkFlows` takes providers from a work list in an order that the model leaves
open. `IInv` (theorem `Invariance`) holds of each: nothing of the greatest set
that supports itself is ever lost or marked, whoever is marked and still included
is on the list, and whoever is not on the list has all it needs among those still
included (`Checking`). With the list empty, what is included supports itself,
and contains the greatest such set, so it is that set. For the two theorems about the end, `Kernel` follows
what is committed (required, or desired and possible) through all phases:
every elimination that stays leaves it supported, no elimination is proposed of
it, and taking one back restores the support. The last validation calculates the
flows anew from what is left. That this loses no support needs
`MatchRestricts`: the best match among some providers is what they are of the best
match among all. `MatchedOneWay` (a type that somebody is `Loose` about is fitted
by one type of the chain) is what makes this true.

The same module about `Wire` and `Condense`; `BindSpec` is one Bind, `CondenseSpec`
the calculation of net flows, `Condense` and the Bind inside of it:

| theorem | of | property | hypothesis |
|---|---|---|---|
| `BindValidatesExactly` | `BindSpec` | `GreatestSupported` | |
| `ReturnsArePreserved` | `BindSpec` | `NothingOverridden` | `PassedOnIsReturned` |
| `BindNeverInternal` | `BindSpec` | `NoInternalError` | `MatchedOneWay` |
| `BindKeepsDesired` | `BindSpec` | `DesiredKept` | `MatchedOneWay`, `DesiredPlainly` |
| `ReadsAsMatched` | `BindSpec` | `ValuesAsMatched` | every chain is `Wireable` |
| `NetFlowsFound` | `CondenseSpec` | `NetFlowsAreNet` | |

`BindSpec` may start from any chains, and thus from those that `Condense` makes;
the run `bind` checks the first five on `CondenseSpec`. `BindInv` (theorem `BindInvariance`) is `IInv` with
`Settled`: the flows are those of what was left from the last validation on, and
in the end the chain supports itself and, if it was wired, has no shadowing. That
a return is then overridden by nobody takes an argument over the chain
(`SomebodyOwns`): whoever returns a type that it also receives gets it from
further down, and so on, until somebody returns it without receiving it, and
`checkForShadowing` saw that one. `PassedOnIsReturned` says that "gets it"
is about that very type.

`ReadsAsMatched` relates the marks of inclusion to the slots. The types of what
was matched (`BestTypeFits`, `MatchedAreGivers`) have slots (`DownHasSlot`,
`UpHasSlot`), all writers of a slot are providers that inclusion could have
matched, and the last of them in order of turns is the closest in order of places
(`TurnsInOrder`, `SameTurn`). `Wireable` has what the code relies on for this, one
condition for each divergence of `Wire` in section 7: types written or read in two
stages (literals, init, static, run) come in the order of the stages
(`StoredInOrder`), the providers of a type are `Loose` alike (`LooseAlike`), nobody
is `Loose` about what is passed on or what init returns (`PassedOnAsSuch`), and the
invoke function stands between the static and the run set, with no provider of
`Unused` values above an init function (`InvokeInPlace`). Of the 6,073 chains of the run
5,845 are `Wireable` (`WireableAssumption` in `MCBind` has TLC check that all but one in
twenty are); the property holds of the others too.

`NetFlowsFound` is about a loop over a collection of any length. `FlowsInv`
(theorem `FlowsInvariance`) has the sets `seenIn` and `seenOut` exact for the
providers before `k` (`LackedTo`, `GivenTo`).

`Flatten_proofs` is about `Reorder` and `Replace`. The sort, from `ReorderAssumption` (a
chain starts with the static provider of `*Debugging`, which is not marked):

| theorem | property | hypothesis |
|---|---|---|
| `TypeCorrectness` | `TypeOK` (no run) | |
| `PlacedAfterInputs` | `InputsFirst` | |
| `PlacesAllThatCan` | `AllThatCan` | |

`IInv` (theorem `Invariance`) says what the heaps hold while the sort runs: whatever
is in one could be placed (`Ready`), whatever could be placed is in one or has been
placed (`NoneForgotten`), the unmarked keep their order and are forced out in it
(`FixedInOrder`), once one had to be forced out nothing more can be released
(`Stuck`), and nothing was released that some order could not release (`Sound`).
`NoneForgotten` shows the greedy choice to be complete, `Sound` that it is no more than
the least complete set; together they are `AllThatCan`.

The editor, from `ReplaceAssumption` (records of names and directives, `None` is neither a
name nor a number, and whoever has a directive names its target, an argument of
`ReplaceNamed` and its siblings), for collections of any length with any names:

| theorem | property | hypothesis |
|---|---|---|
| `EditLosesNothing` | `NothingLost` | `TargetsArePlain`, `OneSided` |
| `EditPlaces` | `PlacedAsAsked` | `TargetsArePlain`, `OneSided` |

No directive is itself the target of one, and the replacements of one target are on
one side of it (section 7 has what happens otherwise); all collections of the run
are such. Nothing is asked of insertions, which may meet the nil link of the tail: then there
is no edited collection. `EditInv` (theorem `Editor`) has an order `R` in which the links
lead through all providers but those that were replaced (`Linked`): each node's
successor is the next one in `R`, and back links undo it, but for that of
the tail. Providers not yet processed are in `R` as they were in the collection; all that
are before the cursor are processed or have no directive, so that at the end all
directives have been met; whoever was processed is where it asked to be
(`Stands`); and the index is as it was at the start, its runs still together (`Indexed`).
The lemmas are about lists: what is between two nodes hangs together (`BlockIsChain`),
`snip` leaves a list (`SnipLinked`), `insertBefore` makes one in the order `Moved`
(`InsertLinked`), and the run that a loop of the editor collects is what is between its
first node and its last (`RunIsBlock`). `Moved` does not touch the order of those that
are not moved (`OthersStay`), which is what keeps earlier promises. `OneSided` is
needed where the target's successor becomes the place to insert before: it must
not be one of those that were just taken out. `WalkedReads` is the last loop: the
positions are listed in the order `R`, and by counting none is missed
(`FS_PigeonHole`).

`Characterize_proofs`, from `CharacterizeAssumption` (the types of the constants):

| theorem | property | hypothesis |
|---|---|---|
| `TypeCorrectness` | `TypeOK` (no run) | |
| `AnnotationsGranted` | `AsAnnotated` | `TerminalsApart` |
| `StaticExactly` | `StaticIffIndependent` | `ReorderedApart`, `RegularSubstitutes` |
| `FinalComesLast` | `FinalLast` | `RegularSubstitutes`, no collection is empty |

`CInv` (theorem `Invariance`): the slice has each provider once through all edits,
and when the listing loop comes to a place it has decided about all those before,
with `nonStaticTypes` being exactly what the invoke function and the RUN set above
hand down (`ListedTo`). `StaticDecision` and its siblings then go through the
registry of thirteen prototypes once, for one provider. `FinalComesLast` adds
`Followed`: what was listed is in the order of the slice and ends with its last
place.

`Filler_proofs`, from `FillerAssumption` (a pointer type for the type of each field,
actions with a list of parameters, and fields whose paths are those of a struct:
numbered from 1, and under a field only if that is a struct), for structs of any depth
and any words, actions and methods:

| theorem | property | hypothesis |
|---|---|---|
| `OrderOfActions` | `ActionsInOrder` | `AsDocumented` |
| `FilledAsAsked` | `StructAsAsked` | `AsDocumented` |

`AsDocumented`: of each builder, no action by tag stands after `-` or `skip`
(`SkipLast`), and none with `WithFill(true)` after `nofill`, unless a word of the field
other than `nofill` decides (`NofillStands`). These are the builders for which the code does as
`filler.go:124-135` says (section 7). The walk goes by its flags, the properties by
the documentation: `AppliedInTurn` and `FillsInAll` show that under `AsDocumented` the
two are the same, for words and actions in any order.

Both properties are about the end, when the walk that led there is over. `IInv`
(theorem `Invariance`) says what the walk has done at each of its moments. `Walk`: `at`
is a field that every field around it was opened for. `Told`: the four flags are what
the words and actions done so far for `at` say (`FillsTo`, `WholeTo`), which is where
the order in which they undo each other comes in. `Acted`: the actions collected
are exactly those that apply (`Numbered` gives each the word or option that it is
for), in their order, none of a field after those of a field inside of it. `Taking`: the inputs
are exactly those for the fields to be filled that the walk has left. `Chained`: the
struct is what the members of the cluster that ran have made of it (`HeldAfter`). The
fields that were left are named by the path of the one at hand (`Past`: those before
it in some struct around it, and those around it); the lemmas on prefixes and on
`Left` show that each turn of the loop adds just the field that it is about, and that
at the end no field is outside. From this, the last action with an address of
a leaf is the innermost field's last one (`Acted` again), and at most one field around
a leaf is filled, since whoever is filled is not opened. `InOrder`, which numbers the actions of
one type, needs that a finite set of numbers can be listed (`Enumeration`).

`DebugLock_proofs`, from `DebugLockAssumption` (the sets are sets of collections,
`None` is none of the other values), for any nesting of Binds in `ReplaceSelf`
functions:

| theorem | property | hypothesis |
|---|---|---|
| `CapturesAlone` | `CaptureAlone` | |
| `LocksReleased` | `LockBalanced` | |

`CaptureAlone` is not inductive: that a capture finds no reader and a clear flag
depends on who announced itself. `IInv` (theorem `CaptureInvariant`) has
`OneWriter` (one call of one goroutine is between `Announce` and `Unlock`, the
one `pending` names), `WriterHolds` (`debug` is set exactly while that call is
past `Lock`), `Excluded` (nobody reads then), `Counted` (read locks are those of
the calls under way) and `Nesting` (a call that another is nested in stays in
`ReplaceSelf`, so that returning leads back there). The proof of `LockInv` also
shows that the return of "already capturing" (debug.go:61), which would keep the
lock, is never reached: `Lock` does not find `debug` set. `HoldingsKept` covers the five steps that leave the lock alone.

Arguments over data of any length (a chain of providers that pass a type on, the
least place that fails, the largest of a set of places) are made with the
well-foundedness of the naturals: a set of counterexamples has a least element
(`NatMin` and its kind), and that one is refuted. Recursive definitions are
avoided for that reason: `Kept` and `Placeable` are least closed sets and
`LackedTo` is a quantified formula.

Only model-checked:

* liveness under fairness (`CallsEnd`, `InvocationsEnd`, `EveryCallReturns`,
  `EveryBindReturns`, `BindReturns`, `Ends`), which needs ENABLED;
* `KeysHashable`, whose checks are recursive over the structure of types and
  values, with no bound by which a counterexample could be made the least;
* `NoDeadweight` and `ClusterTogether`, which hold of the instances of the run but
  not of all chains (section 7), and whose hypotheses are not known in a form
  that is simpler than the algorithm;
* `Condensable`, that two ways of matching on two orders of providers agree, which
  holds of the collections of the run but not of all (section 7).

## 7. Known divergences

Where documentation and code part, the code is modelled as it is. Three
divergences have a run that shows them:

* `fallible_memo_first`: removing the TerminalError with `append` changes the
  slice that the cacher remembers (`generate.go:290`); the next caller gets its
  values out of place (`doc.go:167` allows the error anywhere).
* `bind_nested`: a `ReplaceSelf` function that binds or condenses deadlocks with
  a goroutine whose Bind failed (`api.go:469`, `debug.go:56`). If the outer Bind
  itself fails and `ReplaceSelf` is called again, one goroutine is enough: its
  capture holds the write side then.
* `condense_returns`: `UpFlows` walks the collection forwards (`flows.go:74`)
  although returned values flow from its end. What a wrapper receives is
  unresolved when the wrapper is met and stays so: middleware that receives an
  error and returns it takes the error out of what the condensed provider returns
  (`condense.go:62`; `condense.go:20-22` says that it is returned).

The passing runs restrict their inputs where the following ones, seen with the
same modules on other instances, would break a property:

* `Cache`: for a nil interface `fillKeyFromInputs` leaves an element that equals
  the one for `""` (`cache.go:185`), so the two share an answer; `cache`
  has nil but not `""` (`KeysTellApart`).
* `RunChain`: after a second call of `inner()` the values a wrapper returns go
  into the copy, which its caller does not read (`generate.go:222`;
  `api.go:381-382`). `ChainSpec` leaves the returned values of such a wrapper
  open.
* `StaticSet`: the error of a fallible static injector is zeroed with the outputs
  of the providers after it when one of those returns an error too (`bind.go:157`,
  `generate.go:376`; `doc.go:190-192` says that it is returned); `static` has one
  that may fail in each chain. Outputs of excluded static providers are zeroed too when an
  earlier one fails (`bind.go:155`). A literal is stored before the static chain
  runs, so that a static provider above it wins (`bind.go:302`;
  `doc.go:350-351`). A second call of init does not run the static set again
  (`bind.go:348`; `doc.go:93-94` says that it does). `static` has neither
  excluded providers nor such literals; of the theorems, `LiteralsAreFirst` and
  `ErrorsAreLast` exclude such literals and such errors.
* `Include`: one member of a cluster can be excluded by a try of a provider
  that only this member needs (`include.go:180`; `api.go:69-71` says that they
  are included or excluded as a group); nothing is pruned after the tries, so a shunned provider that is
  dropped leaves its sources behind (`include.go:178`); a desired member goes
  with its cluster (`include.go:257`); when the closest provider of a type is
  excluded, an interface can match another type in the final pass and "internal
  error: uh oh #2" is reached (`match.go:28`, `include.go:213-216`); a provider
  that takes and gives on a type counts as its consumer (`include.go:401`
  computes what would be needed and does not use it; `api.go:247-249`); one
  `ConsumptionOptional` lifts the rule for all returns (`include.go:83`). Of the
  hypotheses of the theorems, `MatchedOneWay` excludes the match that moves to
  another type, `DesiredPlainly` the desired provider that is shunned too, or in a
  cluster. Of two candidates for an
  interface that are alike in all else the one with the higher type code is taken
  (`match.go:41-49`, `76`; "Lowest typeCode value", `match.go:66`).
* `Wire`: when the first provider is the one of `Unused` values, the index of the
  invoke function points one place too early (`bind.go:55`, `86`), and what the
  last static provider hands only to the init function gets no slot: Bind fails
  with "not provided by any static group injectors" (`bind.go:155`, `166`). The
  same error meets an init function that returns an interface which a `Loose`
  provider is matched with, since it is looked up in `downRmap` and not in
  `bypassRmap` (`bind.go:161-165`). A `Loose` provider of a type and one that is
  not share a slot, so that an input that was matched with the first can read
  the value of the second (`bind.go:428`, `match.go:99-109`). A return of an
  excluded provider counts as overridden, and Bind refuses a chain in which it is
  not there (`shadowing.go:7`). A return of a type that the provider also receives
  does not count (`shadowing.go:14-16`): if a wrapper receives an interface from a `Loose`
  provider of another type and returns the interface, then a wrapper above it that
  returns the interface without receiving it overrides that in silence
  (`api.go:409` says that such chains are rejected); `PassedOnIsReturned` excludes
  it, and the conditions of `Wireable` the others. The instances have providers of a type that are all
  `Loose` or none, no type with a literal and a static provider, and no `Unused`
  or `Loose` below an init function.
* `Condense`: the net inputs have what only unused providers of the collection
  need (`condense.go:11-13` says that they are what the last function requires).
  Static providers move before wrappers when the collection is characterized, so
  that they may find another source (`condense.go:51-58`). The mark that the last
  provider is required stays on it in every other collection that holds it
  (`condense.go:36`). What is static is decided on the types as they are written:
  a `Cacheable` provider that asks for an interface which a `Loose` provider of
  the RUN set is matched with becomes static and loses its source
  (`nject.go:256-266`; `doc.go:122-127`). `DownFlows` of a collection that was not
  characterized takes TerminalError for no type at all, of one that was for
  `error` if the injector is static (`flows.go:51-66`). A collection whose wrappers
  receive what nothing in it returns cannot be condensed; `Condensable` exempts
  them.
* `MapKey`: an array is taken for a key without a look at its elements
  (`cache.go:26-31`), and an array inside of an interface too: if an interface
  in it holds a slice, the map panics. Memoized injectors of the RUN set are not
  tested for map keys and get no check function (`characterize.go:393-476`;
  `doc.go:153` says that none of the inputs may be a map, slice or function).
  Channels, which Go can hash, are refused (`cache.go:33-35`). The instances have
  no arrays, and `KeysHashable` is about the static set.
* `Filler`: a later action with `WithFill(true)` fills a field that is marked
  `nofill` (`filler.go:229-231`; `filler.go:128-130` says that `nofill`
  overrides defaults set with post-actions). After `-` or `skip`, actions of
  later words of the tag are dropped (`filler.go:220`; `filler.go:124-126` says
  that `PostActionByTag` would still apply). `ReadWord`, `PassAction` and
  `AddAction` do what the code does; `StructAsAsked` and `ActionsInOrder` say
  what the documentation says, and these two cases are excluded from the run and
  the theorems by `NofillStands` and `SkipLast`. Where the documentation does
  not say which of several words or actions counts, the properties take the last
  one, as the code does: `fill` after `skip`, and an action that takes a pointer
  after one with `WithFill(true)`. A tag action that takes the value leaves the
  field to be filled, as `filler_api.go:182-185` and the examples say
  (`example_postaction_test.go:27-44`, `example_postaction2_test.go:28-54`);
  `filler.go:132-135` speaks of any tag action. `MatchToOpenInterface(true)`
  always fails, as it leaves the score at "no match" (`filler.go:476-493`).
  Actions of the fields inside of a struct that is not filled are never met. The
  word `field` is reserved and documented (`filler.go:121`) but refused
  (`filler.go:260`). Of several parameters that are interfaces the one with the
  fewest methods is taken (`filler.go:460`), so `any` before a closer one, and
  it is handed the value, not its address. The test for a function as first
  field looks at the outermost struct only (`filler.go:191`).
* `Reorder`: a return that is `ConsumptionOptional`, in a chain with a provider
  marked `Reorder`, makes `Bind` panic: it is to be a weak relationship with the
  node of a type, and those have no map for it (`reorder.go:186`, `207-212`,
  `220`; "types only have strong relationships", `reorder.go:292`).
  `PanicOnWeakType` is that step. One wrapper in the menu of `reorder` has such
  a return, and the step fires for the chains with it; `InputsFirst` and
  `AllThatCan` speak of chains that were put in order and say nothing of these.
  A provider with unmet wishes waits in a heap of its own, and stays there when
  its wishes are met (`reorder.go:314`). It can then be placed after a consumer
  of its output although another order would satisfy all wishes: invoke provides
  a, b and e, and the providers marked `Reorder` take a; take b and provide a;
  take e and provide b (`reorder.go:8-10`). Providers that pass a type through
  may change their order when they have other inputs (`reorder.go:12-15`). A
  literal marked `Reorder` comes after nothing, is never put in a heap, and so
  goes behind the final function, marked as excluded (`reorder.go:342`);
  validation clears that mark (`include.go:226`). Of two providers that want
  each other first the earlier one loses its wish and the later one keeps its
  own (`reorder.go:223-232`; the loop is labelled "remove mutual weak").
* `Characterize`: the prototype "static injector" does not look at `Reorder`
  (`characterize.go:437-447`), so a `Cacheable` or `MustCache` injector that is
  marked `Reorder` is static (`reorder.go:20` says that such providers are not),
  and if it returns a TerminalError it is no longer fallible (`ReorderedApart` and
  `TerminalsApart` exclude the two). A provider that
  replaces itself by nothing makes the loop pass over the next one, and of what
  it is replaced by the first is not asked again: a generated provider at such a
  place stays and passes as a literal (`nject.go:208-240`; `filler_api.go:18-19`);
  `RegularSubstitutes` excludes both.
  If all providers are `NonFinal` the last of them is final (`api.go:367-368`).
  A memoized injector with run-time inputs is in the RUN set, as `api.go:186`
  says and `doc.go:144-145` does not.
* `Replace`: an insertion after the last provider of a collection from above it
  follows a nil link (`replace.go:181`); replacements for one target on both
  sides of it lose one (`replace.go:219`); a provider with a name that it is to
  be inserted before itself is met forever (`replace.go:162`). `PlainTargets`,
  `SameSide` and `NotAfterLast` describe what is left.
* `DebugLock`: a Bind that fails calls `ReplaceSelf` twice when it was replaced by
  none or several providers (`debug.go:69`; `filler_api.go:19-20` says once). One
  provider takes its place in the collection itself (`nject.go:232`), so that
  later Binds of that collection get what was made for the first
  (`Substitute`, `InPlace`).

## 8. Not modelled

* `newCollection` and `Append`, which copy providers into a slice, and what
  concurrent Binds of one collection share: `reorderNonFinal` and the
  `ReplaceSelf` loop write into the slice of a collection (`nject.go:204-240`),
  a data race if two goroutines bind it.
* The composition of reordering with inclusion: `MCBind` starts from chains in
  any order that reordering could leave, but without the marks "dependencies not
  met", which validation clears (`include.go:226`).
* The memoized fallible injector of the run set has only the run that shows its
  divergence.
* `Run`, `SetCallback`, the Must functions: thin callers without state.
* Error texts, debugging text, type codes: formatting, or a map under a mutex.
  `ProvideRequireGap` is the difference of two lists.

## 9. Plan

The order follows what matters most to a program that uses the library. Done:
the caches, the run set, the static set, characterization with map keys, named
replacement, reordering, the whole of `doBind` from assembly to slots, net flows
and condensing, struct fillers, and the locks of `Bind`. Left:

1. `Append`, and what concurrent Binds of one collection share.
2. `Reorder` composed with `Include`: the chain that inclusion gets, the
   exclusion mark that it clears, and what of "placed after its inputs" is left
   when providers are dropped.
3. Composition of `Cache` with `RunChain`: an invocation that uses remembered
   providers, with the table of `Memo` as the cache.

Proofs: forms of `ClusterTogether` and `NoDeadweight` that hold of all chains, and
`Condensable` for collections without wrappers.
