----------------------------- MODULE StaticSet -----------------------------
(***************************************************************************)
(* The LITERAL and STATIC sets of one bound collection (bind.go): literals *)
(* put into baseValues by Bind, the static chain run under initOnce by the *)
(* first call of the init function, or of the invoke function when there   *)
(* is no init function, and baseValues copied by every invocation.         *)
(***************************************************************************)
EXTENDS Naturals, Sequences, FiniteSets

CONSTANTS
  Threads,     \* goroutines that call the init and invoke functions
  Bindings,    \* what may have been bound
  MaxCalls     \* bound on the calls of both functions

(* binding.statics are the providers before the invoke function, in chain  *)
(* order; hasInit says whether there is an init function, initIn and       *)
(* initOut are the types of its parameters and of what it returns;         *)
(* laterTypes are those in the flows of what is included after the static  *)
(* set.                                                                    *)
VARIABLE binding
Statics == binding.statics
HasInit == binding.hasInit
InitIn == binding.initIn
InitOut == binding.initOut
LaterTypes == binding.laterTypes

Positions == DOMAIN Statics
Classes == {"literal", "static", "fallible"}
Included == {i \in Positions : Statics[i].include}
Flows == LaterTypes \cup InitIn \cup InitOut
           \cup UNION {Statics[i].in \cup Statics[i].out : i \in Included}

(* The slots of baseValues: what the static set and init put into          *)
(* downVmap, whether or not the provider is included; a type in the flows  *)
(* of nobody included is not in the map.                                   *)
Mapped(from) == Flows \cap UNION {Statics[j].out : j \in {j \in Positions : j >= from}}
Slots == Mapped(1) \cup (InitIn \cap Flows)
(* Mutants: one provider too few, one too many. *)
MustZeroLess(i) == Mapped(i + 2)
MustZeroMore(i) == Mapped(i)
MustZeroIfRemainderSkipped(i) == Mapped(i + 1)

(* Values are named by where they come from; Unset is the invalid          *)
(* reflect.Value, which input mappers read as the zero value.              *)
Made(i) == <<"made", i>>
Error(i) == <<"error", i>>
Zero == <<"zero", 0>>
Unset == <<"unset", 0>>
InitInput == <<"init", 0>>
Vals == {Zero, Unset, InitInput} \cup {Made(i) : i \in Positions} \cup {Error(i) : i \in Positions}
Read(b) == [t \in DOMAIN b |-> IF b[t] = Unset THEN Zero ELSE b[t]]
Put(b, S, x) == [t \in Slots |-> IF t \in S THEN x ELSE b[t]]

(* Mutant: a slot keeps its first value. *)
HandFirst(b, i, error) ==
  [t \in Slots |-> IF t \in Statics[i].out /\ b[t] = Unset
                   THEN IF t = "error" THEN error ELSE Made(i) ELSE b[t]]

(* What a provider hands down: its TerminalError travels as an error. *)
Terminal(i) == IF Statics[i].class = "fallible" THEN {"error"} ELSE {}
Hand(b, i, error) == Put(Put(b, Statics[i].out \ Terminal(i), Made(i)), Terminal(i), error)

ASSUME StaticSetAssumption ==
  /\ MaxCalls \in Nat
  /\ \A b \in Bindings :
       /\ b.statics \in Seq([class : Classes, include : BOOLEAN, in : SUBSET STRING, out : SUBSET STRING])
       /\ \A i \in DOMAIN b.statics :
            b.statics[i].class = "fallible" => "error" \in b.statics[i].out
       /\ b.hasInit \in BOOLEAN
       /\ ~b.hasInit => b.initIn = {} /\ b.initOut = {}
       /\ b.initOut \subseteq b.initIn \cup UNION {b.statics[i].out : i \in DOMAIN b.statics}

VARIABLES
  base,      \* baseValues
  once,      \* initOnce: "new", "running" or "done"
  pc,        \* pc[t]: where goroutine t is
  kind,      \* kind[t]: which of the two functions it called
  at,        \* position of the static chain, while it runs
  stopped,   \* how the static chain ended early: at which position, how
  ran,       \* executions of static providers, with the values they found (history)
  results,   \* what calls saw: [kind, base] (history)
  calls, inits

vars == <<binding, base, once, pc, kind, at, stopped, ran, results, calls, inits>>

NotStopped == [at |-> 0, how |-> "no"]
InChain(i) == i \in Included /\ Statics[i].class # "literal"
(* The place of the next one to run, from i on; there is just one. *)
NextIn(i) ==
  {n \in i .. Len(Statics) + 1 : /\ n = Len(Statics) + 1 \/ InChain(n)
                                 /\ \A k \in i .. n - 1 : ~InChain(k)}

(* baseValues as Bind leaves it: each literal in its slot, in chain order. *)
LastLiteral(t) ==
  {i \in Included : /\ Statics[i].class = "literal" /\ t \in Statics[i].out
                    /\ \A j \in Included : j > i /\ Statics[j].class = "literal" => t \notin Statics[j].out}
Bound ==
  [t \in Slots |-> IF LastLiteral(t) = {} THEN Unset ELSE Made(CHOOSE i \in LastLiteral(t) : TRUE)]

Init ==
  /\ binding \in Bindings
  /\ base = Bound
  /\ once = "new"
  /\ pc = [t \in Threads |-> "idle"]
  /\ kind = [t \in Threads |-> "invoke"]
  /\ at = 0
  /\ stopped = NotStopped
  /\ ran = <<>>
  /\ results = {}
  /\ calls = 0
  /\ inits = 0

(* A goroutine calls one of the functions.  With an init function, invoke  *)
(* is called only after init has returned, as SetCallback asks, and runs   *)
(* no static provider itself.                                              *)
Call(t, k) ==
  /\ pc[t] = "idle" /\ calls < MaxCalls
  /\ k = "init" => HasInit
  /\ k = "invoke" /\ HasInit => inits > 0
  /\ pc' = [pc EXCEPT ![t] = IF k = "invoke" /\ HasInit THEN "read" ELSE "once"]
  /\ kind' = [kind EXCEPT ![t] = k]
  /\ calls' = calls + 1
  /\ UNCHANGED <<binding, base, once, at, stopped, ran, results, inits>>

(* Mutant: once is not checked. *)
EnterOnceAgain(t) ==
  /\ pc[t] = "once" /\ once # "running"
  /\ once' = "running"
  /\ base' = Put(base, InitIn, InitInput)
  /\ at' \in NextIn(1)
  /\ pc' = [pc EXCEPT ![t] = "chain"]
  /\ UNCHANGED <<binding, kind, stopped, ran, results, calls, inits>>

(* initOnce.Do runs its function; that of init first does                  *)
(* outMap(baseValues, inputs).                                             *)
EnterOnce(t) ==
  /\ pc[t] = "once" /\ once = "new"
  /\ once' = "running"
  /\ base' = Put(base, InitIn, InitInput)
  /\ at' \in NextIn(1)
  /\ pc' = [pc EXCEPT ![t] = "chain"]
  /\ UNCHANGED <<binding, kind, stopped, ran, results, calls, inits>>

(* Mutant: later calls do not wait for the first. *)
SkipOnceEarly(t) ==
  /\ pc[t] = "once" /\ once # "new"
  /\ pc' = [pc EXCEPT ![t] = "read"]
  /\ UNCHANGED <<binding, base, once, kind, at, stopped, ran, results, calls, inits>>

(* initOnce.Do returns at once, after the first call of it is over. *)
SkipOnce(t) ==
  /\ pc[t] = "once" /\ once = "done"
  /\ pc' = [pc EXCEPT ![t] = "read"]
  /\ UNCHANGED <<binding, base, once, kind, at, stopped, ran, results, calls, inits>>

Meets(t, classes) ==
  /\ pc[t] = "chain" /\ at <= Len(Statics)
  /\ Statics[at].class \in classes

Execute ==
  ran' = Append(ran, [at |-> at, given |-> Read(base)])

(* wrapStaticInjector of a provider that succeeds: inMap, call, outMap. *)
RunStatic(t) ==
  /\ Meets(t, {"static", "fallible"})
  /\ Execute
  /\ base' = Hand(base, at, Zero)
  /\ at' \in NextIn(at + 1)
  /\ UNCHANGED <<binding, once, pc, kind, stopped, results, calls, inits>>

(* Mutant: a panic leaves once running. *)
LeaveRunning(t, i, how, to) ==
  /\ once' = IF how = "panic" THEN once ELSE "done"
  /\ at' = 0
  /\ stopped' = [at |-> i, how |-> how]
  /\ pc' = [pc EXCEPT ![t] = to]
Leave(t, i, how, to) ==
  /\ once' = "done"
  /\ at' = 0
  /\ stopped' = [at |-> i, how |-> how]
  /\ pc' = [pc EXCEPT ![t] = to]

(* The TerminalError of a fallible one is not nil: its outputs and the     *)
(* error are handed down, then what the rest of the static set would have  *)
(* provided is zeroed, and the chain returns.                              *)
FailStatic(t) ==
  /\ Meets(t, {"fallible"})
  /\ Execute
  /\ base' = Put(Hand(base, at, Error(at)), MustZeroIfRemainderSkipped(at), Zero)
  /\ Leave(t, at, "error", "read")
  /\ UNCHANGED <<binding, kind, results, calls, inits>>

(* A provider panics: initOnce counts as done and the caller panics. *)
PanicStatic(t) ==
  /\ Meets(t, {"static", "fallible"})
  /\ Execute
  /\ Leave(t, at, "panic", "idle")
  /\ UNCHANGED <<binding, base, kind, results, calls, inits>>

FinishChain(t) ==
  /\ pc[t] = "chain" /\ at > Len(Statics)
  /\ Leave(t, 0, "no", "read")
  /\ UNCHANGED <<binding, base, kind, ran, results, calls, inits>>

(* values := baseValues.Copy() in invoke, inMap(baseValues) in init. *)
ReadBase(t) ==
  /\ pc[t] = "read"
  /\ pc' = [pc EXCEPT ![t] = "idle"]
  /\ results' = results \cup {[kind |-> kind[t], base |-> Read(base)]}
  /\ inits' = IF kind[t] = "init" THEN inits + 1 ELSE inits
  /\ UNCHANGED <<binding, base, once, kind, at, stopped, ran, calls>>

Step(t) ==
  \/ EnterOnce(t) \/ SkipOnce(t) \/ RunStatic(t) \/ FailStatic(t)
  \/ PanicStatic(t) \/ FinishChain(t) \/ ReadBase(t)

Next == \E t \in Threads : Step(t) \/ \E k \in {"init", "invoke"} : Call(t, k)

(* A provider's function returns or panics; a goroutine is scheduled. *)
Fairness == \A t \in Threads : WF_vars(Step(t))

Spec == Init /\ [][Next]_vars /\ Fairness

-----------------------------------------------------------------------------
(* Values have their types (bind.go:299-410). *)
TypeOK ==
  /\ binding \in Bindings /\ InitOut \subseteq Slots
  /\ base \in [Slots -> Vals]
  /\ once \in {"new", "running", "done"}
  /\ pc \in [Threads -> {"idle", "once", "chain", "read"}]
  /\ kind \in [Threads -> {"init", "invoke"}]
  /\ at \in 0 .. Len(Statics) + 1
  /\ stopped \in [at : 0 .. Len(Statics), how : {"no", "error", "panic"}]
  /\ ran \in Seq([at : Included, given : [Slots -> Vals]])
  /\ results \subseteq [kind : {"init", "invoke"}, base : [Slots -> Vals \ {Unset}]]
  /\ calls \in 0 .. MaxCalls /\ inits \in Nat

(* "The static portion of the provider chain will run once" (api.go:428),  *)
(* in the order given (doc.go:87-88), whatever calls there are and however *)
(* they overlap; one goroutine runs it.                                    *)
StaticRunsOnce ==
  /\ \A m, n \in DOMAIN ran : m < n => ran[m].at < ran[n].at
  /\ \A t, u \in Threads : pc[t] = "chain" /\ pc[u] = "chain" => t = u

(* No call sees baseValues before the static chain is over, and nothing is *)
(* written to it after: all calls see the same values, and the goroutines  *)
(* of concurrent calls do not race on the slice.                           *)
SnapshotsComplete ==
  /\ \A r \in results : once = "done" /\ r.base = Read(base)
  /\ \A t \in Threads : pc[t] = "read" => once = "done"

(* "Fallible injectors need to know which types need to be zeroed if the   *)
(* remaining static injectors are skipped" (bind.go:132-135): after an     *)
(* error no call is handed a value for what the skipped ones provide.      *)
SkippedAreZero ==
  stopped.how = "error" =>
    \A j \in Included, r \in results :
      j > stopped.at => \A t \in Statics[j].out \cap Slots : r.base[t] = Zero

(* "the value returned by the fallible injector will be returned via init  *)
(* function" (doc.go:191-192).                                             *)
ErrorReported ==
  stopped.how = "error" /\ "error" \in InitOut =>
    \A r \in results : r.kind = "init" => r.base["error"] = Error(stopped.at)

(* "When there are multiple providers of a type, Bind() tries to get it    *)
(* from the closest provider" (doc.go:350-351): what a static provider is  *)
(* given, and what an invocation finds after a complete static chain, are  *)
(* the values of the last included provider above it.                      *)
Above(i, t) == {j \in Included : j < i /\ t \in Statics[j].out}
IsFrom(j, t, x) == x = IF t = "error" /\ Statics[j].class = "fallible" THEN Zero ELSE Made(j)
FromClosest(i, t, x) ==
  Above(i, t) # {} => \E j \in Above(i, t) : (\A k \in Above(i, t) : k <= j) /\ IsFrom(j, t, x)
ClosestProvider ==
  /\ \A n \in DOMAIN ran : \A t \in Statics[ran[n].at].in \cap Slots : FromClosest(ran[n].at, t, ran[n].given[t])
  /\ stopped.how = "no" =>
       \A r \in results : \A t \in Slots : FromClosest(Len(Statics) + 1, t, r.base[t])

(* Waiting for initOnce ends: every call returns or panics. *)
EveryCallReturns == \A t \in Threads : pc[t] # "idle" ~> pc[t] = "idle"
=============================================================================
