----------------------------- MODULE RunChain -----------------------------
(***************************************************************************)
(* Running the RUN chain the way generate.go and bind.go do: every task    *)
(* works on a value collection, a slice of slots for down and up values    *)
(* that callers and callees share, and that is copied only where the code  *)
(* copies it: by the invoke function, on entry to a wrapper, and for the   *)
(* calls of inner() after the first one (all of them under Parallel).      *)
(***************************************************************************)
EXTENDS ChainDefs, FiniteSets

CONSTANTS
  MaxInvokes(_),  \* bound on the invocations of a bound collection
  MaxInner,    \* bound on the calls of inner() by one wrapper run
  MaxPanics    \* bound on the panics raised by providers

ASSUME PanicsAssumption == MaxPanics \in Nat

VARIABLES
  heap,        \* the value collections; heap[1] is baseValues
  tasks,       \* executions of (the rest of) the chain, each with
               \*   arg: the collection its caller passed,
               \*   v: the variable v of wrapWrapper, snap: its vCopy
  panics

vars == <<binding, heap, tasks, panics>>

Phases == {"run", "body", "done", "panicked", "gone"}
Collections == [down : Envs, up : Ups]
Tasks == [parent : Nat, at : Providers, phase : Phases, calls : Nat,
          arg : Nat, v : Nat, snap : Nat]

Init ==
  /\ binding \in Bindings
  /\ heap = <<[down |-> BaseEnv, up |-> [t \in UpTypes |-> Unset]]>>
  /\ tasks = <<>>
  /\ panics = 0

NewRef == Len(heap) + 1
Down(v, S, x) == [v EXCEPT !.down = Put(@, S, x)]
Up(v, S, x) == [v EXCEPT !.up = Put(@, S, x)]
NewTask(parent, at, ref) ==
  [parent |-> parent, at |-> at, phase |-> "run", calls |-> 0, arg |-> ref, v |-> ref, snap |-> 0]

Active(k) == \E c \in DOMAIN tasks : tasks[c].parent = k /\ tasks[c].phase # "gone"
IsA(k, phase, class) == tasks[k].phase = phase /\ Chain[tasks[k].at].class \in class
Roots == {k \in DOMAIN tasks : tasks[k].parent = 0}

(* invokeImpl: values := baseValues.Copy(); outMap(values, inputs); f(values). *)
Invoke ==
  /\ Cardinality(Roots) < MaxInvokes(binding)
  /\ heap' = Append(heap, Down(heap[1], InvokeOut, Input(Len(tasks) + 1)))
  /\ tasks' = Append(tasks, NewTask(0, 1, NewRef))
  /\ UNCHANGED panics

-----------------------------------------------------------------------------
(* wrapFallibleInjector of an injector, and of a fallible one whose        *)
(* TerminalError is nil: the outputs go into their slots.                  *)
Inject(k) ==
  LET i == tasks[k].at IN
  /\ IsA(k, "run", {"injector", "fallible"})
  /\ heap' = [heap EXCEPT ![tasks[k].v] = Down(@, Chain[i].out, Made(i, k, 0))]
  /\ tasks' = [tasks EXCEPT ![k].at = i + 1]
  /\ UNCHANGED panics

(* The TerminalError is not nil: everything that the rest of the chain     *)
(* would have returned is zeroed, the error is the error returned, and the *)
(* loop over injectors returns.                                            *)
InjectError(k) ==
  LET i == tasks[k].at IN
  /\ IsA(k, "run", {"fallible"})
  /\ heap' = [heap EXCEPT ![tasks[k].v] =
                Up(Up(@, MustZeroIfInnerNotCalled(i), Zero), {"error"}, Made(i, k, 0))]
  /\ tasks' = [tasks EXCEPT ![k].phase = "done"]
  /\ UNCHANGED panics

(* wrapEndpoint. *)
Final(k) ==
  LET i == tasks[k].at IN
  /\ IsA(k, "run", {"final"})
  /\ heap' = [heap EXCEPT ![tasks[k].v] = Up(@, Chain[i].ret, Made(i, k, 0))]
  /\ tasks' = [tasks EXCEPT ![k].phase = "done"]
  /\ UNCHANGED panics

(* Mutant: vCopy is v. *)
EnterWrapperUncopied(k) ==
  /\ IsA(k, "run", {"wrapper"})
  /\ tasks' = [tasks EXCEPT ![k].phase = "body", ![k].snap = tasks[k].v]
  /\ UNCHANGED <<heap, panics>>

(* wrapWrapper is entered: vCopy := v.Copy(). *)
EnterWrapper(k) ==
  /\ IsA(k, "run", {"wrapper"})
  /\ heap' = Append(heap, heap[tasks[k].v])
  /\ tasks' = [tasks EXCEPT ![k].phase = "body", ![k].snap = NewRef]
  /\ UNCHANGED panics

(* Mutant: no call of inner() works on a copy. *)
CallInnerUncopied(k) ==
  LET i == tasks[k].at
      n == tasks[k].calls + 1
  IN /\ IsA(k, "body", {"wrapper"})
     /\ n <= MaxInner
     /\ Chain[i].parallel \/ ~Active(k)
     /\ heap' = [heap EXCEPT ![tasks[k].v] = Down(@, Chain[i].out, Made(i, k, n))]
     /\ tasks' = Append([tasks EXCEPT ![k].calls = n], NewTask(k, i + 1, tasks[k].v))
     /\ UNCHANGED panics

(* inner(): the first call works on the caller's own collection, a later   *)
(* one first makes v a fresh copy of vCopy; under Parallel every call      *)
(* works on a copy and v stays.  Then outMap(v, i); next(v).               *)
CallInner(k) ==
  LET i == tasks[k].at
      n == tasks[k].calls + 1
      Args(v) == Down(v, Chain[i].out, Made(i, k, n))
      fresh == Chain[i].parallel \/ n > 1
      ref == IF fresh THEN NewRef ELSE tasks[k].v
  IN /\ IsA(k, "body", {"wrapper"})
     /\ n <= MaxInner
     /\ Chain[i].parallel \/ ~Active(k)
     /\ heap' = IF fresh THEN Append(heap, Args(heap[tasks[k].snap]))
                ELSE [heap EXCEPT ![ref] = Args(@)]
     /\ tasks' = Append([tasks EXCEPT ![k].calls = n,
                                      ![k].v = IF Chain[i].parallel THEN @ ELSE ref],
                        NewTask(k, i + 1, ref))
     /\ UNCHANGED panics

(* Mutant: a panic does not reach the caller. *)
CollectReturns(c) ==
  /\ tasks[c].phase = "done"
  /\ tasks' = [tasks EXCEPT ![c].phase = "gone"]
  /\ UNCHANGED <<heap, panics>>

(* next(v) is over: inner() reads its results with retMap, or the panic    *)
(* enters the wrapper; for an invocation inMap(values) reads the results.  *)
Collect(c) ==
  /\ tasks[c].phase \in {"done", "panicked"}
  /\ tasks' = [tasks EXCEPT ![c].phase = "gone"]
  /\ UNCHANGED <<heap, panics>>

(* The wrapper's function returns, having waited for the inner() calls it  *)
(* made: zero(v) if there were none, then upMap(v, out).                   *)
WrapperReturn(k) ==
  LET i == tasks[k].at
      Zeroed(v) == IF tasks[k].calls = 0 THEN Up(v, MustZeroIfInnerNotCalled(i), Zero) ELSE v
  IN /\ IsA(k, "body", {"wrapper"})
     /\ ~Active(k)
     /\ heap' = [heap EXCEPT ![tasks[k].v] = Up(Zeroed(@), Chain[i].ret, Made(i, k, 0))]
     /\ tasks' = [tasks EXCEPT ![k].phase = "done"]
     /\ UNCHANGED panics

(* The wrapper's function panics, or lets a panic of inner() through: the  *)
(* deferred function does zero(v) and panics again.                        *)
WrapperPanic(k) ==
  LET i == tasks[k].at IN
  /\ IsA(k, "body", {"wrapper"})
  /\ ~Active(k)
  /\ panics < MaxPanics
  /\ heap' = [heap EXCEPT ![tasks[k].v] = Up(@, MustZeroIfInnerNotCalled(i), Zero)]
  /\ tasks' = [tasks EXCEPT ![k].phase = "panicked"]
  /\ panics' = panics + 1

(* Any other provider's function panics; nothing is written. *)
Panic(k) ==
  /\ IsA(k, "run", {"injector", "fallible", "final"})
  /\ panics < MaxPanics
  /\ tasks' = [tasks EXCEPT ![k].phase = "panicked"]
  /\ panics' = panics + 1
  /\ UNCHANGED heap

Step(k) ==
  \/ Inject(k) \/ InjectError(k) \/ Final(k) \/ EnterWrapper(k) \/ CallInner(k)
  \/ Collect(k) \/ WrapperReturn(k) \/ WrapperPanic(k) \/ Panic(k)

Next == (Invoke \/ \E k \in DOMAIN tasks : Step(k)) /\ UNCHANGED binding

(* Providers' functions and goroutines are not stopped. *)
Fairness == WF_vars((\E k \in DOMAIN tasks : Step(k)) /\ UNCHANGED binding)

Spec == Init /\ [][Next]_vars /\ Fairness

-----------------------------------------------------------------------------
(* Values have their types (generate.go:9-23). *)
TypeOK ==
  /\ heap \in Seq(Collections)
  /\ tasks \in Seq(Tasks)
  /\ \A k \in DOMAIN tasks : tasks[k].v \in DOMAIN heap /\ tasks[k].arg \in DOMAIN heap
  /\ panics \in 0 .. MaxPanics

(* "for thread safety" (generate.go:209): tasks that can both take a step, *)
(* in goroutines of a Parallel wrapper or of different invocations, work   *)
(* on different collections, and none on baseValues or on the copy a       *)
(* wrapper keeps for its next call of inner().                             *)
Running(k) ==
  \/ tasks[k].phase \in {"run", "done"}
  \/ tasks[k].phase = "body" /\ ~Active(k)
RaceFree ==
  \A j, k \in DOMAIN tasks :
    Running(j) =>
      /\ tasks[j].v # 1
      /\ tasks[k].phase = "body" => tasks[j].v # tasks[k].snap
      /\ Running(k) /\ j # k => tasks[j].v # tasks[k].v

(* Every invocation ends: the goroutines of a chain never wait for one     *)
(* another in a circle.                                                    *)
InvocationsEnd == (tasks # <<>>) ~> (\A k \in DOMAIN tasks : tasks[k].phase = "gone")

(* The collections implement the meaning of a chain given by ChainSpec.    *)
UpOf(ref) == [t \in UpTypes |-> Read(heap[ref].up[t])]
AbstractEnv(k) ==
  IF tasks[k].phase = "run" THEN heap[tasks[k].v].down
  ELSE IF tasks[k].phase = "body" THEN heap[tasks[k].snap].down
  ELSE [t \in DownTypes |-> Unset]
Settled(k) ==
  tasks[k].phase = "body" /\ tasks[k].calls > 0 /\ ~Chain[tasks[k].at].parallel /\ ~Active(k)
AbstractLast(k) == IF Settled(k) THEN UpOf(tasks[k].v) ELSE AllZero
AbstractUp(k) == IF tasks[k].phase \in {"done", "panicked"} THEN UpOf(tasks[k].arg) ELSE AllZero
AbstractTask(k) ==
  [parent |-> tasks[k].parent, at |-> tasks[k].at, phase |-> tasks[k].phase, calls |-> tasks[k].calls,
   env |-> AbstractEnv(k), last |-> AbstractLast(k), up |-> AbstractUp(k)]
AbstractTasks == [k \in DOMAIN tasks |-> AbstractTask(k)]

S == INSTANCE ChainSpec WITH tasks <- AbstractTasks
ChainMeaning == S!Spec
=============================================================================
