-------------------------- MODULE RunChain_proofs --------------------------
(***************************************************************************)
(* Proofs about RunChain.tla, for any chain and any number of invocations  *)
(* and calls of inner(): that value collections are shared only between a  *)
(* task and those that wait for it, and that running a chain on shared     *)
(* collections implements the meaning of chains that ChainSpec gives.      *)
(***************************************************************************)
EXTENDS RunChain, TLAPS

Live(k) == tasks[k].phase # "gone"

(* A task has a caller that is inside its wrapper, and a collection other  *)
(* than baseValues; no task works on the copy that a wrapper keeps.        *)
Linked ==
  /\ 1 \in DOMAIN heap
  /\ \A k \in DOMAIN tasks : Live(k) =>
       /\ tasks[k].v # 1
       /\ tasks[k].parent # 0 => tasks[k].parent < k /\ tasks[tasks[k].parent].phase = "body"
       /\ tasks[k].phase = "body" =>
            /\ tasks[k].snap \in DOMAIN heap
            /\ \A j \in DOMAIN tasks : Live(j) => tasks[j].v # tasks[k].snap

(* Of two tasks on one collection, the later one was called by the earlier *)
(* one or by a later task on the same collection, and the earlier one has  *)
(* a call on that collection that is not over.                             *)
CalledOn(j, k) == tasks[k].parent >= j /\ tasks[tasks[k].parent].v = tasks[k].v
WaitsOn(j) == \E c \in DOMAIN tasks : Live(c) /\ tasks[c].parent = j /\ tasks[c].v = tasks[j].v
Sharing ==
  \A j, k \in DOMAIN tasks :
    Live(j) /\ Live(k) /\ j < k /\ tasks[j].v = tasks[k].v => CalledOn(j, k) /\ WaitsOn(j)

IInv == TypeOK /\ binding \in Bindings /\ Linked /\ Sharing

-----------------------------------------------------------------------------
(* What the mappers store are values, and a collection with values stored  *)
(* in some slots is a collection.                                          *)
LEMMA Stored ==
  ASSUME NEW v \in Collections, NEW T, NEW x \in Vals
  PROVE  Down(v, T, x) \in Collections /\ Up(v, T, x) \in Collections
<1>1. v.down \in Envs /\ v.up \in Ups
  BY DEF Collections
<1>2. Put(v.down, T, x) \in Envs /\ Put(v.up, T, x) \in Ups
  BY <1>1 DEF Put, Envs, Ups
<1> QED
  BY <1>2 DEF Down, Up, Collections

LEMMA Values ==
  /\ \A i, k, n \in Nat : Made(i, k, n) \in Vals
  /\ \A k \in Nat : Input(k) \in Vals
  /\ Zero \in Vals /\ Unset \in Vals /\ Static \in Vals
BY DEF Made, Input, Zero, Unset, Static, Vals

LEMMA SameTypes ==
  ASSUME UNCHANGED binding
  PROVE  Collections' = Collections /\ Providers' = Providers /\ Tasks' = Tasks
BY DEF Collections, Envs, Ups, DownTypes, UpTypes, BaseOut, Chain, Providers, Tasks, Phases

(* Only the final function is the last one of the chain.                   *)
LEMMA ChainShape ==
  ASSUME binding \in Bindings
  PROVE  /\ Providers = 1 .. Len(Chain) /\ Len(Chain) \in Nat \ {0}
         /\ \A i \in Providers : Chain[i].class # "final" => i + 1 \in Providers
<1>1. /\ Chain \in Seq(ChainRecords(TypesOf(Chain))) /\ Len(Chain) > 0
      /\ \A i \in DOMAIN Chain : Chain[i].class = "final" <=> i = Len(Chain)
  BY ChainAssumption DEF Chain
<1>2. Providers = 1 .. Len(Chain) /\ Len(Chain) \in Nat
  BY <1>1 DEF Providers
<1> QED
  BY <1>1, <1>2 DEF Providers

(* Fields of a task, and the collection it works on.                       *)
LEMMA TaskTypes ==
  ASSUME TypeOK, NEW k \in DOMAIN tasks
  PROVE  /\ k \in Nat /\ tasks[k] \in Tasks /\ tasks[k].at \in Providers
         /\ tasks[k].v \in DOMAIN heap /\ heap[tasks[k].v] \in Collections
         /\ tasks[k].calls \in Nat /\ tasks[k].parent \in Nat /\ tasks[k].phase \in Phases
<1>1. k \in Nat /\ tasks[k] \in Tasks /\ tasks[k].v \in DOMAIN heap /\ heap \in Seq(Collections)
  BY DEF TypeOK
<1>2. /\ tasks[k].at \in Providers /\ tasks[k].calls \in Nat /\ tasks[k].parent \in Nat
      /\ tasks[k].phase \in Phases
  BY <1>1 DEF Tasks
<1> QED
  BY <1>1, <1>2

LEMMA InitInv == Init => IInv
<1> SUFFICES ASSUME Init PROVE IInv
  OBVIOUS
<1>1. [down |-> BaseEnv, up |-> [t \in UpTypes |-> Unset]] \in Collections
  BY Values DEF BaseEnv, Collections, Envs, Ups
<1>2. TypeOK
  BY <1>1, PanicsAssumption DEF Init, TypeOK
<1>3. Linked /\ Sharing
  BY DEF Init, Linked, Sharing
<1> QED
  BY <1>2, <1>3 DEF IInv, Init

-----------------------------------------------------------------------------
(* A step of task k that writes to its collection and stays on it.         *)
LEMMA StayTyped ==
  ASSUME TypeOK, UNCHANGED binding, NEW k \in DOMAIN tasks,
         NEW v \in Collections, heap' \in {heap, [heap EXCEPT ![tasks[k].v] = v]},
         NEW T \in Tasks, T.v = tasks[k].v, T.arg = tasks[k].arg,
         tasks' = [tasks EXCEPT ![k] = T], panics' \in 0 .. MaxPanics
  PROVE  TypeOK' /\ DOMAIN tasks' = DOMAIN tasks /\ DOMAIN heap' = DOMAIN heap
<1>1. heap \in Seq(Collections) /\ tasks \in Seq(Tasks)
  BY DEF TypeOK
<1>2. heap' \in Seq(Collections) /\ DOMAIN heap' = DOMAIN heap
  BY <1>1
<1>3. tasks' \in Seq(Tasks) /\ DOMAIN tasks' = DOMAIN tasks
  BY <1>1
<1>4. \A j \in DOMAIN tasks : tasks'[j].v = tasks[j].v /\ tasks'[j].arg = tasks[j].arg
  BY <1>1
<1> QED
  BY <1>2, <1>3, <1>4, SameTypes DEF TypeOK

(* A task that nobody waits inside of, and that does not enter a wrapper,  *)
(* leaves who works on which collection as it is, or is over.              *)
LEMMA StayShared ==
  ASSUME IInv, NEW k \in DOMAIN tasks, DOMAIN tasks' = DOMAIN tasks, DOMAIN heap' = DOMAIN heap,
         \A m \in DOMAIN tasks : tasks'[m].v = tasks[m].v /\ tasks'[m].parent = tasks[m].parent,
         \A m \in DOMAIN tasks \ {k} : tasks'[m] = tasks[m],
         \A c \in DOMAIN tasks : tasks[c].parent = k => ~Live(c),
         Live(k), tasks'[k].phase # "body"
  PROVE  Linked' /\ Sharing'
<1> DEFINE N == DOMAIN tasks
<1>1. \A m \in N : /\ m \in Nat \ {0} /\ tasks[m].parent \in Nat
                   /\ (tasks[m].parent # 0 /\ Live(m)) => tasks[m].parent \in N \ {k}
  <2> SUFFICES ASSUME NEW m \in N
               PROVE  /\ m \in Nat \ {0} /\ tasks[m].parent \in Nat
                      /\ (tasks[m].parent # 0 /\ Live(m)) => tasks[m].parent \in N \ {k}
    OBVIOUS
  <2>1. m \in Nat /\ tasks[m].parent \in Nat
    BY TaskTypes DEF IInv
  <2>2. N = 1 .. Len(tasks) /\ Len(tasks) \in Nat
    BY DEF IInv, TypeOK
  <2> QED
    BY <2>1, <2>2 DEF IInv, Linked
<1>2. \A m \in N : Live(m)' => Live(m)
  BY DEF Live
<1>3. Linked'
  <2> SUFFICES ASSUME NEW m \in N, Live(m)'
               PROVE  /\ tasks'[m].v # 1
                      /\ tasks'[m].parent # 0 => /\ tasks'[m].parent < m
                                                 /\ tasks'[tasks'[m].parent].phase = "body"
                      /\ tasks'[m].phase = "body" =>
                           /\ tasks'[m].snap \in DOMAIN heap'
                           /\ \A j \in N : Live(j)' => tasks'[j].v # tasks'[m].snap
    BY DEF Linked, IInv
  <2>1. Live(m)
    BY <1>2
  <2>2. tasks'[m].v # 1
    BY <2>1 DEF IInv, Linked
  <2>3. tasks'[m].parent # 0 => /\ tasks'[m].parent < m
                                /\ tasks'[tasks'[m].parent].phase = "body"
    BY <1>1, <2>1 DEF IInv, Linked
  <2>4. ASSUME tasks'[m].phase = "body"
        PROVE  /\ tasks'[m].snap \in DOMAIN heap'
               /\ \A j \in N : Live(j)' => tasks'[j].v # tasks'[m].snap
    BY <1>2, <2>1, <2>4 DEF IInv, Linked
  <2> QED
    BY <2>2, <2>3, <2>4
<1>4. ASSUME NEW j \in N, NEW m \in N, Live(j)', Live(m)', j < m, tasks'[j].v = tasks'[m].v
      PROVE  CalledOn(j, m)' /\ WaitsOn(j)'
  <2>1. Live(j) /\ Live(m) /\ tasks[j].v = tasks[m].v
    BY <1>2, <1>4
  <2>2. CalledOn(j, m) /\ WaitsOn(j)
    BY <1>4, <2>1 DEF IInv, Sharing
  <2>3. tasks[m].parent # 0 /\ tasks[m].parent \in N
    BY <1>1, <2>1, <2>2 DEF CalledOn
  <2>4. CalledOn(j, m)'
    BY <2>2, <2>3 DEF CalledOn
  <2>5. PICK c \in N : Live(c) /\ tasks[c].parent = j /\ tasks[c].v = tasks[j].v
    BY <2>2 DEF WaitsOn
  <2>6. CASE Live(c)'
    BY <2>4, <2>5, <2>6 DEF WaitsOn
  <2>7. CASE ~Live(c)'
    <3>1. c = k /\ m # k
      BY <1>4, <2>5, <2>7 DEF Live
    <3>2. CASE m < k
      <4>1. CalledOn(m, k)
        BY <2>1, <2>5, <3>1, <3>2 DEF IInv, Sharing
      <4> QED
        BY <1>1, <1>4, <2>5, <3>1, <4>1 DEF CalledOn
    <3>3. CASE k < m
      <4>1. WaitsOn(k)
        BY <2>1, <2>5, <3>1, <3>3 DEF IInv, Sharing
      <4> QED
        BY <4>1 DEF WaitsOn
    <3> QED
      BY <1>1, <3>1, <3>2, <3>3
  <2> QED
    BY <2>4, <2>6, <2>7
<1>5. Sharing'
  BY <1>4 DEF Sharing
<1> QED
  BY <1>3, <1>5

(* A caller is inside its wrapper.                                         *)
LEMMA NobodyInside ==
  ASSUME IInv, NEW k \in DOMAIN tasks, tasks[k].phase # "body" \/ ~Active(k),
         NEW c \in DOMAIN tasks, tasks[c].parent = k
  PROVE  ~Live(c)
<1>1. tasks[c].parent # 0
  BY DEF IInv, TypeOK
<1> QED
  BY <1>1 DEF IInv, Linked, Active, Live

LEMMA StayInv ==
  ASSUME IInv, UNCHANGED binding, NEW k \in DOMAIN tasks,
         Live(k), tasks[k].phase # "body" \/ ~Active(k),
         NEW v \in Collections, heap' \in {heap, [heap EXCEPT ![tasks[k].v] = v]},
         NEW T \in Tasks, T.v = tasks[k].v, T.arg = tasks[k].arg, T.parent = tasks[k].parent,
         T.phase # "body", tasks' = [tasks EXCEPT ![k] = T], panics' \in 0 .. MaxPanics
  PROVE  IInv'
<1>1. TypeOK' /\ DOMAIN tasks' = DOMAIN tasks /\ DOMAIN heap' = DOMAIN heap
  BY StayTyped DEF IInv
<1>2. /\ tasks'[k] = T
      /\ \A m \in DOMAIN tasks \ {k} : tasks'[m] = tasks[m]
  OBVIOUS
<1>3. \A m \in DOMAIN tasks : tasks'[m].v = tasks[m].v /\ tasks'[m].parent = tasks[m].parent
  BY <1>2
<1>4. Linked' /\ Sharing'
  BY <1>1, <1>2, <1>3, NobodyInside, StayShared
<1> QED
  BY <1>1, <1>4 DEF IInv

(* The steps of providers other than wrappers, and the ends of all tasks.  *)
LEMMA InjectInv ==
  ASSUME IInv, UNCHANGED binding, NEW k \in DOMAIN tasks, Inject(k)
  PROVE  IInv'
<1> DEFINE i == tasks[k].at
           v == Down(heap[tasks[k].v], Chain[i].out, Made(i, k, 0))
           T == [tasks[k] EXCEPT !.at = i + 1]
<1>1. /\ tasks[k].phase = "run" /\ Chain[i].class \in {"injector", "fallible"}
      /\ heap' = [heap EXCEPT ![tasks[k].v] = v] /\ tasks' = [tasks EXCEPT ![k] = T]
      /\ panics' = panics
  BY DEF Inject, IsA
<1>2. tasks[k] \in Tasks /\ i \in Nat /\ i + 1 \in Providers
  BY <1>1, TaskTypes, ChainShape DEF IInv
<1>3. v \in Collections
  BY <1>2, TaskTypes, Stored, Values DEF IInv
<1>4. T \in Tasks /\ T.phase # "body" /\ T.v = tasks[k].v /\ T.arg = tasks[k].arg /\ T.parent = tasks[k].parent
  BY <1>1, <1>2 DEF Tasks
<1> QED
  BY <1>1, <1>3, <1>4, StayInv DEF IInv, TypeOK, Live

LEMMA PhaseTyped ==
  ASSUME NEW T \in Tasks, NEW phase \in Phases
  PROVE  LET U == [T EXCEPT !.phase = phase] IN
         U \in Tasks /\ U.phase = phase /\ U.v = T.v /\ U.arg = T.arg /\ U.parent = T.parent
BY DEF Tasks

(* A task ends, having written to its collection, or a caller collects it. *)
LEMMA EndInv ==
  ASSUME IInv, UNCHANGED binding, NEW k \in DOMAIN tasks,
         Live(k), tasks[k].phase # "body" \/ ~Active(k),
         NEW v \in Collections, heap' \in {heap, [heap EXCEPT ![tasks[k].v] = v]},
         NEW phase \in {"done", "panicked", "gone"},
         tasks' = [tasks EXCEPT ![k].phase = phase], panics' \in 0 .. MaxPanics
  PROVE  IInv'
<1> DEFINE T == [tasks[k] EXCEPT !.phase = phase]
<1>1. tasks' = [tasks EXCEPT ![k] = T]
  OBVIOUS
<1>2. T \in Tasks /\ T.phase # "body" /\ T.v = tasks[k].v /\ T.arg = tasks[k].arg /\ T.parent = tasks[k].parent
  <2>1. tasks[k] \in Tasks /\ phase \in Phases
    BY TaskTypes DEF IInv, Phases
  <2>2. LET U == [tasks[k] EXCEPT !.phase = phase] IN
        U \in Tasks /\ U.phase = phase /\ U.v = tasks[k].v /\ U.arg = tasks[k].arg /\ U.parent = tasks[k].parent
    BY <2>1, PhaseTyped
  <2> QED
    BY <2>2
<1> QED
  BY <1>1, <1>2, StayInv

LEMMA InjectErrorInv ==
  ASSUME IInv, UNCHANGED binding, NEW k \in DOMAIN tasks, InjectError(k)
  PROVE  IInv'
<1> DEFINE i == tasks[k].at
           z == Up(heap[tasks[k].v], MustZeroIfInnerNotCalled(i), Zero)
           v == Up(z, {"error"}, Made(i, k, 0))
<1>1. /\ tasks[k].phase = "run" /\ heap' = [heap EXCEPT ![tasks[k].v] = v]
      /\ tasks' = [tasks EXCEPT ![k].phase = "done"] /\ panics' = panics
  BY DEF InjectError, IsA
<1>2. i \in Nat /\ heap[tasks[k].v] \in Collections
  BY TaskTypes, ChainShape DEF IInv
<1>3. z \in Collections /\ v \in Collections
  BY <1>2, TaskTypes, Stored, Values DEF IInv
<1> QED
  BY <1>1, <1>3, EndInv DEF IInv, TypeOK, Live

LEMMA FinalInv ==
  ASSUME IInv, UNCHANGED binding, NEW k \in DOMAIN tasks, Final(k)
  PROVE  IInv'
<1> DEFINE i == tasks[k].at
           v == Up(heap[tasks[k].v], Chain[i].ret, Made(i, k, 0))
<1>1. /\ tasks[k].phase = "run" /\ heap' = [heap EXCEPT ![tasks[k].v] = v]
      /\ tasks' = [tasks EXCEPT ![k].phase = "done"] /\ panics' = panics
  BY DEF Final, IsA
<1>2. i \in Nat /\ heap[tasks[k].v] \in Collections
  BY TaskTypes, ChainShape DEF IInv
<1>3. v \in Collections
  BY <1>2, TaskTypes, Stored, Values DEF IInv
<1> QED
  BY <1>1, <1>3, EndInv DEF IInv, TypeOK, Live

LEMMA WrapperReturnInv ==
  ASSUME IInv, UNCHANGED binding, NEW k \in DOMAIN tasks, WrapperReturn(k)
  PROVE  IInv'
<1> DEFINE i == tasks[k].at
           z == IF tasks[k].calls = 0 THEN Up(heap[tasks[k].v], MustZeroIfInnerNotCalled(i), Zero)
                ELSE heap[tasks[k].v]
           v == Up(z, Chain[i].ret, Made(i, k, 0))
<1>1. /\ tasks[k].phase = "body" /\ ~Active(k) /\ heap' = [heap EXCEPT ![tasks[k].v] = v]
      /\ tasks' = [tasks EXCEPT ![k].phase = "done"] /\ panics' = panics
  BY DEF WrapperReturn, IsA
<1>2. i \in Nat /\ heap[tasks[k].v] \in Collections
  BY TaskTypes, ChainShape DEF IInv
<1>3. z \in Collections
  BY <1>2, Stored, Values
<1>4. v \in Collections
  BY <1>2, <1>3, TaskTypes, Stored, Values DEF IInv
<1> QED
  BY <1>1, <1>4, EndInv DEF IInv, TypeOK, Live

LEMMA WrapperPanicInv ==
  ASSUME IInv, UNCHANGED binding, NEW k \in DOMAIN tasks, WrapperPanic(k)
  PROVE  IInv'
<1> DEFINE v == Up(heap[tasks[k].v], MustZeroIfInnerNotCalled(tasks[k].at), Zero)
<1>1. /\ tasks[k].phase = "body" /\ ~Active(k) /\ heap' = [heap EXCEPT ![tasks[k].v] = v]
      /\ tasks' = [tasks EXCEPT ![k].phase = "panicked"] /\ panics < MaxPanics /\ panics' = panics + 1
  BY DEF WrapperPanic, IsA
<1>2. v \in Collections
  BY TaskTypes, Stored, Values DEF IInv
<1>3. panics' \in 0 .. MaxPanics
  BY <1>1, PanicsAssumption DEF IInv, TypeOK
<1> QED
  BY <1>1, <1>2, <1>3, EndInv DEF Live

LEMMA PanicInv ==
  ASSUME IInv, UNCHANGED binding, NEW k \in DOMAIN tasks, Panic(k)
  PROVE  IInv'
<1>1. /\ tasks[k].phase = "run" /\ heap' = heap
      /\ tasks' = [tasks EXCEPT ![k].phase = "panicked"] /\ panics < MaxPanics /\ panics' = panics + 1
  BY DEF Panic, IsA
<1>2. panics' \in 0 .. MaxPanics
  BY <1>1, PanicsAssumption DEF IInv, TypeOK
<1>3. heap[tasks[k].v] \in Collections
  BY TaskTypes DEF IInv
<1> QED
  BY <1>1, <1>2, <1>3, EndInv DEF Live

LEMMA CollectInv ==
  ASSUME IInv, UNCHANGED binding, NEW k \in DOMAIN tasks, Collect(k)
  PROVE  IInv'
<1>1. /\ tasks[k].phase \in {"done", "panicked"} /\ heap' = heap
      /\ tasks' = [tasks EXCEPT ![k].phase = "gone"] /\ panics' = panics
  BY DEF Collect
<1>2. heap[tasks[k].v] \in Collections
  BY TaskTypes DEF IInv
<1> QED
  BY <1>1, <1>2, EndInv DEF IInv, TypeOK, Live

-----------------------------------------------------------------------------
(* The steps that make a task or a collection: what is new is shared with  *)
(* nobody but, for the first call of inner(), with the caller.             *)
LEMMA Fresh ==
  ASSUME IInv
  PROVE  /\ NewRef \in Nat /\ NewRef \notin DOMAIN heap /\ NewRef # 1
         /\ DOMAIN heap = 1 .. Len(heap) /\ Len(heap) \in Nat
         /\ DOMAIN tasks = 1 .. Len(tasks) /\ Len(tasks) \in Nat
         /\ \A k \in DOMAIN tasks : tasks[k].v # NewRef
         /\ \A k \in DOMAIN tasks : tasks[k].phase = "body" => tasks[k].snap # NewRef
<1>1. /\ DOMAIN heap = 1 .. Len(heap) /\ Len(heap) \in Nat
      /\ DOMAIN tasks = 1 .. Len(tasks) /\ Len(tasks) \in Nat
      /\ \A k \in DOMAIN tasks : tasks[k].v \in DOMAIN heap
  BY DEF IInv, TypeOK
<1>2. NewRef \in Nat /\ NewRef \notin DOMAIN heap /\ NewRef # 1
  BY <1>1 DEF NewRef, IInv, Linked
<1>3. \A k \in DOMAIN tasks : tasks[k].phase = "body" => tasks[k].snap \in DOMAIN heap
  BY DEF IInv, Linked, Live
<1> QED
  BY <1>1, <1>2, <1>3

LEMMA NewTaskTyped ==
  ASSUME NEW parent \in Nat, NEW at \in Providers, NEW ref \in Nat
  PROVE  /\ NewTask(parent, at, ref) \in Tasks
         /\ NewTask(parent, at, ref).parent = parent
         /\ NewTask(parent, at, ref).v = ref /\ NewTask(parent, at, ref).arg = ref
         /\ NewTask(parent, at, ref).phase = "run"
BY DEF NewTask, Tasks, Phases

LEMMA CallerIsTask ==
  ASSUME IInv, NEW k \in DOMAIN tasks, Live(k), tasks[k].parent # 0
  PROVE  tasks[k].parent \in DOMAIN tasks \ {k} /\ tasks[tasks[k].parent].phase = "body"
<1>1. tasks[k].parent \in Nat /\ DOMAIN tasks = 1 .. Len(tasks) /\ Len(tasks) \in Nat
  BY TaskTypes DEF IInv, TypeOK
<1> QED
  BY <1>1 DEF IInv, Linked

LEMMA InvokeInv ==
  ASSUME IInv, UNCHANGED binding, Invoke
  PROVE  IInv'
<1> DEFINE v == Down(heap[1], InvokeOut, Input(Len(tasks) + 1))
           q == Len(tasks) + 1
           T == NewTask(0, 1, NewRef)
<1>1. heap' = Append(heap, v) /\ tasks' = Append(tasks, T) /\ panics' = panics
  BY DEF Invoke
<1>2. 1 \in Providers /\ T \in Tasks /\ T.parent = 0 /\ T.v = NewRef /\ T.arg = NewRef /\ T.phase = "run"
  <2>1. 1 \in Providers
    BY ChainShape DEF IInv
  <2> QED
    BY <2>1, NewTaskTyped, Fresh
<1>3. v \in Collections
  BY Fresh, Stored, Values DEF IInv, TypeOK, Linked
<1>4. /\ DOMAIN tasks' = DOMAIN tasks \cup {q} /\ q \notin DOMAIN tasks /\ q \in Nat \ {0}
      /\ tasks'[q] = T /\ \A k \in DOMAIN tasks : tasks'[k] = tasks[k]
      /\ DOMAIN heap' = DOMAIN heap \cup {NewRef}
  BY <1>1, Fresh DEF IInv, TypeOK, NewRef
<1>5. TypeOK'
  <2>1. heap' \in Seq(Collections) /\ tasks' \in Seq(Tasks) /\ panics' \in 0 .. MaxPanics
    BY <1>1, <1>2, <1>3 DEF IInv, TypeOK
  <2>2. \A k \in DOMAIN tasks' : tasks'[k].v \in DOMAIN heap' /\ tasks'[k].arg \in DOMAIN heap'
    BY <1>2, <1>4 DEF IInv, TypeOK
  <2> QED
    BY <2>1, <2>2, SameTypes DEF TypeOK
<1>6. Linked'
  <2> SUFFICES ASSUME NEW k \in DOMAIN tasks', Live(k)'
               PROVE  /\ tasks'[k].v # 1
                      /\ tasks'[k].parent # 0 => /\ tasks'[k].parent < k
                                                 /\ tasks'[tasks'[k].parent].phase = "body"
                      /\ tasks'[k].phase = "body" =>
                           /\ tasks'[k].snap \in DOMAIN heap'
                           /\ \A j \in DOMAIN tasks' : Live(j)' => tasks'[j].v # tasks'[k].snap
    BY <1>4 DEF Linked, IInv
  <2>1. CASE k = q
    BY <1>2, <1>4, <2>1, Fresh
  <2>2. CASE k \in DOMAIN tasks
    <3>1. Live(k) /\ tasks[k].v # 1
      BY <1>4, <2>2 DEF Live, IInv, Linked
    <3>2. tasks[k].parent # 0 => tasks[k].parent \in DOMAIN tasks
      BY <2>2, <3>1, CallerIsTask
    <3>3. tasks[k].phase = "body" => \A j \in DOMAIN tasks' : Live(j)' => tasks'[j].v # tasks[k].snap
      BY <1>2, <1>4, <2>2, <3>1, Fresh DEF Live, IInv, Linked
    <3> QED
      BY <1>4, <2>2, <3>1, <3>2, <3>3 DEF IInv, Linked
  <2> QED
    BY <1>4, <2>1, <2>2
<1>7. Sharing'
  <2> SUFFICES ASSUME NEW j \in DOMAIN tasks', NEW k \in DOMAIN tasks',
                      Live(j)', Live(k)', j < k, tasks'[j].v = tasks'[k].v
               PROVE  CalledOn(j, k)' /\ WaitsOn(j)'
    BY DEF Sharing
  <2>1. j \in DOMAIN tasks /\ k \in DOMAIN tasks
    BY <1>2, <1>4, Fresh
  <2>2. Live(j) /\ Live(k) /\ CalledOn(j, k) /\ WaitsOn(j)
    BY <1>4, <2>1 DEF IInv, Sharing, Live
  <2>3. tasks[k].parent \in DOMAIN tasks
    <3>1. j \in Nat \ {0}
      BY <2>1, Fresh
    <3>2. tasks[k].parent # 0
      BY <2>2, <3>1 DEF CalledOn
    <3> QED
      BY <2>1, <2>2, <3>2, CallerIsTask
  <2>4. CalledOn(j, k)'
    BY <1>4, <2>1, <2>2, <2>3 DEF CalledOn
  <2>5. WaitsOn(j)'
    BY <1>4, <2>1, <2>2 DEF WaitsOn, Live
  <2> QED
    BY <2>4, <2>5
<1> QED
  BY <1>5, <1>6, <1>7 DEF IInv

(* The copy that a wrapper makes on entry is nobody's collection.          *)
LEMMA EnterWrapperInv ==
  ASSUME IInv, UNCHANGED binding, NEW k \in DOMAIN tasks, EnterWrapper(k)
  PROVE  IInv'
<1> DEFINE T == [tasks[k] EXCEPT !.phase = "body", !.snap = NewRef]
<1>1. /\ tasks[k].phase = "run" /\ heap' = Append(heap, heap[tasks[k].v])
      /\ tasks' = [tasks EXCEPT ![k] = T] /\ panics' = panics
  BY DEF EnterWrapper, IsA
<1>2. tasks[k] \in Tasks /\ heap[tasks[k].v] \in Collections
  BY TaskTypes DEF IInv
<1>3. /\ T \in Tasks /\ T.phase = "body" /\ T.snap = NewRef
      /\ T.v = tasks[k].v /\ T.arg = tasks[k].arg /\ T.parent = tasks[k].parent
  BY <1>2, Fresh DEF Tasks, Phases
<1>4. /\ DOMAIN heap' = DOMAIN heap \cup {NewRef} /\ DOMAIN tasks' = DOMAIN tasks
      /\ tasks'[k] = T /\ \A m \in DOMAIN tasks \ {k} : tasks'[m] = tasks[m]
  BY <1>1, Fresh DEF IInv, TypeOK, NewRef
<1>5. \A m \in DOMAIN tasks : /\ tasks'[m].v = tasks[m].v /\ tasks'[m].arg = tasks[m].arg
                              /\ tasks'[m].parent = tasks[m].parent /\ Live(m)' = Live(m)
                              /\ tasks[m].phase = "body" => tasks'[m] = tasks[m]
  BY <1>1, <1>3, <1>4 DEF Live
<1>6. TypeOK'
  <2>1. heap' \in Seq(Collections) /\ tasks' \in Seq(Tasks) /\ panics' \in 0 .. MaxPanics
    BY <1>1, <1>2, <1>3 DEF IInv, TypeOK
  <2>2. \A m \in DOMAIN tasks' : tasks'[m].v \in DOMAIN heap' /\ tasks'[m].arg \in DOMAIN heap'
    BY <1>4, <1>5 DEF IInv, TypeOK
  <2> QED
    BY <2>1, <2>2, SameTypes DEF TypeOK
<1>7. Linked'
  <2> SUFFICES ASSUME NEW m \in DOMAIN tasks, Live(m)
               PROVE  /\ tasks'[m].v # 1
                      /\ tasks'[m].parent # 0 => /\ tasks'[m].parent < m
                                                 /\ tasks'[tasks'[m].parent].phase = "body"
                      /\ tasks'[m].phase = "body" =>
                           /\ tasks'[m].snap \in DOMAIN heap'
                           /\ \A j \in DOMAIN tasks : Live(j) => tasks'[j].v # tasks'[m].snap
    BY <1>4, <1>5 DEF Linked, IInv
  <2>1. /\ tasks'[m].v # 1
        /\ tasks'[m].parent # 0 => tasks'[m].parent < m /\ tasks'[tasks'[m].parent].phase = "body"
    BY <1>5, CallerIsTask DEF IInv, Linked
  <2>2. CASE m = k
    BY <1>3, <1>4, <1>5, <2>1, <2>2, Fresh
  <2>3. CASE m # k
    BY <1>4, <1>5, <2>1, <2>3 DEF IInv, Linked
  <2> QED
    BY <2>2, <2>3
<1>8. Sharing'
  <2> SUFFICES ASSUME NEW j \in DOMAIN tasks, NEW m \in DOMAIN tasks,
                      Live(j), Live(m), j < m, tasks[j].v = tasks[m].v
               PROVE  CalledOn(j, m)' /\ WaitsOn(j)'
    BY <1>4, <1>5 DEF Sharing
  <2>1. CalledOn(j, m) /\ WaitsOn(j)
    BY DEF IInv, Sharing
  <2>2. tasks[m].parent \in DOMAIN tasks
    <3>1. j \in Nat \ {0}
      BY Fresh
    <3>2. tasks[m].parent # 0
      BY <2>1, <3>1 DEF CalledOn
    <3> QED
      BY <3>2, CallerIsTask
  <2>3. CalledOn(j, m)'
    BY <1>5, <2>1, <2>2 DEF CalledOn
  <2>4. WaitsOn(j)'
    BY <1>4, <1>5, <2>1 DEF WaitsOn
  <2> QED
    BY <2>3, <2>4
<1> QED
  BY <1>6, <1>7, <1>8 DEF IInv

(* A call of inner(): the caller k, as T, and the new task q, on r.  Either *)
(* r is the collection of k, whom nobody shares it with, or r is new.      *)
LEMMA CallShared ==
  ASSUME IInv, NEW k \in DOMAIN tasks, tasks[k].phase = "body",
         NEW q, q = Len(tasks) + 1, NEW r,
         DOMAIN tasks' = DOMAIN tasks \cup {q}, DOMAIN heap \subseteq DOMAIN heap',
         \A m \in DOMAIN tasks \ {k} : tasks'[m] = tasks[m],
         tasks'[k].phase = "body", tasks'[k].parent = tasks[k].parent, tasks'[k].snap = tasks[k].snap,
         tasks'[q].v = r, tasks'[q].parent = k, tasks'[q].phase = "run",
         \/ tasks'[k].v = tasks[k].v /\ r = tasks[k].v /\ ~Active(k)
         \/ tasks'[k].v = tasks[k].v /\ r = NewRef
         \/ tasks'[k].v = NewRef /\ r = NewRef /\ ~Active(k)
  PROVE  Linked' /\ Sharing'
<1> DEFINE N == DOMAIN tasks
<1>1. /\ q \notin N /\ k \in Nat \ {0} /\ q \in Nat /\ \A m \in N : m \in Nat \ {0} /\ m < q
      /\ Live(k) /\ \A m \in N : Live(m)' = Live(m)
  BY Fresh DEF Live
<1>2. \A m \in N : /\ tasks'[m].parent = tasks[m].parent /\ tasks'[m].phase = tasks[m].phase
                   /\ tasks'[m].snap = tasks[m].snap
                   /\ tasks'[m].v = tasks[m].v \/ (m = k /\ tasks'[m].v = NewRef)
  OBVIOUS
<1>3. \A m \in N : Live(m) =>
        /\ tasks[m].v # 1 /\ tasks[m].v # NewRef
        /\ tasks[m].parent # 0 =>
             tasks[m].parent \in N /\ tasks[m].parent < m /\ tasks[tasks[m].parent].phase = "body"
        /\ tasks[m].phase = "body" =>
             /\ tasks[m].snap \in DOMAIN heap /\ tasks[m].snap # NewRef
             /\ \A j \in N : Live(j) => tasks[j].v # tasks[m].snap
  BY Fresh, CallerIsTask DEF IInv, Linked
<1>4. Linked'
  <2> SUFFICES ASSUME NEW m \in N \cup {q}, Live(m)'
               PROVE  /\ tasks'[m].v # 1
                      /\ tasks'[m].parent # 0 => /\ tasks'[m].parent < m
                                                 /\ tasks'[tasks'[m].parent].phase = "body"
                      /\ tasks'[m].phase = "body" =>
                           /\ tasks'[m].snap \in DOMAIN heap'
                           /\ \A j \in N \cup {q} : Live(j)' => tasks'[j].v # tasks'[m].snap
    BY DEF Linked, IInv
  <2>1. CASE m = q
    BY <1>1, <1>3, <2>1, Fresh
  <2>2. CASE m \in N
    <3>1. tasks'[m].v # 1
      BY <1>1, <1>2, <1>3, <2>2, Fresh
    <3>2. tasks'[m].parent # 0 => /\ tasks'[m].parent < m
                                  /\ tasks'[tasks'[m].parent].phase = "body"
      BY <1>1, <1>2, <1>3, <2>2
    <3>3. ASSUME tasks'[m].phase = "body"
          PROVE  /\ tasks'[m].snap \in DOMAIN heap'
                 /\ \A j \in N \cup {q} : Live(j)' => tasks'[j].v # tasks'[m].snap
      BY <1>1, <1>2, <1>3, <2>2, <3>3
    <3> QED
      BY <3>1, <3>2, <3>3
  <2> QED
    BY <2>1, <2>2
<1>5. Sharing'
  <2> SUFFICES ASSUME NEW j \in N \cup {q}, NEW m \in N \cup {q},
                      Live(j)', Live(m)', j < m, tasks'[j].v = tasks'[m].v
               PROVE  CalledOn(j, m)' /\ WaitsOn(j)'
    BY DEF Sharing
  <2>1. j \in N
    BY <1>1
  <2>2. Live(q)'
    BY DEF Live
  <2>3. ASSUME NEW i \in N, i # k, Live(i), r = tasks[k].v, tasks[i].v = r, ~Active(k)
        PROVE  i < k /\ WaitsOn(i)'
    <3>1. ~WaitsOn(k)
      BY <2>3 DEF WaitsOn, Active, Live
    <3>2. i < k
      BY <1>1, <2>3, <3>1 DEF IInv, Sharing
    <3>3. WaitsOn(i)
      BY <1>1, <2>3, <3>2 DEF IInv, Sharing
    <3>4. PICK c \in N : Live(c) /\ tasks[c].parent = i /\ tasks[c].v = tasks[i].v
      BY <3>3 DEF WaitsOn
    <3>5. tasks'[c].v = tasks[c].v
      BY <1>3, <1>1, <2>3, <3>4
    <3> QED
      BY <1>1, <1>2, <2>3, <3>2, <3>4, <3>5 DEF WaitsOn
  <2>4. CASE m = q
    <3>1. CASE j = k
      BY <1>1, <2>2, <2>4, <3>1 DEF CalledOn, WaitsOn
    <3>2. CASE j # k
      <4>1. r = tasks[k].v /\ tasks'[k].v = r /\ ~Active(k) /\ tasks[j].v = r /\ Live(j)
        BY <1>1, <1>2, <1>3, <2>1, <2>4, <3>2
      <4>2. j < k /\ WaitsOn(j)'
        BY <2>1, <2>3, <3>2, <4>1
      <4>3. tasks'[q].parent >= j /\ tasks'[tasks'[q].parent].v = tasks'[q].v
        BY <1>1, <2>1, <4>1, <4>2
      <4> QED
        BY <2>4, <4>2, <4>3 DEF CalledOn
    <3> QED
      BY <3>1, <3>2
  <2>5. CASE m \in N
    <3>1. /\ Live(j) /\ Live(m) /\ tasks[j].v = tasks[m].v
          /\ tasks'[j].v = tasks[j].v /\ tasks'[m].v = tasks[m].v
      BY <1>1, <1>2, <1>3, <2>1, <2>5
    <3>2. CalledOn(j, m) /\ WaitsOn(j)
      BY <2>1, <2>5, <3>1 DEF IInv, Sharing
    <3>3. tasks[m].parent # 0 /\ tasks[m].parent \in N
      BY <1>1, <1>3, <2>1, <2>5, <3>1, <3>2 DEF CalledOn
    <3>4. CASE tasks'[k].v = tasks[k].v
      <4>1. CalledOn(j, m)'
        BY <1>2, <2>5, <3>2, <3>3, <3>4 DEF CalledOn
      <4>2. WaitsOn(j)'
        BY <1>1, <1>2, <2>1, <3>2, <3>4 DEF WaitsOn
      <4> QED
        BY <4>1, <4>2
    <3>5. CASE tasks'[k].v # tasks[k].v
      <4>1. tasks'[k].v = NewRef /\ ~Active(k) /\ j # k /\ m # k
        BY <1>1, <1>3, <3>1, <3>5
      <4>2. tasks[m].parent # k
        BY <2>5, <3>1, <4>1 DEF Active, Live
      <4>3. CalledOn(j, m)'
        BY <1>2, <2>5, <3>1, <3>2, <3>3, <4>2 DEF CalledOn
      <4>4. PICK c \in N : Live(c) /\ tasks[c].parent = j /\ tasks[c].v = tasks[j].v
        BY <3>2 DEF WaitsOn
      <4>5. CASE c # k
        BY <1>1, <1>2, <2>1, <3>1, <4>3, <4>4, <4>5 DEF WaitsOn
      <4>6. CASE c = k
        <5>1. ~WaitsOn(k)
          BY <4>1 DEF WaitsOn, Active, Live
        <5>2. m < k
          BY <1>1, <2>5, <3>1, <4>1, <4>4, <4>6, <5>1 DEF IInv, Sharing
        <5>3. CalledOn(m, k)
          BY <1>1, <2>5, <3>1, <4>4, <4>6, <5>2 DEF IInv, Sharing
        <5> QED
          BY <1>1, <2>1, <2>5, <4>4, <4>6, <5>3 DEF CalledOn
      <4> QED
        BY <4>5, <4>6
    <3> QED
      BY <3>4, <3>5
  <2> QED
    BY <2>4, <2>5
<1> QED
  BY <1>4, <1>5

LEMMA CallInnerInv ==
  ASSUME IInv, UNCHANGED binding, NEW k \in DOMAIN tasks, CallInner(k)
  PROVE  IInv'
<1> DEFINE i == tasks[k].at
           n == tasks[k].calls + 1
           fresh == Chain[i].parallel \/ n > 1
           r == IF fresh THEN NewRef ELSE tasks[k].v
           own == IF Chain[i].parallel THEN tasks[k].v ELSE r
           T == [tasks[k] EXCEPT !.calls = n, !.v = own]
           Q == NewTask(k, i + 1, r)
           q == Len(tasks) + 1
           Args(v) == Down(v, Chain[i].out, Made(i, k, n))
<1>1. /\ tasks[k].phase = "body" /\ Chain[i].class = "wrapper"
      /\ Chain[i].parallel \/ ~Active(k)
      /\ heap' = IF fresh THEN Append(heap, Args(heap[tasks[k].snap])) ELSE [heap EXCEPT ![r] = Args(heap[r])]
      /\ panics' = panics
  BY DEF CallInner, IsA
<1>2. tasks' = Append([tasks EXCEPT ![k] = T], Q)
  BY DEF CallInner
<1>3. /\ tasks[k] \in Tasks /\ i \in Nat /\ i + 1 \in Providers /\ n \in Nat /\ k \in Nat
      /\ tasks[k].v \in DOMAIN heap /\ heap[tasks[k].v] \in Collections
  BY <1>1, TaskTypes, ChainShape DEF IInv
<1>4. r \in Nat /\ own \in Nat /\ own \in {tasks[k].v, NewRef} /\ r \in {tasks[k].v, NewRef}
  BY <1>3, Fresh
<1>5. Q \in Tasks /\ Q.parent = k /\ Q.v = r /\ Q.arg = r /\ Q.phase = "run"
  BY <1>3, <1>4, NewTaskTyped
<1>6. /\ T \in Tasks /\ T.phase = "body" /\ T.snap = tasks[k].snap /\ T.v = own
      /\ T.arg = tasks[k].arg /\ T.parent = tasks[k].parent
  BY <1>1, <1>3, <1>4 DEF Tasks
<1>7. /\ DOMAIN tasks' = DOMAIN tasks \cup {q} /\ q \notin DOMAIN tasks
      /\ tasks'[q] = Q /\ tasks'[k] = T /\ \A m \in DOMAIN tasks \ {k} : tasks'[m] = tasks[m]
  BY <1>2, Fresh DEF IInv, TypeOK
<1>8. heap' \in Seq(Collections) /\ DOMAIN heap' = DOMAIN heap \cup {r}
  <2>1. Made(i, k, n) \in Vals
    BY <1>3, Values
  <2>2. CASE fresh
    <3>1. heap[tasks[k].snap] \in Collections
      BY <1>1 DEF IInv, TypeOK, Linked, Live
    <3>2. Args(heap[tasks[k].snap]) \in Collections
      BY <2>1, <3>1, Stored
    <3> QED
      BY <1>1, <2>2, <3>2, Fresh DEF IInv, TypeOK, NewRef
  <2>3. CASE ~fresh
    <3> DEFINE c == Args(heap[r])
    <3>1. r \in DOMAIN heap /\ c \in Collections
      BY <1>3, <2>1, <2>3, Stored
    <3>2. heap \in Seq(Collections) /\ heap' = [heap EXCEPT ![r] = c]
      BY <1>1, <2>3 DEF IInv, TypeOK
    <3> HIDE DEF r, c
    <3>3. heap' \in Seq(Collections) /\ DOMAIN heap' = DOMAIN heap
      BY <3>1, <3>2
    <3> QED
      BY <3>1, <3>3
  <2> QED
    BY <2>2, <2>3
<1>9. \/ own = tasks[k].v /\ r = tasks[k].v /\ ~Active(k)
      \/ own = tasks[k].v /\ r = NewRef
      \/ own = NewRef /\ r = NewRef /\ ~Active(k)
  BY <1>1
<1>10. TypeOK'
  <2>1. tasks' \in Seq(Tasks) /\ panics' \in 0 .. MaxPanics
    BY <1>1, <1>2, <1>5, <1>6 DEF IInv, TypeOK
  <2>2. \A m \in DOMAIN tasks' : tasks'[m].v \in DOMAIN heap' /\ tasks'[m].arg \in DOMAIN heap'
    <3>1. own \in DOMAIN heap' /\ r \in DOMAIN heap' /\ DOMAIN heap \subseteq DOMAIN heap'
      BY <1>3, <1>8, <1>9
    <3>2. \A m \in DOMAIN tasks : tasks[m].v \in DOMAIN heap /\ tasks[m].arg \in DOMAIN heap
      BY DEF IInv, TypeOK
    <3> HIDE DEF r, own, T, Q
    <3> QED
      BY <1>5, <1>6, <1>7, <3>1, <3>2
  <2> QED
    BY <1>8, <2>1, <2>2, SameTypes DEF TypeOK
<1>11. Linked' /\ Sharing'
  <2> HIDE DEF r, own, T, Q
  <2> QED
    BY <1>1, <1>5, <1>6, <1>7, <1>8, <1>9, CallShared
<1> QED
  BY <1>10, <1>11 DEF IInv

-----------------------------------------------------------------------------
LEMMA NextInv == IInv /\ [Next]_vars => IInv'
<1> SUFFICES ASSUME IInv, [Next]_vars PROVE IInv'
  OBVIOUS
<1>1. CASE UNCHANGED vars
  <2>1. UNCHANGED <<binding, heap, tasks, panics>>
    BY <1>1 DEF vars
  <2> QED
    BY <2>1, SameTypes DEF IInv, TypeOK, Linked, Sharing, CalledOn, WaitsOn, Live
<1>2. CASE Invoke /\ UNCHANGED binding
  BY <1>2, InvokeInv
<1>3. ASSUME NEW k \in DOMAIN tasks, Step(k), UNCHANGED binding
      PROVE  IInv'
  BY <1>3, InjectInv, InjectErrorInv, FinalInv, EnterWrapperInv, CallInnerInv, CollectInv,
     WrapperReturnInv, WrapperPanicInv, PanicInv DEF Step
<1> QED
  BY <1>1, <1>2, <1>3 DEF Next

(* The links between tasks and the collections they share, in every        *)
(* interleaving of invocations, calls of inner(), errors and panics.       *)
THEOREM Invariance == Spec => []IInv
<1> QED
  BY InitInv, NextInv, PTL DEF Spec

(* Values have their types (generate.go:9-23), and no slot outside of a    *)
(* collection is accessed.                                                 *)
THEOREM TypeCorrectness == Spec => []TypeOK
<1>1. IInv => TypeOK
  BY DEF IInv
<1> QED
  BY <1>1, Invariance, PTL

(* Two tasks that can both take a step are not on one collection: the      *)
(* later of them would have been called, if not directly, by the earlier,  *)
(* which waits.                                                            *)
LEMMA NoRace == IInv => RaceFree
<1> SUFFICES ASSUME IInv, NEW j \in DOMAIN tasks, NEW k \in DOMAIN tasks, Running(j)
             PROVE  /\ tasks[j].v # 1
                    /\ tasks[k].phase = "body" => tasks[j].v # tasks[k].snap
                    /\ Running(k) /\ j # k => tasks[j].v # tasks[k].v
  BY DEF RaceFree
<1>1. \A m \in DOMAIN tasks : Running(m) => Live(m) /\ ~WaitsOn(m)
  <2> SUFFICES ASSUME NEW m \in DOMAIN tasks, Running(m) PROVE Live(m) /\ ~WaitsOn(m)
    OBVIOUS
  <2>1. tasks[m].phase # "body" \/ ~Active(m)
    BY DEF Running
  <2> QED
    BY <2>1, NobodyInside DEF Running, Live, WaitsOn
<1>2. \A m, o \in DOMAIN tasks : Running(m) /\ Running(o) /\ m < o => tasks[m].v # tasks[o].v
  BY <1>1 DEF IInv, Sharing
<1>3. j \in Nat /\ k \in Nat
  BY Fresh
<1>4. Running(k) /\ j # k => tasks[j].v # tasks[k].v
  BY <1>2, <1>3
<1>5. tasks[k].phase = "body" => tasks[j].v # tasks[k].snap
  BY <1>1 DEF IInv, Linked, Live
<1> QED
  BY <1>1, <1>4, <1>5 DEF IInv, Linked

(* generate.go and bind.go copy collections wherever they have to: no two  *)
(* goroutines use one at a time, whatever Parallel wrappers and            *)
(* overlapping invocations do, and baseValues and the copies that wrappers *)
(* keep are left alone.                                                    *)
THEOREM NoRaces == Spec => []RaceFree
<1> QED
  BY Invariance, NoRace, PTL

-----------------------------------------------------------------------------
(* The meaning of a chain.  What the abstract state is read from: the      *)
(* collection of a task that runs, the copy that a wrapper keeps, the      *)
(* collection that the caller passed to a task that is over.               *)
Parallel(k) == Chain[tasks[k].at].parallel
AtWork(k) == tasks[k].phase \in {"run", "body"}

(* How a task and its caller hold on to what was passed: only a wrapper    *)
(* that calls inner() again turns to another collection, and who works on  *)
(* the collection passed to k waits for k, or was called by k on it.       *)
Passing ==
  \A k \in DOMAIN tasks : Live(k) =>
    /\ tasks[k].phase = "run" => tasks[k].calls = 0
    /\ tasks[k].phase = "body" => Chain[tasks[k].at].class = "wrapper"
    /\ AtWork(k) /\ (tasks[k].calls < 2 \/ Parallel(k)) => tasks[k].v = tasks[k].arg
    /\ tasks[k].parent # 0 =>
         /\ tasks[tasks[k].parent].calls > 0
         /\ ~Parallel(tasks[k].parent) => tasks[k].arg = tasks[tasks[k].parent].v
    /\ \A j \in DOMAIN tasks : Live(j) /\ tasks[j].v = tasks[k].arg =>
         /\ j < k => tasks[k].parent >= j /\ tasks[tasks[k].parent].v = tasks[k].arg
         /\ j > k => tasks[k].v = tasks[k].arg
OneCall ==
  \A c, d \in DOMAIN tasks :
    Live(c) /\ Live(d) /\ tasks[c].parent # 0 /\ tasks[d].parent = tasks[c].parent
      => c = d \/ Parallel(tasks[c].parent)
Nested ==
  \A j, k \in DOMAIN tasks :
    Live(j) /\ Live(k) /\ j < k /\ tasks[j].v = tasks[k].v => ~Parallel(j) /\ tasks[j].at < tasks[k].at

(* What is read before anything was returned is zero, and is what was      *)
(* handed down.                                                            *)
Blank(ref) == UpOf(ref) = AllZero
Contents ==
  /\ heap[1].down = BaseEnv /\ Blank(1)
  /\ \A k \in DOMAIN tasks :
       /\ tasks[k].phase = "run" => Blank(tasks[k].v)
       /\ tasks[k].phase = "body" =>
            /\ Blank(tasks[k].snap)
            /\ tasks[k].calls = 0 \/ Parallel(k) => Blank(tasks[k].v)
            /\ tasks[k].calls = 0 => heap[tasks[k].v].down = heap[tasks[k].snap].down
            /\ \A t \in UpTypes \ MustZeroIfInnerNotCalled(tasks[k].at) : UpOf(tasks[k].v)[t] = Zero

MInv == IInv /\ Passing /\ OneCall /\ Nested /\ Contents

-----------------------------------------------------------------------------
(* Who may write: a running task k disturbs nobody's reading.              *)
LEMMA Undisturbed ==
  ASSUME MInv, NEW k \in DOMAIN tasks, Running(k), NEW j \in DOMAIN tasks, j # k
  PROVE  /\ Running(j) => tasks[j].v # tasks[k].v
         /\ tasks[j].phase = "body" => tasks[j].snap # tasks[k].v
         /\ tasks[j].phase \in {"done", "panicked"} => tasks[j].arg # tasks[k].v
         /\ tasks[j].phase = "body" /\ (tasks[j].calls = 0 \/ Parallel(j)) => tasks[j].v # tasks[k].v
         /\ tasks[j].phase = "body" /\ tasks[j].v = tasks[k].v => tasks[j].at < tasks[k].at
<1>1. /\ Live(k) /\ ~WaitsOn(k) /\ RaceFree /\ j \in Nat \ {0} /\ k \in Nat \ {0}
  BY NoRace, NobodyInside, Fresh DEF MInv, Running, Live, WaitsOn
<1>2. Running(j) => tasks[j].v # tasks[k].v
  BY <1>1 DEF RaceFree
<1>3. tasks[j].phase = "body" => tasks[j].snap # tasks[k].v
  BY <1>1 DEF RaceFree
<1>4. Live(j) /\ tasks[j].v = tasks[k].v => j < k /\ WaitsOn(j) /\ tasks[j].at < tasks[k].at /\ ~Parallel(j)
  BY <1>1 DEF MInv, IInv, Sharing, Nested
<1>5. WaitsOn(j) => tasks[j].calls > 0
  BY <1>1 DEF WaitsOn, MInv, Passing
<1>6. ASSUME tasks[j].phase \in {"done", "panicked"}, tasks[j].arg = tasks[k].v PROVE FALSE
  <2>1. Live(j) /\ \A c \in DOMAIN tasks : tasks[c].parent = j => ~Live(c)
    BY <1>6, NobodyInside DEF Live, MInv
  <2>2. CASE k < j
    <3>1. tasks[j].parent >= k /\ tasks[tasks[j].parent].v = tasks[k].v
      BY <1>1, <1>6, <2>1, <2>2 DEF MInv, Passing
    <3>2. tasks[j].parent \in DOMAIN tasks /\ tasks[tasks[j].parent].phase = "body" /\ tasks[j].parent # 0
      BY <1>1, <2>1, <3>1, CallerIsTask DEF MInv
    <3>3. CASE tasks[j].parent = k
      BY <1>1, <2>1, <3>2, <3>3 DEF Running, Active, Live
    <3>4. CASE tasks[j].parent # k
      <4>1. tasks[j].parent > k /\ Live(tasks[j].parent)
        BY <1>1, <3>1, <3>2, <3>4, Fresh DEF MInv, Live
      <4> QED
        BY <1>1, <3>1, <3>2, <4>1 DEF MInv, IInv, Sharing
    <3> QED
      BY <3>3, <3>4
  <2>3. CASE j < k
    <3>1. tasks[j].v = tasks[k].v
      BY <1>1, <1>6, <2>1, <2>3 DEF MInv, Passing
    <3> QED
      BY <1>4, <2>1, <3>1 DEF WaitsOn
  <2> QED
    BY <1>1, <2>2, <2>3
<1>7. tasks[j].phase = "body" => Live(j)
  BY DEF Live
<1>8. tasks[j].phase = "body" /\ (tasks[j].calls = 0 \/ Parallel(j)) => tasks[j].v # tasks[k].v
  <2>1. ~(0 > 0)
    OBVIOUS
  <2> QED
    BY <1>4, <1>5, <1>7, <2>1
<1> QED
  BY <1>2, <1>3, <1>4, <1>6, <1>7, <1>8

LEMMA StayPassing ==
  ASSUME MInv, UNCHANGED binding, NEW k \in DOMAIN tasks, Live(k),
         tasks[k].phase # "body" \/ ~Active(k),
         NEW T \in Tasks, T.v = tasks[k].v, T.arg = tasks[k].arg, T.parent = tasks[k].parent,
         T.calls = tasks[k].calls, T.at >= tasks[k].at, T.phase # "body",
         T.phase = "run" => tasks[k].phase = "run",
         tasks' = [tasks EXCEPT ![k] = T]
  PROVE  Passing' /\ OneCall' /\ Nested'
<1> DEFINE N == DOMAIN tasks
<1>1. /\ tasks'[k] = T /\ DOMAIN tasks' = N
      /\ \A m \in N \ {k} : tasks'[m] = tasks[m]
  OBVIOUS
<1>2. \A m \in N : /\ tasks'[m].v = tasks[m].v /\ tasks'[m].arg = tasks[m].arg
                   /\ tasks'[m].parent = tasks[m].parent /\ tasks'[m].calls = tasks[m].calls
                   /\ Live(m)' => Live(m)
  BY <1>1 DEF Live
<1>3. \A m \in N : m # k => Parallel(m)' = Parallel(m)
  BY <1>1 DEF Parallel, Chain
<1>4. \A m \in N : Live(m) /\ tasks[m].parent # 0 => tasks[m].parent \in N \ {k}
  BY CallerIsTask, NobodyInside DEF MInv
<1>5. Passing'
  <2> SUFFICES ASSUME NEW m \in N, Live(m)'
               PROVE  /\ tasks'[m].phase = "run" => tasks'[m].calls = 0
                      /\ tasks'[m].phase = "body" => Chain'[tasks'[m].at].class = "wrapper"
                      /\ AtWork(m)' /\ (tasks'[m].calls < 2 \/ Parallel(m)') => tasks'[m].v = tasks'[m].arg
                      /\ tasks'[m].parent # 0 =>
                           /\ tasks'[tasks'[m].parent].calls > 0
                           /\ ~Parallel(tasks[m].parent)' => tasks'[m].arg = tasks'[tasks'[m].parent].v
                      /\ \A j \in N : Live(j)' /\ tasks'[j].v = tasks'[m].arg =>
                           /\ j < m => tasks'[m].parent >= j /\ tasks'[tasks'[m].parent].v = tasks'[m].arg
                           /\ j > m => tasks'[m].v = tasks'[m].arg
    BY <1>1, <1>2 DEF Passing
  <2>1. Live(m)
    BY <1>2
  <2>2. tasks'[m].phase = "run" => tasks'[m].calls = 0
    BY <1>1, <1>2, <2>1 DEF MInv, Passing
  <2>3. tasks'[m].phase = "body" => Chain'[tasks'[m].at].class = "wrapper"
    BY <1>1, <2>1 DEF MInv, Passing, Chain
  <2>4. AtWork(m)' /\ (tasks'[m].calls < 2 \/ Parallel(m)') => tasks'[m].v = tasks'[m].arg
    <3>1. CASE m = k
      <4>1. AtWork(m)' => tasks[m].phase = "run" /\ tasks[m].calls = 0
        BY <1>1, <2>1, <3>1 DEF AtWork, MInv, Passing
      <4> QED
        BY <1>2, <2>1, <4>1 DEF AtWork, MInv, Passing
    <3>2. CASE m # k
      BY <1>1, <1>3, <2>1, <3>2 DEF AtWork, MInv, Passing
    <3> QED
      BY <3>1, <3>2
  <2>5. tasks'[m].parent # 0 =>
          /\ tasks'[tasks'[m].parent].calls > 0
          /\ ~Parallel(tasks[m].parent)' => tasks'[m].arg = tasks'[tasks'[m].parent].v
    BY <1>2, <1>3, <1>4, <2>1 DEF MInv, Passing
  <2>6. ASSUME NEW j \in N, Live(j)', tasks'[j].v = tasks'[m].arg
        PROVE  /\ j < m => tasks'[m].parent >= j /\ tasks'[tasks'[m].parent].v = tasks'[m].arg
               /\ j > m => tasks'[m].v = tasks'[m].arg
    <3>1. /\ j < m => tasks[m].parent >= j /\ tasks[tasks[m].parent].v = tasks[m].arg
          /\ j > m => tasks[m].v = tasks[m].arg
      BY <1>2, <2>1, <2>6 DEF MInv, Passing
    <3>2. j < m => tasks[m].parent \in N
      BY <1>4, <2>1, <3>1, Fresh DEF MInv
    <3> QED
      BY <1>2, <3>1, <3>2
  <2> QED
    BY <2>2, <2>3, <2>4, <2>5, <2>6
<1>6. OneCall'
  BY <1>1, <1>2, <1>3, <1>4 DEF MInv, OneCall
<1>7. Nested'
  <2> SUFFICES ASSUME NEW j \in N, NEW m \in N, Live(j)', Live(m)', j < m, tasks'[j].v = tasks'[m].v
               PROVE  ~Parallel(j)' /\ tasks'[j].at < tasks'[m].at
    BY <1>1 DEF Nested
  <2>1. Live(j) /\ Live(m) /\ tasks[j].v = tasks[m].v
    BY <1>2
  <2>2. ~Parallel(j) /\ tasks[j].at < tasks[m].at /\ WaitsOn(j)
    BY <2>1 DEF MInv, Nested, IInv, Sharing
  <2>3. j # k
    BY <2>2, NobodyInside DEF WaitsOn, MInv
  <2>4. tasks'[m].at >= tasks[m].at /\ tasks'[m].at \in Nat /\ tasks[m].at \in Nat /\ tasks[j].at \in Nat
    <3>1. Providers \subseteq Nat
      BY ChainShape DEF MInv, IInv
    <3>2. T.at \in Nat /\ \A o \in N : tasks[o].at \in Nat
      BY <3>1, TaskTypes DEF MInv, IInv, Tasks
    <3> QED
      BY <1>1, <3>2
  <2> QED
    BY <1>1, <1>3, <2>2, <2>3, <2>4
<1> QED
  BY <1>5, <1>6, <1>7

-----------------------------------------------------------------------------
LEMMA SameSlots ==
  ASSUME UNCHANGED binding
  PROVE  /\ UpTypes' = UpTypes /\ DownTypes' = DownTypes /\ BaseEnv' = BaseEnv /\ AllZero' = AllZero
         /\ Chain' = Chain /\ Providers' = Providers /\ InvokeOut' = InvokeOut
         /\ \A i : MustZeroIfInnerNotCalled(i)' = MustZeroIfInnerNotCalled(i)
         /\ \A r : heap'[r] = heap[r] => UpOf(r)' = UpOf(r)
BY DEF UpTypes, DownTypes, BaseEnv, AllZero, Chain, Providers, InvokeOut, BaseOut, UpOf,
  MustZeroIfInnerNotCalled

(* Who is further down the chain zeroes no more than who is above.         *)
LEMMA ZeroBelow ==
  ASSUME binding \in Bindings, NEW i \in Nat, NEW j \in Nat, i <= j
  PROVE  MustZeroIfInnerNotCalled(j) \subseteq MustZeroIfInnerNotCalled(i)
<1>1. Len(Chain) \in Nat /\ j .. Len(Chain) \subseteq i .. Len(Chain)
  BY ChainShape
<1> QED
  BY <1>1 DEF MustZeroIfInnerNotCalled

(* What a task reads the abstract state from is as it was.                 *)
LEMMA AbstractSame ==
  ASSUME UNCHANGED binding, NEW j \in DOMAIN tasks, tasks'[j] = tasks[j],
         Active(j)' = Active(j),
         tasks[j].phase = "run" => heap'[tasks[j].v] = heap[tasks[j].v],
         tasks[j].phase = "body" => heap'[tasks[j].snap] = heap[tasks[j].snap],
         tasks[j].phase = "body" /\ ~Active(j) => heap'[tasks[j].v] = heap[tasks[j].v],
         tasks[j].phase \in {"done", "panicked"} => heap'[tasks[j].arg] = heap[tasks[j].arg]
  PROVE  AbstractTask(j)' = AbstractTask(j)
<1>1. AbstractEnv(j)' = AbstractEnv(j)
  BY SameSlots DEF AbstractEnv
<1>2. Settled(j)' = Settled(j)
  BY SameSlots DEF Settled
<1>3. AbstractLast(j)' = AbstractLast(j)
  BY <1>2, SameSlots DEF AbstractLast, Settled
<1>4. AbstractUp(j)' = AbstractUp(j)
  BY SameSlots DEF AbstractUp
<1> QED
  BY <1>1, <1>3, <1>4 DEF AbstractTask

LEMMA References ==
  ASSUME IInv, NEW k \in DOMAIN tasks
  PROVE  /\ tasks[k].v \in DOMAIN heap /\ tasks[k].arg \in DOMAIN heap /\ 1 \in DOMAIN heap
         /\ tasks[k].phase = "body" => tasks[k].snap \in DOMAIN heap
BY DEF IInv, TypeOK, Linked, Live

LEMMA StayAbstract ==
  ASSUME MInv, UNCHANGED binding, NEW k \in DOMAIN tasks, Running(k),
         NEW w \in Collections, heap' \in {heap, [heap EXCEPT ![tasks[k].v] = w]},
         NEW T, T.phase # "gone", T.parent = tasks[k].parent,
         tasks' = [tasks EXCEPT ![k] = T]
  PROVE  \A j \in DOMAIN tasks \ {k} : AbstractTask(j)' = AbstractTask(j)
<1> SUFFICES ASSUME NEW j \in DOMAIN tasks, j # k PROVE AbstractTask(j)' = AbstractTask(j)
  OBVIOUS
<1>1. \A r \in DOMAIN heap : r # tasks[k].v => heap'[r] = heap[r]
  BY DEF MInv, IInv, TypeOK
<1>2. tasks'[j] = tasks[j] /\ DOMAIN tasks' = DOMAIN tasks
  OBVIOUS
<1>3. Active(j)' = Active(j)
  BY <1>2 DEF Active, Running
<1>4. tasks[j].phase = "run" => Running(j)
  BY DEF Running
<1>5. tasks[j].phase = "body" /\ ~Active(j) => Running(j)
  BY DEF Running
<1>6. /\ tasks[j].phase = "run" => heap'[tasks[j].v] = heap[tasks[j].v]
      /\ tasks[j].phase = "body" => heap'[tasks[j].snap] = heap[tasks[j].snap]
      /\ tasks[j].phase = "body" /\ ~Active(j) => heap'[tasks[j].v] = heap[tasks[j].v]
      /\ tasks[j].phase \in {"done", "panicked"} => heap'[tasks[j].arg] = heap[tasks[j].arg]
  BY <1>1, <1>4, <1>5, Undisturbed, References DEF MInv
<1> QED
  BY <1>2, <1>3, <1>6, AbstractSame

LEMMA StayContents ==
  ASSUME MInv, UNCHANGED binding, NEW k \in DOMAIN tasks, Running(k),
         NEW w \in Collections, heap' \in {heap, [heap EXCEPT ![tasks[k].v] = w]},
         NEW T, T.phase # "body", T.v = tasks[k].v,
         tasks' = [tasks EXCEPT ![k] = T],
         heap' # heap =>
           \A t \in UpTypes \ MustZeroIfInnerNotCalled(tasks[k].at) : Read(w.up[t]) = Zero,
         T.phase = "run" => Blank(tasks[k].v)'
  PROVE  Contents'
<1>1. \A r \in DOMAIN heap : r # tasks[k].v => heap'[r] = heap[r]
  BY DEF MInv, IInv, TypeOK
<1>2. heap'[1] = heap[1]
  BY <1>1, References DEF Running, MInv, IInv, Linked, Live
<1>3. heap'[1].down = BaseEnv' /\ Blank(1)'
  BY <1>2, SameSlots DEF MInv, Contents, Blank
<1>4. ASSUME NEW j \in DOMAIN tasks, j # k
      PROVE  /\ tasks[j].phase = "run" => Blank(tasks[j].v)'
             /\ tasks[j].phase = "body" =>
                  /\ Blank(tasks[j].snap)'
                  /\ tasks[j].calls = 0 \/ Parallel(j) => Blank(tasks[j].v)'
                  /\ tasks[j].calls = 0 => heap'[tasks[j].v].down = heap'[tasks[j].snap].down
                  /\ \A t \in UpTypes \ MustZeroIfInnerNotCalled(tasks[j].at) : UpOf(tasks[j].v)'[t] = Zero
  <2>1. CASE tasks[j].phase = "run"
    <3>1. tasks[j].v # tasks[k].v
      BY <1>4, <2>1, Undisturbed DEF Running
    <3>2. heap'[tasks[j].v] = heap[tasks[j].v]
      BY <1>1, <3>1, References DEF MInv
    <3> QED
      BY <2>1, <3>2, SameSlots DEF MInv, Contents, Blank
  <2>2. CASE tasks[j].phase = "body"
    <3>1. /\ tasks[j].snap # tasks[k].v
          /\ tasks[j].calls = 0 \/ Parallel(j) => tasks[j].v # tasks[k].v
          /\ tasks[j].v = tasks[k].v => tasks[j].at < tasks[k].at
      BY <1>4, <2>2, Undisturbed
    <3>2. heap'[tasks[j].snap] = heap[tasks[j].snap]
      BY <1>1, <2>2, <3>1, References DEF MInv
    <3>3. tasks[j].calls = 0 \/ Parallel(j) => heap'[tasks[j].v] = heap[tasks[j].v]
      BY <1>1, <3>1, References DEF MInv
    <3>4. Blank(tasks[j].snap)'
      <4>1. Blank(tasks[j].snap)
        BY <2>2 DEF MInv, Contents
      <4>2. tasks'[j] = tasks[j]
        BY <1>4
      <4> QED
        BY <3>2, <4>1, <4>2, SameSlots DEF Blank
    <3>5. tasks[j].calls = 0 \/ Parallel(j) => Blank(tasks[j].v)'
      BY <2>2, <3>3, SameSlots DEF MInv, Contents, Blank
    <3>6. tasks[j].calls = 0 => heap'[tasks[j].v].down = heap'[tasks[j].snap].down
      BY <2>2, <3>2, <3>3 DEF MInv, Contents
    <3>7. ASSUME NEW t \in UpTypes \ MustZeroIfInnerNotCalled(tasks[j].at)
          PROVE  UpOf(tasks[j].v)'[t] = Zero
      <4>1. UpOf(tasks[j].v)[t] = Zero
        BY <2>2, <3>7 DEF MInv, Contents
      <4>2. CASE tasks[j].v # tasks[k].v \/ heap' = heap
        <5>1. heap'[tasks[j].v] = heap[tasks[j].v]
          BY <1>1, <4>2, References DEF MInv
        <5> QED
          BY <4>1, <5>1, SameSlots
      <4>3. CASE tasks[j].v = tasks[k].v /\ heap' # heap
        <5>1. tasks[j].at \in Nat /\ tasks[k].at \in Nat /\ binding \in Bindings
          BY TaskTypes, ChainShape DEF MInv, IInv
        <5>2. tasks[j].at <= tasks[k].at
          BY <3>1, <4>3, <5>1
        <5>3. t \in UpTypes \ MustZeroIfInnerNotCalled(tasks[k].at)
          BY <3>7, <5>1, <5>2, ZeroBelow
        <5>4. heap'[tasks[j].v] = w
          BY <4>3, TaskTypes DEF MInv, IInv
        <5> QED
          BY <4>3, <5>3, <5>4, SameSlots DEF UpOf
      <4> QED
        BY <4>2, <4>3
    <3> QED
      BY <2>2, <3>4, <3>5, <3>6, <3>7
  <2> QED
    BY <2>1, <2>2
<1>5. \A j \in DOMAIN tasks : j # k => tasks'[j] = tasks[j] /\ Parallel(j)' = Parallel(j)
  BY SameSlots DEF Parallel
<1>6. tasks'[k] = T /\ DOMAIN tasks' = DOMAIN tasks
  OBVIOUS
<1> QED
  BY <1>3, <1>4, <1>5, <1>6, SameSlots DEF Contents

LEMMA AbstractUpdate ==
  ASSUME NEW k \in DOMAIN tasks, DOMAIN tasks' = DOMAIN tasks,
         \A j \in DOMAIN tasks \ {k} : AbstractTask(j)' = AbstractTask(j)
  PROVE  AbstractTasks' = [AbstractTasks EXCEPT ![k] = AbstractTask(k)']
BY DEF AbstractTasks

(* The steps of one task that is neither inside a wrapper afterwards nor   *)
(* collected.                                                              *)
LEMMA StayMeaning ==
  ASSUME MInv, IInv', UNCHANGED binding, NEW k \in DOMAIN tasks, Running(k),
         NEW w \in Collections, heap' \in {heap, [heap EXCEPT ![tasks[k].v] = w]},
         NEW T \in Tasks, T.v = tasks[k].v, T.arg = tasks[k].arg, T.parent = tasks[k].parent,
         T.calls = tasks[k].calls, T.at >= tasks[k].at, T.phase \notin {"body", "gone"},
         T.phase = "run" => tasks[k].phase = "run",
         tasks' = [tasks EXCEPT ![k] = T],
         heap' # heap =>
           \A t \in UpTypes \ MustZeroIfInnerNotCalled(tasks[k].at) : Read(w.up[t]) = Zero,
         T.phase = "run" => Blank(tasks[k].v)'
  PROVE  MInv' /\ AbstractTasks' = [AbstractTasks EXCEPT ![k] = AbstractTask(k)'] /\ tasks'[k] = T
<1>1. Live(k) /\ (tasks[k].phase # "body" \/ ~Active(k))
  BY DEF Running, Live
<1>2. Passing' /\ OneCall' /\ Nested'
  BY <1>1, StayPassing
<1>3. Contents'
  BY StayContents
<1>4. AbstractTasks' = [AbstractTasks EXCEPT ![k] = AbstractTask(k)']
  <2>1. \A j \in DOMAIN tasks \ {k} : AbstractTask(j)' = AbstractTask(j)
    BY StayAbstract
  <2>2. DOMAIN tasks' = DOMAIN tasks
    OBVIOUS
  <2> QED
    BY <2>1, <2>2, AbstractUpdate
<1> QED
  BY <1>2, <1>3, <1>4 DEF MInv

(* Reading what was stored.                                                *)
LEMMA ReadMade ==
  ASSUME NEW i \in Nat \ {0}, NEW k, NEW n
  PROVE  Read(Made(i, k, n)) = Made(i, k, n) /\ Read(Zero) = Zero
BY DEF Read, Made, Unset, Zero

LEMMA ReadPut ==
  ASSUME NEW v \in Collections, NEW T, NEW x \in Vals, Read(x) = x
  PROVE  [t \in UpTypes |-> Read(Up(v, T, x).up[t])] = Put([t \in UpTypes |-> Read(v.up[t])], T, x)
<1>1. v.up \in Ups
  BY DEF Collections
<1>2. Up(v, T, x).up = Put(v.up, T, x)
  BY DEF Up, Collections
<1> QED
  BY <1>1, <1>2 DEF Put, Ups

LEMMA AbstractIsA ==
  ASSUME NEW k \in DOMAIN tasks
  PROVE  /\ DOMAIN AbstractTasks = DOMAIN tasks
         /\ AbstractTasks[k] = AbstractTask(k)
         /\ AbstractTasks[k].at = tasks[k].at /\ AbstractTasks[k].phase = tasks[k].phase
         /\ AbstractTasks[k].calls = tasks[k].calls /\ AbstractTasks[k].parent = tasks[k].parent
         /\ AbstractTasks[k].env = AbstractEnv(k) /\ AbstractTasks[k].last = AbstractLast(k)
         /\ AbstractTasks[k].up = AbstractUp(k)
         /\ \A phase, class : S!IsA(k, phase, class) <=> IsA(k, phase, class)
         /\ S!Active(k) <=> Active(k)
<1>1. DOMAIN AbstractTasks = DOMAIN tasks /\ \A j \in DOMAIN tasks : AbstractTasks[j] = AbstractTask(j)
  BY DEF AbstractTasks
<1>2. \A j \in DOMAIN tasks :
         /\ AbstractTasks[j].at = tasks[j].at /\ AbstractTasks[j].phase = tasks[j].phase
         /\ AbstractTasks[j].calls = tasks[j].calls /\ AbstractTasks[j].parent = tasks[j].parent
         /\ AbstractTasks[j].env = AbstractEnv(j) /\ AbstractTasks[j].last = AbstractLast(j)
         /\ AbstractTasks[j].up = AbstractUp(j)
  BY <1>1 DEF AbstractTask
<1>3. \A phase, class : S!IsA(k, phase, class) <=> IsA(k, phase, class)
  BY <1>2 DEF S!IsA, IsA, S!Chain, Chain
<1>4. S!Active(k) <=> Active(k)
  BY <1>1, <1>2 DEF S!Active, Active
<1> QED
  BY <1>1, <1>2, <1>3, <1>4

(* Updates of the abstract tasks, field by field and at once.              *)
Moved(f, k, j, e) == [f EXCEPT ![k].at = j, ![k].env = e]
Ended(f, k, phase, up, env, last) ==
  [f EXCEPT ![k].phase = phase, ![k].up = up, ![k].env = env, ![k].last = last]
Called(f, k, n, last) == [f EXCEPT ![k].calls = n, ![k].last = last]
Rec(p, i, ph, c, d, l, u) ==
  [parent |-> p, at |-> i, phase |-> ph, calls |-> c, env |-> d, last |-> l, up |-> u]

LEMMA InjectUpdate ==
  ASSUME NEW f, NEW k \in DOMAIN f, NEW p, NEW i, NEW ph, NEW c, NEW d, NEW l, NEW u,
         f[k] = Rec(p, i, ph, c, d, l, u), NEW j, NEW e
  PROVE  Moved(f, k, j, e) = [f EXCEPT ![k] = Rec(p, j, ph, c, e, l, u)]
<1> DEFINE r == f[k]
           s == Rec(p, j, ph, c, d, l, u)
           q == Rec(p, j, ph, c, e, l, u)
<1>1. [r EXCEPT !.at = j] = s /\ [s EXCEPT !.env = e] = q
  BY DEF Rec
<1>2. [f EXCEPT ![k].at = j, ![k].env = e] = [f EXCEPT ![k] = [r EXCEPT !.at = j, !.env = e]]
  OBVIOUS
<1>3. [r EXCEPT !.at = j, !.env = e] = [[r EXCEPT !.at = j] EXCEPT !.env = e]
  OBVIOUS
<1> QED
  BY <1>1, <1>2, <1>3 DEF Moved

LEMMA EndUpdate ==
  ASSUME NEW f, NEW k \in DOMAIN f, NEW p, NEW i, NEW ph, NEW c, NEW d, NEW l, NEW u,
         f[k] = Rec(p, i, ph, c, d, l, u), NEW ph2, NEW u2, NEW d2, NEW l2
  PROVE  Ended(f, k, ph2, u2, d2, l2) = [f EXCEPT ![k] = Rec(p, i, ph2, c, d2, l2, u2)]
<1> DEFINE r == f[k]
           a == Rec(p, i, ph2, c, d, l, u)
           b == Rec(p, i, ph2, c, d, l, u2)
           s == Rec(p, i, ph2, c, d2, l, u2)
           q == Rec(p, i, ph2, c, d2, l2, u2)
<1>1. [r EXCEPT !.phase = ph2] = a /\ [a EXCEPT !.up = u2] = b
  BY DEF Rec
<1>2. [b EXCEPT !.env = d2] = s /\ [s EXCEPT !.last = l2] = q
  BY DEF Rec
<1>3. [f EXCEPT ![k].phase = ph2, ![k].up = u2, ![k].env = d2, ![k].last = l2]
        = [f EXCEPT ![k] = [r EXCEPT !.phase = ph2, !.up = u2, !.env = d2, !.last = l2]]
  OBVIOUS
<1>4. [r EXCEPT !.phase = ph2, !.up = u2, !.env = d2, !.last = l2]
        = [[[[r EXCEPT !.phase = ph2] EXCEPT !.up = u2] EXCEPT !.env = d2] EXCEPT !.last = l2]
  OBVIOUS
<1>5. [r EXCEPT !.phase = ph2, !.up = u2, !.env = d2, !.last = l2] = q
  BY <1>1, <1>2, <1>4
<1> QED
  BY <1>3, <1>5 DEF Ended

LEMMA CallUpdate ==
  ASSUME NEW f, NEW k \in DOMAIN f, NEW p, NEW i, NEW ph, NEW c, NEW d, NEW l, NEW u,
         f[k] = Rec(p, i, ph, c, d, l, u), NEW n, NEW l2
  PROVE  Called(f, k, n, l2) = [f EXCEPT ![k] = Rec(p, i, ph, n, d, l2, u)]
<1> DEFINE r == f[k]
           s == Rec(p, i, ph, n, d, l, u)
           q == Rec(p, i, ph, n, d, l2, u)
<1>1. [r EXCEPT !.calls = n] = s /\ [s EXCEPT !.last = l2] = q
  BY DEF Rec
<1>2. [f EXCEPT ![k].calls = n, ![k].last = l2] = [f EXCEPT ![k] = [r EXCEPT !.calls = n, !.last = l2]]
  OBVIOUS
<1>3. [r EXCEPT !.calls = n, !.last = l2] = [[r EXCEPT !.calls = n] EXCEPT !.last = l2]
  OBVIOUS
<1> QED
  BY <1>1, <1>2, <1>3 DEF Called

LEMMA AbstractRecord ==
  ASSUME NEW k \in DOMAIN tasks
  PROVE  /\ k \in DOMAIN AbstractTasks
         /\ AbstractTasks[k] = Rec(tasks[k].parent, tasks[k].at, tasks[k].phase, tasks[k].calls,
                                   AbstractEnv(k), AbstractLast(k), AbstractUp(k))
BY AbstractIsA DEF AbstractTask, Rec

LEMMA InjectMeaning ==
  ASSUME MInv, IInv', UNCHANGED binding, NEW k \in DOMAIN tasks, Inject(k)
  PROVE  MInv' /\ S!Inject(k)
<1> DEFINE i == tasks[k].at
           v == heap[tasks[k].v]
           w == Down(v, Chain[i].out, Made(i, k, 0))
           T == [tasks[k] EXCEPT !.at = i + 1]
<1>1. /\ IsA(k, "run", {"injector", "fallible"}) /\ Running(k)
      /\ tasks[k].phase = "run" /\ Chain[i].class \in {"injector", "fallible"}
      /\ heap' = [heap EXCEPT ![tasks[k].v] = w] /\ tasks' = [tasks EXCEPT ![k] = T]
  BY DEF Inject, IsA, Running
<1>2. /\ tasks[k] \in Tasks /\ i \in Nat /\ i + 1 \in Providers /\ k \in Nat
      /\ v \in Collections /\ tasks[k].v \in DOMAIN heap
  BY <1>1, TaskTypes, ChainShape DEF MInv, IInv
<1>3. w \in Collections /\ w.up = v.up /\ w.down = Put(v.down, Chain[i].out, Made(i, k, 0))
  <2>1. w \in Collections
    BY <1>2, Stored, Values
  <2> QED
    BY <1>2, <2>1 DEF Down, Collections
<1>4. /\ T \in Tasks /\ T.phase = "run" /\ T.v = tasks[k].v /\ T.arg = tasks[k].arg
      /\ T.parent = tasks[k].parent /\ T.calls = tasks[k].calls /\ T.at = i + 1
  BY <1>1, <1>2 DEF Tasks
<1>5. Blank(tasks[k].v)
  BY <1>1 DEF MInv, Contents
<1>6. heap'[tasks[k].v] = w
  BY <1>1, <1>2 DEF MInv, IInv, TypeOK
<1>7. Blank(tasks[k].v)'
  <2>1. tasks'[k].v = tasks[k].v
    BY <1>1, <1>4
  <2> QED
    BY <1>3, <1>5, <1>6, <2>1, SameSlots DEF Blank, UpOf
<1>8. \A t \in UpTypes : Read(w.up[t]) = Zero
  BY <1>3, <1>5 DEF Blank, UpOf, AllZero
<1>9. MInv' /\ AbstractTasks' = [AbstractTasks EXCEPT ![k] = AbstractTask(k)'] /\ tasks'[k] = T
  <2> HIDE DEF w, T
  <2>1. T.at >= tasks[k].at /\ T.phase \notin {"body", "gone"} /\ tasks[k].phase = "run"
    BY <1>1, <1>2, <1>4
  <2>2. \A t \in UpTypes \ MustZeroIfInnerNotCalled(tasks[k].at) : Read(w.up[t]) = Zero
    BY <1>8
  <2>3. heap' \in {heap, [heap EXCEPT ![tasks[k].v] = w]}
    BY <1>1
  <2>4. w \in Collections /\ Running(k) /\ tasks' = [tasks EXCEPT ![k] = T]
    BY <1>1, <1>3
  <2> QED
    BY <1>4, <1>7, <2>1, <2>2, <2>3, <2>4, StayMeaning
<1>10. AbstractTask(k)' =
         Rec(tasks[k].parent, i + 1, "run", tasks[k].calls, Put(v.down, Chain[i].out, Made(i, k, 0)),
             AllZero, AllZero)
  <2> HIDE DEF w, T
  <2> QED
    BY <1>3, <1>4, <1>6, <1>9, SameSlots DEF AbstractTask, AbstractEnv, AbstractLast, AbstractUp, Settled, Rec
<1>11. AbstractEnv(k) = v.down /\ AbstractLast(k) = AllZero /\ AbstractUp(k) = AllZero
  BY <1>1 DEF AbstractEnv, AbstractLast, AbstractUp, Settled
<1>12. AbstractTasks' = Moved(AbstractTasks, k, i + 1, Put(v.down, Chain[i].out, Made(i, k, 0)))
  <2> HIDE DEF v, i
  <2>1. k \in DOMAIN AbstractTasks
        /\ AbstractTasks[k] = Rec(tasks[k].parent, i, "run", tasks[k].calls, v.down, AllZero, AllZero)
    BY <1>1, <1>11, AbstractRecord DEF i
  <2>2. Moved(AbstractTasks, k, i + 1, Put(v.down, Chain[i].out, Made(i, k, 0)))
          = [AbstractTasks EXCEPT ![k] =
              Rec(tasks[k].parent, i + 1, "run", tasks[k].calls, Put(v.down, Chain[i].out, Made(i, k, 0)),
                  AllZero, AllZero)]
    BY <2>1, InjectUpdate
  <2> QED
    BY <1>9, <1>10, <2>2
<1>13. S!Inject(k) <=>
         /\ IsA(k, "run", {"injector", "fallible"})
         /\ AbstractTasks' = Moved(AbstractTasks, k, i + 1, Put(AbstractTasks[k].env, Chain[i].out, Made(i, k, 0)))
  BY AbstractIsA DEF S!Inject, S!Put, Put, S!Made, Made, S!Chain, Chain, Moved
<1>14. AbstractTasks[k].env = v.down
  BY <1>11, AbstractIsA
<1> QED
  BY <1>1, <1>9, <1>12, <1>13, <1>14

LEMMA EndedTasks ==
  ASSUME NEW k \in DOMAIN tasks, NEW phase, NEW up, NEW env, NEW last
  PROVE  Ended(AbstractTasks, k, phase, up, env, last) =
           [AbstractTasks EXCEPT ![k] =
              Rec(tasks[k].parent, tasks[k].at, phase, tasks[k].calls, env, last, up)]
<1>1. k \in DOMAIN AbstractTasks
      /\ AbstractTasks[k] = Rec(tasks[k].parent, tasks[k].at, tasks[k].phase, tasks[k].calls,
                                AbstractEnv(k), AbstractLast(k), AbstractUp(k))
  BY AbstractRecord
<1> QED
  BY <1>1, EndUpdate

(* A task ends, with its collection holding what it returns.               *)
LEMMA OverMeaning ==
  ASSUME MInv, IInv', UNCHANGED binding, NEW k \in DOMAIN tasks, Running(k),
         NEW w \in Collections, heap' \in {heap, [heap EXCEPT ![tasks[k].v] = w]},
         NEW T \in Tasks, T.v = tasks[k].v, T.arg = tasks[k].arg, T.parent = tasks[k].parent,
         T.calls = tasks[k].calls, T.at = tasks[k].at, T.phase \in {"done", "panicked"},
         tasks' = [tasks EXCEPT ![k] = T],
         heap' # heap =>
           \A t \in UpTypes \ MustZeroIfInnerNotCalled(tasks[k].at) : Read(w.up[t]) = Zero
  PROVE  MInv' /\ AbstractTasks' = [AbstractTasks EXCEPT ![k] = AbstractTask(k)'] /\ tasks'[k] = T
<1>1. T.at >= tasks[k].at
  <2>1. tasks[k].at \in Nat
    BY TaskTypes, ChainShape DEF MInv, IInv
  <2> QED
    BY <2>1
<1>2. T.phase \notin {"body", "gone"} /\ T.phase # "run"
  OBVIOUS
<1> QED
  BY <1>1, <1>2, StayMeaning

LEMMA EndMeaning ==
  ASSUME MInv, IInv', UNCHANGED binding, NEW k \in DOMAIN tasks, Running(k),
         NEW w \in Collections, heap' \in {heap, [heap EXCEPT ![tasks[k].v] = w]},
         NEW T \in Tasks, T.v = tasks[k].v, T.arg = tasks[k].arg, T.parent = tasks[k].parent,
         T.calls = tasks[k].calls, T.at = tasks[k].at, T.phase \in {"done", "panicked"},
         tasks' = [tasks EXCEPT ![k] = T],
         heap' # heap =>
           \A t \in UpTypes \ MustZeroIfInnerNotCalled(tasks[k].at) : Read(w.up[t]) = Zero
  PROVE  MInv' /\ S!End(k, T.phase, [t \in UpTypes |-> Read(heap'[tasks[k].arg].up[t])])
<1> DEFINE none == [t \in DownTypes |-> Unset]
           up == [t \in UpTypes |-> Read(heap'[tasks[k].arg].up[t])]
<1>2. MInv' /\ AbstractTasks' = [AbstractTasks EXCEPT ![k] = AbstractTask(k)'] /\ tasks'[k] = T
  BY OverMeaning
<1>3. AbstractTask(k)' =
        Rec(tasks[k].parent, tasks[k].at, T.phase, tasks[k].calls, none, AllZero, up)
  BY <1>2, SameSlots DEF AbstractTask, AbstractEnv, AbstractLast, AbstractUp, Settled, UpOf, Rec
<1>5. S!NoEnv = none /\ S!AllZero = AllZero
  BY DEF S!NoEnv, S!DownTypes, S!BaseOut, S!Chain, S!Providers, S!Unset, S!AllZero, S!UpTypes, S!Zero,
    DownTypes, BaseOut, Chain, Providers, Unset, AllZero, UpTypes, Zero
<1> HIDE DEF none, up
<1>4. AbstractTasks' = Ended(AbstractTasks, k, T.phase, up, none, AllZero)
  <2>1. Ended(AbstractTasks, k, T.phase, up, none, AllZero) =
           [AbstractTasks EXCEPT ![k] =
              Rec(tasks[k].parent, tasks[k].at, T.phase, tasks[k].calls, none, AllZero, up)]
    <3>1. \A ph, u, e, l : Ended(AbstractTasks, k, ph, u, e, l) = [AbstractTasks EXCEPT ![k] =
              Rec(tasks[k].parent, tasks[k].at, ph, tasks[k].calls, e, l, u)]
      BY EndedTasks, SMTT(30)
    <3> QED
      BY <3>1
  <2> QED
    BY <1>2, <1>3, <2>1
<1>6. S!End(k, T.phase, up)
  BY <1>4, <1>5 DEF S!End, Ended
<1> QED
  BY <1>2, <1>6 DEF up

(* What is read from a collection, and what the providers that return      *)
(* store in it.                                                            *)
Got(v) == [t \in UpTypes |-> Read(v.up[t])]

LEMMA GotStored ==
  ASSUME NEW v \in Collections, NEW T, NEW x \in Vals, Read(x) = x
  PROVE  Got(Up(v, T, x)) = Put(Got(v), T, x)
BY ReadPut DEF Got

LEMMA GotUp ==
  /\ \A T : Put(AllZero, T, Zero) = AllZero
  /\ \A v, t : t \in UpTypes => Got(v)[t] = Read(v.up[t])
  /\ \A r : UpOf(r) = Got(heap[r])
BY DEF Got, Put, AllZero, UpOf

LEMMA Returned ==
  ASSUME binding \in Bindings, NEW i \in Providers
  PROVE  /\ Chain[i].ret \subseteq MustZeroIfInnerNotCalled(i)
         /\ Chain[i].class = "fallible" => "error" \in MustZeroIfInnerNotCalled(i)
<1>1. i \in i .. Len(Chain)
  BY ChainShape
<1>2. Chain[i].class = "fallible" => Chain[i].ret = {"error"}
  BY ChainAssumption DEF Chain, Providers
<1> QED
  BY <1>1, <1>2 DEF MustZeroIfInnerNotCalled

LEMMA PhaseChanged ==
  ASSUME TypeOK, NEW k \in DOMAIN tasks, NEW phase \in Phases, NEW T, T = [tasks[k] EXCEPT !.phase = phase]
  PROVE  /\ T \in Tasks /\ T.v = tasks[k].v /\ T.arg = tasks[k].arg /\ T.parent = tasks[k].parent
         /\ T.calls = tasks[k].calls /\ T.at = tasks[k].at /\ T.snap = tasks[k].snap /\ T.phase = phase
BY TaskTypes DEF Tasks

LEMMA RunningTask ==
  ASSUME MInv, NEW k \in DOMAIN tasks, tasks[k].phase = "run"
  PROVE  /\ Running(k) /\ tasks[k].arg = tasks[k].v /\ tasks[k].calls = 0
         /\ tasks[k].at \in Providers /\ tasks[k].at \in Nat \ {0} /\ k \in Nat
         /\ tasks[k].v \in DOMAIN heap /\ heap[tasks[k].v] \in Collections
         /\ Got(heap[tasks[k].v]) = AllZero
         /\ TypeOK /\ binding \in Bindings
<1>1. Running(k) /\ tasks[k].calls = 0 /\ tasks[k].arg = tasks[k].v
  BY DEF Running, MInv, Passing, Live, AtWork
<1>2. TypeOK /\ binding \in Bindings
  BY DEF MInv, IInv
<1>3. tasks[k].at \in Nat \ {0}
  BY <1>2, TaskTypes, ChainShape
<1>4. Got(heap[tasks[k].v]) = AllZero
  BY GotUp DEF MInv, Contents, Blank
<1> QED
  BY <1>1, <1>2, <1>3, <1>4, TaskTypes

LEMMA InjectErrorMeaning ==
  ASSUME MInv, IInv', UNCHANGED binding, NEW k \in DOMAIN tasks, InjectError(k)
  PROVE  MInv' /\ S!InjectError(k)
<1> DEFINE i == tasks[k].at
           v == heap[tasks[k].v]
           u == Up(v, MustZeroIfInnerNotCalled(i), Zero)
           w == Up(u, {"error"}, Made(i, k, 0))
           T == [tasks[k] EXCEPT !.phase = "done"]
           up == Put(AllZero, {"error"}, Made(i, k, 0))
<1>1. /\ IsA(k, "run", {"fallible"}) /\ tasks[k].phase = "run" /\ Chain[i].class = "fallible"
      /\ heap' = [heap EXCEPT ![tasks[k].v] = w] /\ tasks' = [tasks EXCEPT ![k] = T]
  BY DEF InjectError, IsA
<1>2. /\ T \in Tasks /\ T.v = tasks[k].v /\ T.arg = tasks[k].arg /\ T.parent = tasks[k].parent
      /\ T.calls = tasks[k].calls /\ T.at = tasks[k].at /\ T.phase = "done"
  BY PhaseChanged DEF MInv, IInv, Phases
<1>3. /\ u \in Collections /\ w \in Collections /\ Read(Made(i, k, 0)) = Made(i, k, 0) /\ Read(Zero) = Zero
      /\ Made(i, k, 0) \in Vals /\ Zero \in Vals
  BY <1>1, RunningTask, Stored, Values, ReadMade
<1>4. Got(w) = up
  <2>1. v \in Collections /\ Got(v) = AllZero
    BY <1>1, RunningTask
  <2>2. Got(u) = Put(Got(v), MustZeroIfInnerNotCalled(i), Zero)
    BY <1>3, <2>1, GotStored
  <2>3. Got(w) = Put(Got(u), {"error"}, Made(i, k, 0))
    BY <1>3, GotStored
  <2> QED
    BY <2>1, <2>2, <2>3, GotUp
<1>5. heap'[tasks[k].arg] = w
  BY <1>1, RunningTask
<1>6. \A t \in UpTypes \ MustZeroIfInnerNotCalled(i) : Read(w.up[t]) = Zero
  <2>1. "error" \in MustZeroIfInnerNotCalled(i)
    BY <1>1, RunningTask, Returned
  <2>2. \A t \in UpTypes \ {"error"} : up[t] = Zero
    BY DEF Put, AllZero
  <2> QED
    BY <1>4, <2>1, <2>2, GotUp
<1>7. MInv' /\ S!End(k, T.phase, [t \in UpTypes |-> Read(heap'[tasks[k].arg].up[t])])
  <2> HIDE DEF T, w
  <2>1. Running(k) /\ heap' \in {heap, [heap EXCEPT ![tasks[k].v] = w]} /\ T.phase \in {"done", "panicked"}
    BY <1>1, <1>2, RunningTask
  <2>2. tasks' = [tasks EXCEPT ![k] = T] /\ w \in Collections
    BY <1>1, <1>3
  <2>3. \A t \in UpTypes \ MustZeroIfInnerNotCalled(tasks[k].at) : Read(w.up[t]) = Zero
    BY <1>6
  <2> QED
    BY <1>2, <2>1, <2>2, <2>3, EndMeaning
<1>8. S!End(k, "done", up)
  BY <1>2, <1>4, <1>5, <1>7 DEF Got
<1>9. S!InjectError(k) <=> IsA(k, "run", {"fallible"}) /\ S!End(k, "done", up)
  BY AbstractIsA DEF S!InjectError, S!Put, Put, S!Made, Made, S!AllZero, AllZero, S!UpTypes, UpTypes,
    S!Chain, Chain, S!Providers, Providers, S!Zero, Zero
<1> QED
  BY <1>1, <1>7, <1>8, <1>9

LEMMA FinalMeaning ==
  ASSUME MInv, IInv', UNCHANGED binding, NEW k \in DOMAIN tasks, Final(k)
  PROVE  MInv' /\ S!Final(k)
<1> DEFINE i == tasks[k].at
           v == heap[tasks[k].v]
           w == Up(v, Chain[i].ret, Made(i, k, 0))
           T == [tasks[k] EXCEPT !.phase = "done"]
           up == Put(AllZero, Chain[i].ret, Made(i, k, 0))
<1>1. /\ IsA(k, "run", {"final"}) /\ tasks[k].phase = "run"
      /\ heap' = [heap EXCEPT ![tasks[k].v] = w] /\ tasks' = [tasks EXCEPT ![k] = T]
  BY DEF Final, IsA
<1>2. /\ T \in Tasks /\ T.v = tasks[k].v /\ T.arg = tasks[k].arg /\ T.parent = tasks[k].parent
      /\ T.calls = tasks[k].calls /\ T.at = tasks[k].at /\ T.phase = "done"
  BY PhaseChanged DEF MInv, IInv, Phases
<1>3. w \in Collections /\ Read(Made(i, k, 0)) = Made(i, k, 0) /\ Made(i, k, 0) \in Vals
  BY <1>1, RunningTask, Stored, Values, ReadMade
<1>4. Got(w) = up
  <2>1. v \in Collections /\ Got(v) = AllZero
    BY <1>1, RunningTask
  <2> QED
    BY <1>3, <2>1, GotStored
<1>5. heap'[tasks[k].arg] = w
  BY <1>1, RunningTask
<1>6. \A t \in UpTypes \ MustZeroIfInnerNotCalled(i) : Read(w.up[t]) = Zero
  <2>1. Chain[i].ret \subseteq MustZeroIfInnerNotCalled(i)
    BY <1>1, RunningTask, Returned
  <2>2. \A t \in UpTypes \ Chain[i].ret : up[t] = Zero
    BY DEF Put, AllZero
  <2> QED
    BY <1>4, <2>1, <2>2, GotUp
<1>7. MInv' /\ S!End(k, T.phase, [t \in UpTypes |-> Read(heap'[tasks[k].arg].up[t])])
  <2> HIDE DEF T, w
  <2>1. Running(k) /\ heap' \in {heap, [heap EXCEPT ![tasks[k].v] = w]} /\ T.phase \in {"done", "panicked"}
    BY <1>1, <1>2, RunningTask
  <2>2. tasks' = [tasks EXCEPT ![k] = T] /\ w \in Collections
    BY <1>1, <1>3
  <2>3. \A t \in UpTypes \ MustZeroIfInnerNotCalled(tasks[k].at) : Read(w.up[t]) = Zero
    BY <1>6
  <2> QED
    BY <1>2, <2>1, <2>2, <2>3, EndMeaning
<1>8. S!End(k, "done", up)
  BY <1>2, <1>4, <1>5, <1>7 DEF Got
<1>9. S!Final(k) <=> IsA(k, "run", {"final"}) /\ S!End(k, "done", up)
  BY AbstractIsA DEF S!Final, S!Put, Put, S!Made, Made, S!AllZero, AllZero, S!UpTypes, UpTypes,
    S!Chain, Chain, S!Providers, Providers, S!Zero, Zero
<1> QED
  BY <1>1, <1>7, <1>8, <1>9

LEMMA PanicMeaning ==
  ASSUME MInv, IInv', UNCHANGED binding, NEW k \in DOMAIN tasks, Panic(k)
  PROVE  MInv' /\ S!Panic(k)
<1> DEFINE w == heap[tasks[k].v]
           T == [tasks[k] EXCEPT !.phase = "panicked"]
<1>1. /\ IsA(k, "run", {"injector", "fallible", "final"}) /\ tasks[k].phase = "run"
      /\ heap' = heap /\ tasks' = [tasks EXCEPT ![k] = T]
  BY DEF Panic, IsA
<1>2. /\ T \in Tasks /\ T.v = tasks[k].v /\ T.arg = tasks[k].arg /\ T.parent = tasks[k].parent
      /\ T.calls = tasks[k].calls /\ T.at = tasks[k].at /\ T.phase = "panicked"
  BY PhaseChanged DEF MInv, IInv, Phases
<1>3. w \in Collections /\ Got(w) = AllZero /\ heap'[tasks[k].arg] = w
  BY <1>1, RunningTask
<1>4. MInv' /\ S!End(k, T.phase, [t \in UpTypes |-> Read(heap'[tasks[k].arg].up[t])])
  <2> HIDE DEF T, w
  <2>1. Running(k) /\ heap' \in {heap, [heap EXCEPT ![tasks[k].v] = w]} /\ T.phase \in {"done", "panicked"}
    BY <1>1, <1>2, RunningTask
  <2>2. tasks' = [tasks EXCEPT ![k] = T] /\ w \in Collections /\ heap' = heap
    BY <1>1, <1>3
  <2> QED
    BY <1>2, <2>1, <2>2, EndMeaning
<1>5. S!End(k, "panicked", AllZero)
  BY <1>2, <1>3, <1>4 DEF Got
<1>6. IsA(k, "run", {"injector", "fallible", "final"}) /\ S!End(k, "panicked", AllZero) => S!Panic(k)
  BY AbstractIsA DEF S!Panic, S!AllZero, AllZero, S!UpTypes, UpTypes,
    S!Chain, Chain, S!Providers, Providers, S!Zero, Zero
<1> QED
  BY <1>1, <1>4, <1>5, <1>6

(* A task inside a wrapper that is not waiting.                            *)
LEMMA WrappingTask ==
  ASSUME MInv, NEW k \in DOMAIN tasks, tasks[k].phase = "body", ~Active(k)
  PROVE  /\ Running(k)
         /\ (tasks[k].calls < 2 \/ Parallel(k)) => tasks[k].arg = tasks[k].v
         /\ (tasks[k].calls = 0 \/ Parallel(k)) => Got(heap[tasks[k].v]) = AllZero
         /\ \A t \in UpTypes \ MustZeroIfInnerNotCalled(tasks[k].at) : Read(heap[tasks[k].v].up[t]) = Zero
         /\ tasks[k].at \in Providers /\ tasks[k].at \in Nat \ {0} /\ k \in Nat /\ tasks[k].calls \in Nat
         /\ tasks[k].v \in DOMAIN heap /\ heap[tasks[k].v] \in Collections
         /\ tasks[k].arg \in DOMAIN heap
         /\ TypeOK /\ binding \in Bindings
<1>1. TypeOK /\ binding \in Bindings /\ tasks[k].arg \in DOMAIN heap
  BY DEF MInv, IInv, TypeOK
<1>2. Running(k) /\ ((tasks[k].calls < 2 \/ Parallel(k)) => tasks[k].arg = tasks[k].v)
  BY DEF Running, MInv, Passing, Live, AtWork
<1>3. tasks[k].at \in Nat \ {0}
  BY <1>1, TaskTypes, ChainShape
<1>4. (tasks[k].calls = 0 \/ Parallel(k)) => Got(heap[tasks[k].v]) = AllZero
  BY GotUp DEF MInv, Contents, Blank
<1>5. \A t \in UpTypes \ MustZeroIfInnerNotCalled(tasks[k].at) : Read(heap[tasks[k].v].up[t]) = Zero
  BY DEF MInv, Contents, UpOf
<1> QED
  BY <1>1, <1>2, <1>3, <1>4, <1>5, TaskTypes

(* What the abstract task has from the last call of inner().               *)
LEMMA LastGot ==
  ASSUME MInv, NEW k \in DOMAIN tasks, tasks[k].phase = "body", ~Active(k)
  PROVE  AbstractLast(k) = Got(heap[tasks[k].v])
<1>1. CASE tasks[k].calls = 0 \/ Parallel(k)
  <2>1. ~Settled(k)
    BY <1>1 DEF Settled, Parallel
  <2> QED
    BY <1>1, <2>1, WrappingTask DEF AbstractLast
<1>2. CASE ~(tasks[k].calls = 0 \/ Parallel(k))
  <2>1. tasks[k].calls > 0
    BY <1>2, WrappingTask
  <2> QED
    BY <1>2, <2>1, GotUp DEF AbstractLast, Settled, Parallel
<1> QED
  BY <1>1, <1>2

(* Nothing is promised of what a wrapper returns that called again.        *)
LEMMA Anyhow ==
  ASSUME MInv, MInv', UNCHANGED binding, NEW k \in DOMAIN tasks, NEW phase \in {"done", "panicked"},
         tasks'[k].arg \in DOMAIN heap', k \in DOMAIN tasks',
         S!End(k, phase, [t \in UpTypes |-> Read(heap'[tasks'[k].arg].up[t])])
  PROVE  S!EndAnyhow(k, phase)
<1> DEFINE up == [t \in UpTypes |-> Read(heap'[tasks'[k].arg].up[t])]
<1>1. up \in Ups
  <2>1. heap'[tasks'[k].arg] \in Collections
    BY SameTypes DEF MInv, IInv, TypeOK
  <2> QED
    BY <2>1, Values DEF Collections, Ups, Read
<1> HIDE DEF up
<1>2. AbstractTasks'[k].up = up
  <2>1. AbstractTasks' = Ended(AbstractTasks, k, phase, up, S!NoEnv, S!AllZero)
    BY DEF S!End, Ended, up
  <2>2. \A ph, u, e, l : Ended(AbstractTasks, k, ph, u, e, l)[k].up = u
    <3>1. k \in DOMAIN AbstractTasks
      BY AbstractRecord
    <3> QED
      BY <3>1, EndedTasks DEF Rec
  <2> QED
    BY <2>1, <2>2
<1>3. S!Ups = Ups
  BY DEF S!Ups, Ups, S!UpTypes, UpTypes, S!Vals, Vals, S!Chain, Chain, S!Providers, Providers
<1> QED
  BY <1>1, <1>2, <1>3 DEF S!EndAnyhow, up

LEMMA WrapperReturnMeaning ==
  ASSUME MInv, IInv', UNCHANGED binding, NEW k \in DOMAIN tasks, WrapperReturn(k)
  PROVE  MInv' /\ S!WrapperReturn(k)
<1> DEFINE i == tasks[k].at
           v == heap[tasks[k].v]
           u == IF tasks[k].calls = 0 THEN Up(v, MustZeroIfInnerNotCalled(i), Zero) ELSE v
           w == Up(u, Chain[i].ret, Made(i, k, 0))
           T == [tasks[k] EXCEPT !.phase = "done"]
           up == Put(Got(v), Chain[i].ret, Made(i, k, 0))
<1>1. /\ IsA(k, "body", {"wrapper"}) /\ ~Active(k) /\ tasks[k].phase = "body"
      /\ heap' = [heap EXCEPT ![tasks[k].v] = w] /\ tasks' = [tasks EXCEPT ![k] = T]
  BY DEF WrapperReturn, IsA
<1>2. /\ T \in Tasks /\ T.v = tasks[k].v /\ T.arg = tasks[k].arg /\ T.parent = tasks[k].parent
      /\ T.calls = tasks[k].calls /\ T.at = tasks[k].at /\ T.phase = "done"
  BY PhaseChanged DEF MInv, IInv, Phases
<1>3. /\ v \in Collections /\ Read(Made(i, k, 0)) = Made(i, k, 0) /\ Made(i, k, 0) \in Vals
      /\ Read(Zero) = Zero /\ Zero \in Vals
  BY <1>1, WrappingTask, Values, ReadMade
<1>4. u \in Collections /\ Got(u) = Got(v)
  <2>1. CASE tasks[k].calls = 0
    <3>1. Got(v) = AllZero
      BY <1>1, <2>1, WrappingTask
    <3>2. Up(v, MustZeroIfInnerNotCalled(i), Zero) \in Collections
      BY <1>3, Stored
    <3>3. Got(Up(v, MustZeroIfInnerNotCalled(i), Zero)) = Put(Got(v), MustZeroIfInnerNotCalled(i), Zero)
      BY <1>3, GotStored
    <3> QED
      BY <2>1, <3>1, <3>2, <3>3, GotUp
  <2>2. CASE tasks[k].calls # 0
    BY <1>3, <2>2
  <2> QED
    BY <2>1, <2>2
<1>5. w \in Collections /\ Got(w) = up
  <2> HIDE DEF u, v
  <2>1. w \in Collections
    BY <1>3, <1>4, Stored
  <2>2. Got(w) = Put(Got(u), Chain[i].ret, Made(i, k, 0))
    BY <1>3, <1>4, GotStored
  <2> QED
    BY <1>4, <2>1, <2>2
<1>6. \A t \in UpTypes \ MustZeroIfInnerNotCalled(i) : Read(w.up[t]) = Zero
  <2>1. Chain[i].ret \subseteq MustZeroIfInnerNotCalled(i)
    BY <1>1, WrappingTask, Returned
  <2>2. \A t \in UpTypes \ Chain[i].ret : up[t] = Got(v)[t]
    BY DEF Put, Got
  <2>3. \A t \in UpTypes \ MustZeroIfInnerNotCalled(i) : Got(v)[t] = Zero
    BY <1>1, WrappingTask, GotUp
  <2> QED
    BY <1>5, <2>1, <2>2, <2>3, GotUp
<1>7. MInv' /\ S!End(k, T.phase, [t \in UpTypes |-> Read(heap'[tasks[k].arg].up[t])])
  <2> HIDE DEF T, w
  <2>1. Running(k) /\ heap' \in {heap, [heap EXCEPT ![tasks[k].v] = w]} /\ T.phase \in {"done", "panicked"}
    BY <1>1, <1>2, WrappingTask
  <2>2. tasks' = [tasks EXCEPT ![k] = T] /\ w \in Collections
    BY <1>1, <1>5
  <2>3. \A t \in UpTypes \ MustZeroIfInnerNotCalled(tasks[k].at) : Read(w.up[t]) = Zero
    BY <1>6
  <2> QED
    BY <1>2, <2>1, <2>2, <2>3, EndMeaning
<1>8. S!Retried(k) <=> tasks[k].calls > 1 /\ ~Parallel(k)
  BY AbstractIsA DEF S!Retried, S!Chain, Chain, Parallel
<1>9. CASE S!Retried(k)
  <2>1. tasks'[k].arg = tasks[k].arg /\ tasks[k].arg \in DOMAIN heap' /\ k \in DOMAIN tasks'
    BY <1>1, <1>2, WrappingTask DEF MInv, IInv, TypeOK
  <2>2. S!EndAnyhow(k, "done")
    BY <1>2, <1>7, <2>1, Anyhow
  <2> QED
    BY <1>1, <1>7, <1>9, <2>2, AbstractIsA DEF S!WrapperReturn
<1>10. CASE ~S!Retried(k)
  <2>1. heap'[tasks[k].arg] = w
    <3>1. tasks[k].calls < 2 \/ Parallel(k)
      BY <1>1, <1>8, <1>10, WrappingTask
    <3> QED
      BY <1>1, <3>1, WrappingTask
  <2>2. S!End(k, "done", up)
    BY <1>2, <1>5, <1>7, <2>1 DEF Got
  <2>3. AbstractLast(k) = Got(v)
    BY <1>1, LastGot
  <2>4. S!WrapperReturn(k) <=>
          /\ IsA(k, "body", {"wrapper"}) /\ ~Active(k)
          /\ S!End(k, "done", Put(AbstractLast(k), Chain[i].ret, Made(i, k, 0)))
    BY <1>10, AbstractIsA DEF S!WrapperReturn, S!Put, Put, S!Made, Made, S!Chain, Chain
  <2> QED
    BY <1>1, <1>7, <2>2, <2>3, <2>4
<1> QED
  BY <1>9, <1>10

LEMMA WrapperPanicMeaning ==
  ASSUME MInv, IInv', UNCHANGED binding, NEW k \in DOMAIN tasks, WrapperPanic(k)
  PROVE  MInv' /\ S!Panic(k)
<1> DEFINE i == tasks[k].at
           v == heap[tasks[k].v]
           w == Up(v, MustZeroIfInnerNotCalled(i), Zero)
           T == [tasks[k] EXCEPT !.phase = "panicked"]
<1>1. /\ IsA(k, "body", {"wrapper"}) /\ ~Active(k) /\ tasks[k].phase = "body"
      /\ heap' = [heap EXCEPT ![tasks[k].v] = w] /\ tasks' = [tasks EXCEPT ![k] = T]
  BY DEF WrapperPanic, IsA
<1>2. /\ T \in Tasks /\ T.v = tasks[k].v /\ T.arg = tasks[k].arg /\ T.parent = tasks[k].parent
      /\ T.calls = tasks[k].calls /\ T.at = tasks[k].at /\ T.phase = "panicked"
  BY PhaseChanged DEF MInv, IInv, Phases
<1>3. v \in Collections /\ Read(Zero) = Zero /\ Zero \in Vals
  BY <1>1, WrappingTask, Values, ReadMade
<1>4. w \in Collections /\ Got(w) = AllZero
  <2>1. w \in Collections
    BY <1>3, Stored
  <2>2. Got(w) = Put(Got(v), MustZeroIfInnerNotCalled(i), Zero)
    BY <1>3, GotStored
  <2>3. \A t \in UpTypes \ MustZeroIfInnerNotCalled(i) : Got(v)[t] = Zero
    BY <1>1, WrappingTask, GotUp
  <2>4. Put(Got(v), MustZeroIfInnerNotCalled(i), Zero) = AllZero
    BY <2>3 DEF Put, AllZero, Got
  <2> QED
    BY <2>1, <2>2, <2>4
<1>5. \A t \in UpTypes : Read(w.up[t]) = Zero
  BY <1>4 DEF Got, AllZero
<1>6. MInv' /\ S!End(k, T.phase, [t \in UpTypes |-> Read(heap'[tasks[k].arg].up[t])])
  <2> HIDE DEF T, w
  <2>1. Running(k) /\ heap' \in {heap, [heap EXCEPT ![tasks[k].v] = w]} /\ T.phase \in {"done", "panicked"}
    BY <1>1, <1>2, WrappingTask
  <2>2. tasks' = [tasks EXCEPT ![k] = T] /\ w \in Collections
    BY <1>1, <1>4
  <2>3. \A t \in UpTypes \ MustZeroIfInnerNotCalled(tasks[k].at) : Read(w.up[t]) = Zero
    BY <1>5
  <2> QED
    BY <1>2, <2>1, <2>2, <2>3, EndMeaning
<1>7. S!Retried(k) <=> tasks[k].calls > 1 /\ ~Parallel(k)
  BY AbstractIsA DEF S!Retried, S!Chain, Chain, Parallel
<1>8. CASE S!Retried(k)
  <2>1. tasks'[k].arg = tasks[k].arg /\ tasks[k].arg \in DOMAIN heap' /\ k \in DOMAIN tasks'
    BY <1>1, <1>2, WrappingTask DEF MInv, IInv, TypeOK
  <2>2. S!EndAnyhow(k, "panicked")
    BY <1>2, <1>6, <2>1, Anyhow
  <2> QED
    BY <1>1, <1>6, <1>8, <2>2, AbstractIsA DEF S!Panic
<1>9. CASE ~S!Retried(k)
  <2>1. heap'[tasks[k].arg] = w
    <3>1. tasks[k].calls < 2 \/ Parallel(k)
      BY <1>1, <1>7, <1>9, WrappingTask
    <3> QED
      BY <1>1, <3>1, WrappingTask
  <2>2. S!End(k, "panicked", AllZero)
    BY <1>2, <1>4, <1>6, <2>1 DEF Got
  <2>3. S!AllZero = AllZero
    BY DEF S!AllZero, AllZero, S!UpTypes, UpTypes, S!Chain, Chain, S!Providers, Providers, S!Zero, Zero
  <2> QED
    BY <1>1, <1>6, <1>9, <2>2, <2>3, AbstractIsA DEF S!Panic
<1> QED
  BY <1>8, <1>9

-----------------------------------------------------------------------------
(* A task enters its wrapper: nobody's reading changes.                    *)
LEMMA EnterWrapperMeaning ==
  ASSUME MInv, IInv', UNCHANGED binding, NEW k \in DOMAIN tasks, EnterWrapper(k)
  PROVE  MInv' /\ S!EnterWrapper(k)
<1> DEFINE N == DOMAIN tasks
           T == [tasks[k] EXCEPT !.phase = "body", !.snap = NewRef]
<1>1. /\ IsA(k, "run", {"wrapper"}) /\ tasks[k].phase = "run" /\ Chain[tasks[k].at].class = "wrapper"
      /\ heap' = Append(heap, heap[tasks[k].v]) /\ tasks' = [tasks EXCEPT ![k] = T]
  BY DEF EnterWrapper, IsA
<1>2. /\ T.v = tasks[k].v /\ T.arg = tasks[k].arg /\ T.parent = tasks[k].parent
      /\ T.calls = tasks[k].calls /\ T.at = tasks[k].at /\ T.snap = NewRef /\ T.phase = "body"
  BY <1>1, TaskTypes DEF MInv, IInv, Tasks
<1> HIDE DEF T
<1>3. /\ tasks'[k] = T /\ DOMAIN tasks' = N
      /\ \A m \in N \ {k} : tasks'[m] = tasks[m]
  BY <1>1
<1>4. \A m \in N : /\ tasks'[m].v = tasks[m].v /\ tasks'[m].arg = tasks[m].arg
                   /\ tasks'[m].parent = tasks[m].parent /\ tasks'[m].calls = tasks[m].calls
                   /\ tasks'[m].at = tasks[m].at
                   /\ Live(m)' <=> Live(m)
  BY <1>1, <1>2, <1>3 DEF Live
<1>5. \A m \in N : Parallel(m)' = Parallel(m) /\ Active(m)' = Active(m)
  BY <1>3, <1>4, SameSlots DEF Parallel, Active, Live
<1>6. /\ heap'[NewRef] = heap[tasks[k].v]
      /\ \A r \in DOMAIN heap : heap'[r] = heap[r]
      /\ tasks[k].v \in DOMAIN heap /\ 1 \in DOMAIN heap
  BY <1>1, RunningTask, References DEF MInv, IInv, TypeOK, NewRef
<1>7. \A m \in N : Live(m) /\ tasks[m].parent # 0 => tasks[m].parent \in N
  BY CallerIsTask DEF MInv
<1>8. Passing'
  <2> SUFFICES ASSUME NEW m \in N, Live(m)'
               PROVE  /\ tasks'[m].phase = "run" => tasks'[m].calls = 0
                      /\ tasks'[m].phase = "body" => Chain'[tasks'[m].at].class = "wrapper"
                      /\ AtWork(m)' /\ (tasks'[m].calls < 2 \/ Parallel(m)') => tasks'[m].v = tasks'[m].arg
                      /\ tasks'[m].parent # 0 =>
                           /\ tasks'[tasks'[m].parent].calls > 0
                           /\ ~Parallel(tasks[m].parent)' => tasks'[m].arg = tasks'[tasks'[m].parent].v
                      /\ \A j \in N : Live(j)' /\ tasks'[j].v = tasks'[m].arg =>
                           /\ j < m => tasks'[m].parent >= j /\ tasks'[tasks'[m].parent].v = tasks'[m].arg
                           /\ j > m => tasks'[m].v = tasks'[m].arg
    BY <1>3, <1>4 DEF Passing
  <2>1. Live(m)
    BY <1>4
  <2>2. tasks'[m].phase = "run" => tasks'[m].calls = 0
    BY <1>2, <1>3, <2>1 DEF MInv, Passing
  <2>3. tasks'[m].phase = "body" => Chain'[tasks'[m].at].class = "wrapper"
    BY <1>1, <1>2, <1>3, <2>1 DEF MInv, Passing, Chain
  <2>4. AtWork(m)' /\ (tasks'[m].calls < 2 \/ Parallel(m)') => tasks'[m].v = tasks'[m].arg
    <3>1. AtWork(m)' => AtWork(m)
      BY <1>1, <1>3 DEF AtWork
    <3> QED
      BY <1>4, <1>5, <2>1, <3>1 DEF MInv, Passing
  <2>5. tasks'[m].parent # 0 =>
          /\ tasks'[tasks'[m].parent].calls > 0
          /\ ~Parallel(tasks[m].parent)' => tasks'[m].arg = tasks'[tasks'[m].parent].v
    BY <1>4, <1>5, <1>7, <2>1 DEF MInv, Passing
  <2>6. ASSUME NEW j \in N, Live(j)', tasks'[j].v = tasks'[m].arg
        PROVE  /\ j < m => tasks'[m].parent >= j /\ tasks'[tasks'[m].parent].v = tasks'[m].arg
               /\ j > m => tasks'[m].v = tasks'[m].arg
    <3>1. /\ j < m => tasks[m].parent >= j /\ tasks[tasks[m].parent].v = tasks[m].arg
          /\ j > m => tasks[m].v = tasks[m].arg
      BY <1>4, <2>1, <2>6 DEF MInv, Passing
    <3>2. j < m => tasks[m].parent \in N
      BY <1>7, <2>1, <3>1, Fresh DEF MInv
    <3> QED
      BY <1>4, <3>1, <3>2
  <2> QED
    BY <2>2, <2>3, <2>4, <2>5, <2>6
<1>9. OneCall' /\ Nested'
  BY <1>3, <1>4, <1>5, <1>7 DEF MInv, OneCall, Nested
<1>10. Contents'
  <2>1. heap'[1].down = BaseEnv' /\ Blank(1)'
    BY <1>6, SameSlots DEF MInv, Contents, Blank
  <2>2. ASSUME NEW j \in N
        PROVE  /\ tasks'[j].phase = "run" => Blank(tasks[j].v)'
               /\ tasks'[j].phase = "body" =>
                    /\ Blank(tasks[j].snap)'
                    /\ tasks'[j].calls = 0 \/ Parallel(j)' => Blank(tasks[j].v)'
                    /\ tasks'[j].calls = 0 => heap'[tasks'[j].v].down = heap'[tasks'[j].snap].down
                    /\ \A t \in UpTypes \ MustZeroIfInnerNotCalled(tasks[j].at) : UpOf(tasks[j].v)'[t] = Zero
    <3>1. CASE j = k
      <4>1. Blank(tasks[k].v)
        BY <1>1 DEF MInv, Contents
      <4>2. Blank(tasks[k].v)' /\ Blank(tasks[k].snap)'
        BY <1>2, <1>3, <1>6, <4>1, SameSlots DEF Blank, UpOf
      <4>3. \A t \in UpTypes : UpOf(tasks[k].v)'[t] = Zero
        BY <4>2, SameSlots DEF Blank, AllZero
      <4>4. heap'[tasks'[k].v].down = heap'[tasks'[k].snap].down
        BY <1>2, <1>3, <1>6
      <4> QED
        BY <1>2, <1>3, <3>1, <4>2, <4>3, <4>4
    <3>2. CASE j # k
      <4>1. /\ tasks'[j] = tasks[j] /\ heap'[tasks[j].v] = heap[tasks[j].v]
            /\ tasks[j].phase = "body" => heap'[tasks[j].snap] = heap[tasks[j].snap]
        BY <1>3, <1>6, <3>2, References DEF MInv
      <4> QED
        BY <1>5, <4>1, SameSlots DEF MInv, Contents, Blank
    <3> QED
      BY <3>1, <3>2
  <2> QED
    BY <1>3, <1>4, <2>1, <2>2, SameSlots DEF Contents
<1>11. MInv'
  BY <1>8, <1>9, <1>10 DEF MInv
<1>12. \A j \in N \ {k} : AbstractTask(j)' = AbstractTask(j)
  <2> SUFFICES ASSUME NEW j \in N, j # k PROVE AbstractTask(j)' = AbstractTask(j)
    OBVIOUS
  <2>1. /\ tasks'[j] = tasks[j] /\ heap'[tasks[j].v] = heap[tasks[j].v]
        /\ heap'[tasks[j].arg] = heap[tasks[j].arg]
        /\ tasks[j].phase = "body" => heap'[tasks[j].snap] = heap[tasks[j].snap]
    BY <1>3, <1>6, References DEF MInv
  <2> QED
    BY <1>5, <2>1, AbstractSame
<1>13. AbstractTask(k)' = [AbstractTask(k) EXCEPT !.phase = "body"]
  <2>1. AbstractTask(k) =
          Rec(tasks[k].parent, tasks[k].at, "run", tasks[k].calls, heap[tasks[k].v].down, AllZero, AllZero)
    BY <1>1 DEF AbstractTask, Rec, AbstractEnv, AbstractLast, AbstractUp, Settled
  <2>2. tasks'[k].calls = 0
    BY <1>1, <1>4, RunningTask
  <2>3. AbstractEnv(k)' = heap[tasks[k].v].down /\ AbstractLast(k)' = AllZero /\ AbstractUp(k)' = AllZero
    BY <1>2, <1>3, <1>6, <2>2, SameSlots DEF AbstractEnv, AbstractLast, AbstractUp, Settled
  <2>4. AbstractTask(k)' =
          Rec(tasks[k].parent, tasks[k].at, "body", tasks[k].calls, heap[tasks[k].v].down, AllZero, AllZero)
    BY <1>2, <1>3, <2>3 DEF AbstractTask, Rec
  <2> QED
    BY <2>1, <2>4 DEF Rec
<1>14. AbstractTasks' = [AbstractTasks EXCEPT ![k].phase = "body"]
  <2>1. AbstractTasks' = [AbstractTasks EXCEPT ![k] = AbstractTask(k)']
    BY <1>3, <1>12, AbstractUpdate
  <2>2. AbstractTasks[k] = AbstractTask(k)
    BY AbstractIsA
  <2> QED
    BY <1>13, <2>1, <2>2
<1> QED
  BY <1>1, <1>11, <1>14, AbstractIsA DEF S!EnterWrapper

-----------------------------------------------------------------------------
(* A call of inner() is over: its caller has what was returned, once no    *)
(* other call is under way.                                                *)
Gone(f, c, up) == [f EXCEPT ![c].phase = "gone", ![c].up = up]

LEMMA GoneUpdate ==
  ASSUME NEW f, NEW k \in DOMAIN f, NEW p, NEW i, NEW ph, NEW c, NEW d, NEW l, NEW u,
         f[k] = Rec(p, i, ph, c, d, l, u), NEW u2
  PROVE  Gone(f, k, u2) = [f EXCEPT ![k] = Rec(p, i, "gone", c, d, l, u2)]
<1> DEFINE r == f[k]
           s == Rec(p, i, "gone", c, d, l, u)
           q == Rec(p, i, "gone", c, d, l, u2)
<1>1. [r EXCEPT !.phase = "gone"] = s /\ [s EXCEPT !.up = u2] = q
  BY DEF Rec
<1>2. [f EXCEPT ![k].phase = "gone", ![k].up = u2] = [f EXCEPT ![k] = [r EXCEPT !.phase = "gone", !.up = u2]]
  OBVIOUS
<1>3. [r EXCEPT !.phase = "gone", !.up = u2] = [[r EXCEPT !.phase = "gone"] EXCEPT !.up = u2]
  OBVIOUS
<1> QED
  BY <1>1, <1>2, <1>3 DEF Gone

LEMMA CollectMeaning ==
  ASSUME MInv, IInv', UNCHANGED binding, NEW c \in DOMAIN tasks, Collect(c)
  PROVE  MInv' /\ S!Collect(c)
<1> DEFINE N == DOMAIN tasks
           T == [tasks[c] EXCEPT !.phase = "gone"]
<1> PICK k : k = tasks[c].parent
  OBVIOUS
<1>1. /\ tasks[c].phase \in {"done", "panicked"} /\ heap' = heap /\ tasks' = [tasks EXCEPT ![c] = T]
      /\ Live(c) /\ tasks[c].phase # "body"
  BY DEF Collect, Live
<1>2. /\ T \in Tasks /\ T.v = tasks[c].v /\ T.arg = tasks[c].arg /\ T.parent = k
      /\ T.calls = tasks[c].calls /\ T.at = tasks[c].at /\ T.phase = "gone"
  BY PhaseChanged DEF MInv, IInv, Phases
<1> HIDE DEF T
<1>3. /\ tasks'[c] = T /\ DOMAIN tasks' = N
      /\ \A m \in N \ {c} : tasks'[m] = tasks[m]
  BY <1>1
<1>4. Passing' /\ OneCall' /\ Nested'
  <2>1. T.at >= tasks[c].at /\ T.phase # "body" /\ (T.phase = "run" => tasks[c].phase = "run")
    <3>1. tasks[c].at \in Nat
      BY TaskTypes, ChainShape DEF MInv, IInv
    <3> QED
      BY <1>2, <3>1
  <2> QED
    BY <1>1, <1>2, <2>1, StayPassing
<1>5. Contents'
  <2>1. \A j \in N : j # c => tasks'[j] = tasks[j] /\ Parallel(j)' = Parallel(j)
    BY <1>3, SameSlots DEF Parallel
  <2>2. tasks'[c].phase = "gone"
    BY <1>2, <1>3
  <2>3. heap'[1].down = BaseEnv' /\ Blank(1)'
    BY <1>1, SameSlots DEF MInv, Contents, Blank
  <2> QED
    BY <1>1, <1>3, <2>1, <2>2, <2>3, SameSlots DEF MInv, Contents, Blank
<1>6. MInv'
  BY <1>4, <1>5 DEF MInv
<1>7. ASSUME NEW j \in N, j # c, j # k \/ Parallel(j)
      PROVE  AbstractTask(j)' = AbstractTask(j)
  <2>1. tasks'[j] = tasks[j]
    BY <1>3, <1>7
  <2>2. CASE j # k
    <3>1. Active(j)' = Active(j)
      BY <1>2, <1>3, <2>2 DEF Active
    <3> QED
      BY <1>1, <2>1, <3>1, AbstractSame
  <2>3. CASE Parallel(j)
    <3>1. ~Settled(j) /\ ~Settled(j)'
      BY <2>1, <2>3, SameSlots DEF Settled, Parallel
    <3>2. AbstractLast(j)' = AbstractLast(j)
      BY <3>1, SameSlots DEF AbstractLast
    <3>3. AbstractEnv(j)' = AbstractEnv(j) /\ AbstractUp(j)' = AbstractUp(j)
      BY <1>1, <2>1, SameSlots DEF AbstractEnv, AbstractUp
    <3> QED
      BY <2>1, <3>2, <3>3 DEF AbstractTask
  <2> QED
    BY <1>7, <2>2, <2>3
<1>8. AbstractTask(c)' = Rec(k, tasks[c].at, "gone", tasks[c].calls, AbstractEnv(c), AbstractLast(c), AllZero)
  <2>1. AbstractEnv(c) = [t \in DownTypes |-> Unset] /\ AbstractLast(c) = AllZero
    BY <1>1 DEF AbstractEnv, AbstractLast, Settled
  <2>2. AbstractEnv(c)' = [t \in DownTypes |-> Unset] /\ AbstractLast(c)' = AllZero /\ AbstractUp(c)' = AllZero
    BY <1>2, <1>3, SameSlots DEF AbstractEnv, AbstractLast, AbstractUp, Settled
  <2> QED
    BY <1>2, <1>3, <2>1, <2>2 DEF AbstractTask, Rec
<1>9. Gone(AbstractTasks, c, AllZero) = [AbstractTasks EXCEPT ![c] = AbstractTask(c)']
  BY <1>8, AbstractRecord, GoneUpdate
<1>10. S!AllZero = AllZero
  BY DEF S!AllZero, AllZero, S!UpTypes, UpTypes, S!Chain, Chain, S!Providers, Providers, S!Zero, Zero
<1>11. CASE k = 0 \/ Parallel(k)
  <2>1. \A j \in N \ {c} : AbstractTask(j)' = AbstractTask(j)
    <3>1. \A j \in N : j = k /\ k = 0 => FALSE
      BY Fresh DEF MInv
    <3> QED
      BY <1>7, <1>11, <3>1
  <2>2. AbstractTasks' = Gone(AbstractTasks, c, AllZero)
    BY <1>3, <1>9, <2>1, AbstractUpdate
  <2>3. k # 0 => k \in N
    BY <1>1, CallerIsTask DEF MInv
  <2>4. k # 0 => Chain[AbstractTasks[k].at].parallel
    BY <1>11, <2>3, AbstractIsA DEF Parallel
  <2> QED
    BY <1>1, <1>6, <1>10, <2>2, <2>4, AbstractIsA DEF S!Collect, S!Chain, Chain, Gone
<1>12. CASE k # 0 /\ ~Parallel(k)
  <2>1. /\ k \in N \ {c} /\ tasks[k].phase = "body" /\ tasks[k].calls > 0
        /\ tasks[c].arg = tasks[k].v /\ tasks'[k] = tasks[k]
    BY <1>1, <1>3, <1>12, CallerIsTask DEF MInv, Passing
  <2>2. Active(k) /\ ~Active(k)'
    <3>1. \A d \in N : Live(d) /\ tasks[d].parent = k => d = c
      BY <1>1, <1>12 DEF MInv, OneCall
    <3> QED
      BY <1>1, <1>2, <1>3, <3>1 DEF Active, Live
  <2>3. AbstractLast(k)' = AbstractUp(c)
    <3>1. Settled(k)'
      BY <1>12, <2>1, <2>2, SameSlots DEF Settled, Parallel
    <3>2. UpOf(tasks[k].v)' = UpOf(tasks[k].v)
      BY <1>1, <2>1, SameSlots
    <3>3. AbstractUp(c) = UpOf(tasks[c].arg)
      BY <1>1 DEF AbstractUp
    <3> QED
      BY <2>1, <3>1, <3>2, <3>3 DEF AbstractLast
  <2>4. AbstractTask(k)' = [AbstractTask(k) EXCEPT !.last = AbstractUp(c)]
    <3>1. AbstractEnv(k)' = AbstractEnv(k) /\ AbstractUp(k)' = AbstractUp(k)
      BY <1>1, <2>1, SameSlots DEF AbstractEnv, AbstractUp
    <3> QED
      BY <2>1, <2>3, <3>1 DEF AbstractTask
  <2>5. AbstractTasks' = [[AbstractTasks EXCEPT ![c] = AbstractTask(c)'] EXCEPT ![k].last = AbstractUp(c)]
    <3>1. /\ DOMAIN AbstractTasks' = N /\ DOMAIN AbstractTasks = N
          /\ \A j \in N : AbstractTasks[j] = AbstractTask(j) /\ AbstractTasks'[j] = AbstractTask(j)'
          /\ AbstractTasks' = [j \in N |-> AbstractTasks'[j]]
      BY <1>3 DEF AbstractTasks
    <3>2. \A j \in N \ {c, k} : AbstractTask(j)' = AbstractTask(j)
      BY <1>7
    <3> QED
      BY <2>1, <2>4, <3>1, <3>2
  <2>6. AbstractTasks' = [Gone(AbstractTasks, c, AllZero) EXCEPT ![k].last = AbstractTasks[c].up]
    BY <1>9, <2>5, AbstractIsA
  <2>7. ~S!Chain[AbstractTasks[k].at].parallel
    BY <1>12, <2>1, AbstractIsA DEF Parallel, S!Chain, Chain
  <2>8. AbstractTasks[c].parent = k /\ AbstractTasks[c].phase \in {"done", "panicked"}
    BY <1>1, AbstractIsA
  <2>9. S!Collect(c) <=>
          /\ AbstractTasks[c].phase \in {"done", "panicked"}
          /\ AbstractTasks' =
               IF AbstractTasks[c].parent = 0 THEN Gone(AbstractTasks, c, S!AllZero)
               ELSE IF S!Chain[AbstractTasks[AbstractTasks[c].parent].at].parallel
                 THEN Gone(AbstractTasks, c, S!AllZero)
               ELSE [Gone(AbstractTasks, c, S!AllZero) EXCEPT
                       ![AbstractTasks[c].parent].last = AbstractTasks[c].up]
    BY DEF S!Collect, Gone
  <2>10. S!Collect(c)
    BY <1>10, <1>12, <2>6, <2>7, <2>8, <2>9
  <2> QED
    BY <1>6, <2>10
<1> QED
  BY <1>11, <1>12

-----------------------------------------------------------------------------
(* Steps that add a task.                                                  *)
LEMMA AppendIs ==
  ASSUME NEW n \in Nat, NEW f, f = [j \in 1 .. n |-> f[j]], NEW x
  PROVE  /\ Len(f) = n
         /\ Append(f, x) = [j \in 1 .. n + 1 |-> IF j = n + 1 THEN x ELSE f[j]]
<1> DEFINE E == {f[j] : j \in 1 .. n} \cup {x}
<1>1. f \in Seq(E) /\ Len(f) = n
  OBVIOUS
<1> HIDE DEF E
<1>2. /\ Append(f, x) \in Seq(E \cup {x}) /\ Len(Append(f, x)) = n + 1
      /\ \A j \in 1 .. n + 1 : Append(f, x)[j] = IF j = n + 1 THEN x ELSE f[j]
  BY <1>1
<1>3. Append(f, x) = [j \in 1 .. n + 1 |-> Append(f, x)[j]]
  BY <1>2
<1> QED
  BY <1>1, <1>2, <1>3

LEMMA AddedTask ==
  ASSUME IInv, NEW q, q = Len(tasks) + 1, DOMAIN tasks' = DOMAIN tasks \cup {q},
         NEW B, B = [j \in DOMAIN tasks |-> B[j]],
         \A j \in DOMAIN tasks : AbstractTask(j)' = B[j]
  PROVE  AbstractTasks' = Append(B, AbstractTask(q)')
<1>1. DOMAIN tasks = 1 .. Len(tasks) /\ Len(tasks) \in Nat /\ DOMAIN tasks' = 1 .. Len(tasks) + 1
  BY Fresh
<1>2. Append(B, AbstractTask(q)')
        = [j \in 1 .. Len(tasks) + 1 |-> IF j = Len(tasks) + 1 THEN AbstractTask(q)' ELSE B[j]]
  <2> DEFINE n == Len(tasks)
             x == AbstractTask(q)'
  <2>1. n \in Nat /\ B = [j \in 1 .. n |-> B[j]]
    BY <1>1
  <2> HIDE DEF n, x
  <2>2. Append(B, x) = [j \in 1 .. n + 1 |-> IF j = n + 1 THEN x ELSE B[j]]
    BY <2>1, AppendIs
  <2> QED
    BY <2>2 DEF n, x
<1>3. AbstractTasks' = [j \in 1 .. Len(tasks) + 1 |-> AbstractTask(j)']
  BY <1>1 DEF AbstractTasks
<1>4. \A j \in 1 .. Len(tasks) + 1 :
        AbstractTask(j)' = IF j = Len(tasks) + 1 THEN AbstractTask(q)' ELSE B[j]
  BY <1>1
<1> QED
  BY <1>2, <1>3, <1>4

LEMMA InvokeMeaning ==
  ASSUME MInv, IInv', UNCHANGED binding, Invoke
  PROVE  MInv' /\ S!Invoke
<1> DEFINE N == DOMAIN tasks
           w == Down(heap[1], InvokeOut, Input(Len(tasks) + 1))
           Q == NewTask(0, 1, NewRef)
<1> PICK q : q = Len(tasks) + 1
  OBVIOUS
<1> PICK r : r = NewRef
  OBVIOUS
<1>1. heap' = Append(heap, w) /\ tasks' = Append(tasks, Q)
  BY DEF Invoke
<1>2. /\ DOMAIN tasks' = N \cup {q} /\ q \notin N /\ q \in Nat /\ N \subseteq Nat \ {0}
      /\ tasks'[q] = Q /\ \A k \in N : tasks'[k] = tasks[k] /\ k < q
      /\ r \notin DOMAIN heap /\ heap'[r] = w /\ \A s \in DOMAIN heap : heap'[s] = heap[s]
      /\ 1 \in DOMAIN heap
  BY <1>1, Fresh, References DEF MInv, IInv, TypeOK, NewRef, Linked
<1>3. /\ Q.parent = 0 /\ Q.at = 1 /\ Q.v = r /\ Q.arg = r /\ Q.phase = "run" /\ Q.calls = 0
  BY DEF NewTask
<1> HIDE DEF Q
<1>4. \A m \in N : /\ Live(m)' = Live(m) /\ Parallel(m)' = Parallel(m) /\ AtWork(m)' = AtWork(m)
                   /\ tasks[m].v # r /\ tasks[m].arg # r
                   /\ Live(m) /\ tasks[m].parent # 0 => tasks[m].parent \in N
  BY <1>2, SameSlots, References, CallerIsTask DEF Live, Parallel, AtWork, MInv
<1>5. \A m \in N : Active(m)' = Active(m)
  BY <1>2, <1>3 DEF Active
<1>6. Passing'
  <2> SUFFICES ASSUME NEW m \in N \cup {q}, Live(m)'
               PROVE  /\ tasks'[m].phase = "run" => tasks'[m].calls = 0
                      /\ tasks'[m].phase = "body" => Chain'[tasks'[m].at].class = "wrapper"
                      /\ AtWork(m)' /\ (tasks'[m].calls < 2 \/ Parallel(m)') => tasks'[m].v = tasks'[m].arg
                      /\ tasks'[m].parent # 0 =>
                           /\ tasks'[tasks'[m].parent].calls > 0
                           /\ ~Parallel(tasks[m].parent)' => tasks'[m].arg = tasks'[tasks'[m].parent].v
                      /\ \A j \in N \cup {q} : Live(j)' /\ tasks'[j].v = tasks'[m].arg =>
                           /\ j < m => tasks'[m].parent >= j /\ tasks'[tasks'[m].parent].v = tasks'[m].arg
                           /\ j > m => tasks'[m].v = tasks'[m].arg
    BY <1>2 DEF Passing
  <2>1. CASE m = q
    BY <1>2, <1>3, <1>4, <2>1
  <2>2. CASE m \in N
    <3>1. \A j \in N \cup {q} : Live(j)' /\ tasks'[j].v = tasks'[m].arg => j \in N
      BY <1>2, <1>3, <1>4, <2>2
    <3>2. Live(m) /\ \A j \in N : tasks'[j] = tasks[j]
      BY <1>2, <1>4, <2>2
    <3>3. \A j \in N : Live(j) /\ tasks[j].v = tasks[m].arg /\ j < m => tasks[m].parent \in N
      BY <1>2, <1>4, <2>2, <3>2 DEF MInv, Passing
    <3> QED
      BY <1>4, <2>2, <3>1, <3>2, <3>3, SameSlots DEF MInv, Passing
  <2> QED
    BY <2>1, <2>2
<1>7. OneCall' /\ Nested'
  BY <1>2, <1>3, <1>4 DEF MInv, OneCall, Nested
<1>8. w \in Collections /\ w.up = heap[1].up /\ w.down = Put(BaseEnv, InvokeOut, Input(q))
  <2>1. heap[1] \in Collections /\ Input(q) \in Vals
    BY <1>2, Values DEF MInv, IInv, TypeOK
  <2>2. heap[1].down = BaseEnv
    BY DEF MInv, Contents
  <2> QED
    BY <2>1, <2>2, Stored DEF Down, Collections
<1> HIDE DEF w
<1>9. Contents'
  <2>1. heap'[1].down = BaseEnv' /\ Blank(1)'
    BY <1>2, SameSlots DEF MInv, Contents, Blank
  <2>2. Blank(r)'
    BY <1>2, <1>8, <2>1, SameSlots DEF Blank, UpOf
  <2>3. ASSUME NEW j \in N
        PROVE  /\ tasks'[j] = tasks[j] /\ heap'[tasks[j].v] = heap[tasks[j].v]
               /\ tasks[j].phase = "body" => heap'[tasks[j].snap] = heap[tasks[j].snap]
    BY <1>2, References DEF MInv
  <2>4. ASSUME NEW j \in N
        PROVE  /\ tasks'[j].phase = "run" => Blank(tasks[j].v)'
               /\ tasks'[j].phase = "body" =>
                    /\ Blank(tasks[j].snap)'
                    /\ tasks'[j].calls = 0 \/ Parallel(j)' => Blank(tasks[j].v)'
                    /\ tasks'[j].calls = 0 => heap'[tasks'[j].v].down = heap'[tasks'[j].snap].down
                    /\ \A t \in UpTypes \ MustZeroIfInnerNotCalled(tasks[j].at) : UpOf(tasks[j].v)'[t] = Zero
    BY <1>4, <2>3, SameSlots DEF MInv, Contents, Blank
  <2> QED
    BY <1>2, <1>3, <2>1, <2>2, <2>3, <2>4, SameSlots DEF Contents, Blank
<1>10. MInv'
  BY <1>6, <1>7, <1>9 DEF MInv
<1>11. AbstractTasks' = Append(AbstractTasks, AbstractTask(q)')
  <2>1. \A j \in N : AbstractTask(j)' = AbstractTask(j)
    BY <1>2, <1>5, AbstractSame, References DEF MInv
  <2>2. AbstractTasks = [j \in N |-> AbstractTasks[j]] /\ \A j \in N : AbstractTasks[j] = AbstractTask(j)
    BY DEF AbstractTasks
  <2> QED
    BY <1>2, <2>1, <2>2, AddedTask DEF MInv
<1>12. AbstractTask(q)' = Rec(0, 1, "run", 0, Put(BaseEnv, InvokeOut, Input(q)), AllZero, AllZero)
  BY <1>2, <1>3, <1>8, SameSlots DEF AbstractTask, AbstractEnv, AbstractLast, AbstractUp, Settled, Rec
<1>13. Len(AbstractTasks) = Len(tasks)
  <2>1. AbstractTasks = [j \in 1 .. Len(tasks) |-> AbstractTasks[j]] /\ Len(tasks) \in Nat
    BY Fresh DEF AbstractTasks, MInv
  <2> QED
    BY <2>1, AppendIs
<1>14. S!Task(0, 1, "run", Put(BaseEnv, InvokeOut, Input(q)), 0, AllZero, AllZero)
         = Rec(0, 1, "run", 0, Put(BaseEnv, InvokeOut, Input(q)), AllZero, AllZero)
  BY DEF S!Task, Rec
<1>15. S!Invoke <=>
         AbstractTasks' = Append(AbstractTasks,
           S!Task(0, 1, "run", Put(BaseEnv, InvokeOut, Input(Len(AbstractTasks) + 1)), 0, AllZero, AllZero))
  BY DEF S!Invoke, S!Put, Put, S!BaseEnv, BaseEnv, S!InvokeOut, InvokeOut, S!Input, Input, S!AllZero, AllZero,
    S!UpTypes, UpTypes, S!Chain, Chain, S!Providers, Providers, S!Zero, Zero, S!DownTypes, DownTypes,
    S!BaseOut, BaseOut, S!Static, Static, S!Unset, Unset
<1> QED
  BY <1>10, <1>11, <1>12, <1>13, <1>14, <1>15

-----------------------------------------------------------------------------
(* A call of inner() by k makes task q, on collection r.                   *)
Calling(k, q, r) ==
  LET i == tasks[k].at IN
  /\ tasks[k].phase = "body" /\ Chain[i].class = "wrapper" /\ tasks[k].calls \in Nat
  /\ i \in Nat /\ NewRef \notin DOMAIN heap
  /\ DOMAIN tasks' = DOMAIN tasks \cup {q} /\ q \notin DOMAIN tasks /\ q \in Nat
  /\ \A m \in DOMAIN tasks : m \in Nat \ {0} /\ m < q
  /\ \A m \in DOMAIN tasks \ {k} : tasks'[m] = tasks[m]
  /\ tasks'[q].parent = k /\ tasks'[q].at = i + 1 /\ tasks'[q].phase = "run"
  /\ tasks'[q].calls = 0 /\ tasks'[q].v = r /\ tasks'[q].arg = r
  /\ tasks'[k].parent = tasks[k].parent /\ tasks'[k].at = i /\ tasks'[k].phase = "body"
  /\ tasks'[k].arg = tasks[k].arg /\ tasks'[k].snap = tasks[k].snap
  /\ tasks'[k].calls = tasks[k].calls + 1
  /\ \/ Parallel(k) /\ r = NewRef /\ tasks'[k].v = tasks[k].v
     \/ ~Parallel(k) /\ ~Active(k) /\ tasks[k].calls = 0 /\ r = tasks[k].v /\ tasks'[k].v = r
     \/ ~Parallel(k) /\ ~Active(k) /\ tasks[k].calls > 0 /\ r = NewRef /\ tasks'[k].v = r
  /\ \A s \in DOMAIN heap : heap'[s].up = heap[s].up /\ (s # r => heap'[s] = heap[s])
  /\ heap'[r].up = IF r = NewRef THEN heap[tasks[k].snap].up ELSE heap[tasks[k].v].up
  /\ heap'[r].down = Put(heap[tasks[k].snap].down, Chain[i].out, Made(i, k, tasks[k].calls + 1))

LEMMA DownIs ==
  ASSUME NEW v \in Collections, NEW T, NEW x
  PROVE  Down(v, T, x).up = v.up /\ Down(v, T, x).down = Put(v.down, T, x)
BY DEF Down, Collections

LEMMA CallInnerIs ==
  ASSUME MInv, UNCHANGED binding, NEW k \in DOMAIN tasks, CallInner(k)
  PROVE  \E q, r : q = Len(tasks) + 1 /\ Calling(k, q, r)
<1> DEFINE N == DOMAIN tasks
           i == tasks[k].at
           n == tasks[k].calls + 1
           fresh == Chain[i].parallel \/ n > 1
           ref == IF fresh THEN NewRef ELSE tasks[k].v
           own == IF Chain[i].parallel THEN tasks[k].v ELSE ref
           T == [tasks[k] EXCEPT !.calls = n, !.v = own]
           Q == NewTask(k, i + 1, ref)
           Args(v) == Down(v, Chain[i].out, Made(i, k, n))
<1> PICK q : q = Len(tasks) + 1
  OBVIOUS
<1> PICK r : r = ref
  OBVIOUS
<1>1. /\ tasks[k].phase = "body" /\ Chain[i].class = "wrapper"
      /\ Chain[i].parallel \/ ~Active(k)
      /\ heap' = IF fresh THEN Append(heap, Args(heap[tasks[k].snap])) ELSE [heap EXCEPT ![ref] = Args(heap[ref])]
      /\ tasks' = Append([tasks EXCEPT ![k] = T], Q)
  BY DEF CallInner, IsA
<1>2. /\ tasks[k] \in Tasks /\ i \in Nat /\ tasks[k].calls \in Nat /\ k \in Nat
      /\ tasks[k].v \in DOMAIN heap /\ tasks[k].snap \in DOMAIN heap
  BY <1>1, TaskTypes, ChainShape, References DEF MInv, IInv
<1>3. /\ T.phase = "body" /\ T.snap = tasks[k].snap /\ T.v = own /\ T.calls = n
      /\ T.arg = tasks[k].arg /\ T.parent = tasks[k].parent /\ T.at = i
  BY <1>1, <1>2 DEF Tasks
<1>4. /\ Q.parent = k /\ Q.at = i + 1 /\ Q.phase = "run" /\ Q.calls = 0 /\ Q.v = ref /\ Q.arg = ref
  BY DEF NewTask
<1>5. /\ DOMAIN tasks' = N \cup {q} /\ q \notin N /\ q \in Nat /\ \A m \in N : m \in Nat \ {0} /\ m < q
      /\ tasks'[q] = Q /\ tasks'[k] = T /\ \A m \in N \ {k} : tasks'[m] = tasks[m]
      /\ NewRef \notin DOMAIN heap
  BY <1>1, Fresh DEF MInv, IInv, TypeOK
<1>6. /\ \A s \in DOMAIN heap : heap[s] \in Collections
      /\ \A c \in Collections : Args(c).up = c.up /\ Args(c).down = Put(c.down, Chain[i].out, Made(i, k, n))
  <2>1. \A s \in DOMAIN heap : heap[s] \in Collections
    BY DEF MInv, IInv, TypeOK
  <2> QED
    BY <2>1, DownIs
<1>7. /\ Parallel(k) = Chain[i].parallel
      /\ ~Parallel(k) /\ tasks[k].calls = 0 => heap[tasks[k].v].down = heap[tasks[k].snap].down
  BY <1>1 DEF Parallel, MInv, Contents
<1> HIDE DEF Args, T, Q
<1>8. /\ \A s \in DOMAIN heap : heap'[s].up = heap[s].up /\ (s # r => heap'[s] = heap[s])
      /\ heap'[r].up = IF r = NewRef THEN heap[tasks[k].snap].up ELSE heap[tasks[k].v].up
      /\ heap'[r].down = Put(heap[tasks[k].snap].down, Chain[i].out, Made(i, k, n))
  <2>1. CASE fresh
    <3>1. /\ r = NewRef /\ heap' = Append(heap, Args(heap[tasks[k].snap]))
      BY <1>1, <2>1
    <3>2. heap'[r] = Args(heap[tasks[k].snap]) /\ \A s \in DOMAIN heap : heap'[s] = heap[s]
      BY <3>1, Fresh DEF MInv, IInv, TypeOK, NewRef
    <3> QED
      BY <1>2, <1>6, <3>1, <3>2
  <2>2. CASE ~fresh
    <3>1. r = tasks[k].v /\ r # NewRef /\ heap' = [heap EXCEPT ![r] = Args(heap[r])]
      BY <1>1, <1>2, <1>5, <2>2
    <3>2. heap'[r] = Args(heap[r]) /\ \A s \in DOMAIN heap : s # r => heap'[s] = heap[s]
      BY <1>2, <3>1 DEF MInv, IInv, TypeOK
    <3>3. heap[r].down = heap[tasks[k].snap].down
      BY <1>2, <1>7, <2>2, <3>1
    <3> QED
      BY <1>2, <1>6, <3>1, <3>2, <3>3
  <2> QED
    BY <2>1, <2>2
<1>9. \/ Parallel(k) /\ r = NewRef /\ own = tasks[k].v
      \/ ~Parallel(k) /\ ~Active(k) /\ tasks[k].calls = 0 /\ r = tasks[k].v /\ own = r
      \/ ~Parallel(k) /\ ~Active(k) /\ tasks[k].calls > 0 /\ r = NewRef /\ own = r
  BY <1>1, <1>2, <1>7
<1>10. Q.v = r /\ Q.arg = r
  BY <1>4
<1> HIDE DEF own, ref, fresh
<1>11. Calling(k, q, r)
  <2>1. /\ tasks'[q].parent = k /\ tasks'[q].at = i + 1 /\ tasks'[q].phase = "run"
        /\ tasks'[q].calls = 0 /\ tasks'[q].v = r /\ tasks'[q].arg = r
    BY <1>4, <1>5, <1>10
  <2>2. /\ tasks'[k].parent = tasks[k].parent /\ tasks'[k].at = i /\ tasks'[k].phase = "body"
        /\ tasks'[k].arg = tasks[k].arg /\ tasks'[k].snap = tasks[k].snap
        /\ tasks'[k].calls = tasks[k].calls + 1 /\ tasks'[k].v = own
    BY <1>3, <1>5
  <2> QED
    BY <1>1, <1>2, <1>5, <1>8, <1>9, <2>1, <2>2 DEF Calling
<1> QED
  BY <1>11

(* Who is on the collection of a wrapper that is about to call is above it.*)
LEMMA AboveCaller ==
  ASSUME MInv, NEW k \in DOMAIN tasks, tasks[k].phase = "body", ~Active(k),
         NEW j \in DOMAIN tasks, Live(j), tasks[j].v = tasks[k].v, j # k
  PROVE  j < k /\ ~Parallel(j) /\ tasks[j].at < tasks[k].at
<1>1. Live(k) /\ ~WaitsOn(k) /\ j \in Nat /\ k \in Nat
  BY Fresh DEF Live, WaitsOn, Active, MInv
<1>2. j < k
  BY <1>1 DEF MInv, IInv, Sharing
<1> QED
  BY <1>1, <1>2 DEF MInv, Nested

LEMMA CallPassing ==
  ASSUME MInv, UNCHANGED binding, NEW k \in DOMAIN tasks, NEW q, NEW r, Calling(k, q, r)
  PROVE  Passing'
<1> DEFINE N == DOMAIN tasks
<1>1. \A m \in N : /\ Live(m)' = Live(m) /\ Parallel(m)' = Parallel(m) /\ AtWork(m)' = AtWork(m)
                   /\ tasks'[m].arg = tasks[m].arg /\ tasks'[m].parent = tasks[m].parent
                   /\ tasks'[m].at = tasks[m].at /\ tasks'[m].phase = tasks[m].phase
                   /\ (m # k \/ r # NewRef \/ Parallel(k)) => tasks'[m].v = tasks[m].v
                   /\ tasks[m].v # NewRef /\ tasks[m].arg # NewRef
                   /\ Live(m) /\ tasks[m].parent # 0 => tasks[m].parent \in N
  <2> SUFFICES ASSUME NEW m \in N
               PROVE  /\ Live(m)' = Live(m) /\ Parallel(m)' = Parallel(m) /\ AtWork(m)' = AtWork(m)
                      /\ tasks'[m].arg = tasks[m].arg /\ tasks'[m].parent = tasks[m].parent
                      /\ tasks'[m].at = tasks[m].at /\ tasks'[m].phase = tasks[m].phase
                      /\ (m # k \/ r # NewRef \/ Parallel(k)) => tasks'[m].v = tasks[m].v
                      /\ tasks[m].v # NewRef /\ tasks[m].arg # NewRef
                      /\ Live(m) /\ tasks[m].parent # 0 => tasks[m].parent \in N
    OBVIOUS
  <2>1. /\ tasks'[m].arg = tasks[m].arg /\ tasks'[m].parent = tasks[m].parent
        /\ tasks'[m].at = tasks[m].at /\ tasks'[m].phase = tasks[m].phase
    BY DEF Calling
  <2>2. (m # k \/ r # NewRef \/ Parallel(k)) => tasks'[m].v = tasks[m].v
    BY DEF Calling
  <2>3. tasks[m].v # NewRef /\ tasks[m].arg # NewRef
    BY References DEF Calling, MInv
  <2>4. Live(m) /\ tasks[m].parent # 0 => tasks[m].parent \in N
    BY CallerIsTask DEF MInv
  <2> QED
    BY <2>1, <2>2, <2>3, <2>4, SameSlots DEF Live, Parallel, AtWork
<1>2. Live(k) /\ tasks[k].calls \in Nat /\ k \in N /\ tasks[k].phase = "body"
  BY DEF Live, Calling
<1>3. \A m \in N : m # k => tasks'[m] = tasks[m]
  BY DEF Calling
<1>4. r = NewRef \/ (~Parallel(k) /\ ~Active(k) /\ tasks[k].calls = 0 /\ r = tasks[k].v /\ r # NewRef)
  BY <1>1 DEF Calling
<1>5. r = NewRef /\ ~Parallel(k) => ~Active(k) /\ tasks[k].calls > 0 /\ tasks'[k].v = NewRef
  BY <1>1 DEF Calling
<1>6. ~Active(k) => \A m \in N : Live(m) => tasks[m].parent # k
  BY DEF Active, Live
<1> SUFFICES ASSUME NEW m \in N \cup {q}, Live(m)'
             PROVE  /\ tasks'[m].phase = "run" => tasks'[m].calls = 0
                    /\ tasks'[m].phase = "body" => Chain'[tasks'[m].at].class = "wrapper"
                    /\ AtWork(m)' /\ (tasks'[m].calls < 2 \/ Parallel(m)') => tasks'[m].v = tasks'[m].arg
                    /\ tasks'[m].parent # 0 =>
                         /\ tasks'[tasks'[m].parent].calls > 0
                         /\ ~Parallel(tasks[m].parent)' => tasks'[m].arg = tasks'[tasks'[m].parent].v
                    /\ \A j \in N \cup {q} : Live(j)' /\ tasks'[j].v = tasks'[m].arg =>
                         /\ j < m => tasks'[m].parent >= j /\ tasks'[tasks'[m].parent].v = tasks'[m].arg
                         /\ j > m => tasks'[m].v = tasks'[m].arg
  BY DEF Passing, Calling
<1>7. CASE m = q
  <2>1. /\ tasks'[m].phase = "run" /\ tasks'[m].calls = 0 /\ tasks'[m].v = r /\ tasks'[m].arg = r
        /\ tasks'[m].parent = k /\ tasks'[k].calls > 0
        /\ \A j \in N : j < m
    BY <1>2, <1>7 DEF Calling
  <2>2. ~Parallel(k)' => tasks'[k].v = r
    BY <1>1, <1>2 DEF Calling
  <2>3. ASSUME NEW j \in N \cup {q}, Live(j)', tasks'[j].v = r, j < m
        PROVE  k >= j /\ tasks'[k].v = r
    <3>1. j \in N /\ Live(j) /\ j \in Nat /\ k \in Nat
      BY <1>1, <1>7, <2>3 DEF Calling
    <3>2. CASE r = NewRef
      BY <1>1, <1>3, <2>3, <3>1, <3>2
    <3>3. CASE r # NewRef
      BY <1>1, <1>2, <1>4, <2>3, <3>1, <3>3, AboveCaller
    <3> QED
      BY <3>2, <3>3
  <2> QED
    BY <1>7, <2>1, <2>2, <2>3 DEF Calling
<1>8. CASE m \in N
  <2>1. Live(m)
    BY <1>1, <1>8
  <2>2. tasks'[m].phase = "run" => tasks'[m].calls = 0
    BY <1>1, <1>2, <1>3, <1>8, <2>1 DEF MInv, Passing
  <2>3. tasks'[m].phase = "body" => Chain'[tasks'[m].at].class = "wrapper"
    BY <1>1, <1>8, <2>1 DEF MInv, Passing, Chain
  <2>4. AtWork(m)' /\ (tasks'[m].calls < 2 \/ Parallel(m)') => tasks'[m].v = tasks'[m].arg
    <3>1. CASE m # k
      BY <1>1, <1>3, <1>8, <2>1, <3>1 DEF MInv, Passing
    <3>2. CASE m = k
      <4>1. tasks'[k].calls = tasks[k].calls + 1
        BY DEF Calling
      <4>2. tasks[k].calls < 2 \/ Parallel(k) => tasks[k].v = tasks[k].arg
        BY <1>2 DEF MInv, Passing, AtWork
      <4> QED
        BY <1>1, <1>2, <1>5, <3>2, <4>1, <4>2
    <3> QED
      BY <3>1, <3>2
  <2>5. tasks'[m].parent # 0 =>
          /\ tasks'[tasks'[m].parent].calls > 0
          /\ ~Parallel(tasks[m].parent)' => tasks'[m].arg = tasks'[tasks'[m].parent].v
    <3> SUFFICES ASSUME tasks[m].parent # 0
                 PROVE  /\ tasks'[tasks[m].parent].calls > 0
                        /\ ~Parallel(tasks[m].parent)' => tasks[m].arg = tasks'[tasks[m].parent].v
      BY <1>1, <1>8
    <3>1. PICK p \in N : p = tasks[m].parent /\ p # 0
      BY <1>1, <1>8, <2>1
    <3>2. tasks[p].calls > 0 /\ (~Parallel(p) => tasks[m].arg = tasks[p].v)
      BY <1>8, <2>1, <3>1 DEF MInv, Passing
    <3>3. tasks'[p].calls > 0
      <4>1. tasks'[k].calls = tasks[k].calls + 1
        BY DEF Calling
      <4> QED
        BY <1>2, <1>3, <3>1, <3>2, <4>1
    <3>4. ~Parallel(p)' => tasks[m].arg = tasks'[p].v
      BY <1>1, <1>5, <1>6, <1>8, <2>1, <3>1, <3>2
    <3>5. Parallel(tasks[m].parent)' = Parallel(p)'
      <4>1. tasks'[m].parent = p
        BY <1>1, <1>8, <3>1
      <4> QED
        BY <4>1 DEF Parallel
    <3> QED
      BY <3>1, <3>3, <3>4, <3>5
  <2>6. ASSUME NEW j \in N \cup {q}, Live(j)', tasks'[j].v = tasks'[m].arg
        PROVE  /\ j < m => tasks'[m].parent >= j /\ tasks'[tasks'[m].parent].v = tasks'[m].arg
               /\ j > m => tasks'[m].v = tasks'[m].arg
    <3>1. tasks'[m].arg = tasks[m].arg /\ tasks'[m].parent = tasks[m].parent /\ tasks[m].arg # NewRef
      BY <1>1, <1>8
    <3>2. CASE j \in N
      <4>1. j # k \/ r # NewRef \/ Parallel(k)
        BY <1>5, <2>6, <3>1
      <4>2. Live(j) /\ tasks[j].v = tasks[m].arg /\ j \in Nat /\ m \in Nat
        BY <1>1, <1>8, <2>6, <3>1, <3>2, <4>1 DEF Calling
      <4>3. /\ j < m => tasks[m].parent >= j /\ tasks[tasks[m].parent].v = tasks[m].arg
            /\ j > m => tasks[m].v = tasks[m].arg
        BY <1>8, <2>1, <3>2, <4>2 DEF MInv, Passing
      <4>4. ASSUME j < m PROVE tasks'[tasks[m].parent].v = tasks[m].arg
        <5>1. tasks[m].parent # 0
          BY <3>2, <4>3, <4>4 DEF Calling
        <5>2. tasks[m].parent \in N
          BY <1>1, <1>8, <2>1, <5>1
        <5>3. tasks[m].parent # k \/ r # NewRef \/ Parallel(k)
          BY <1>5, <1>6, <1>8, <2>1
        <5> QED
          BY <1>1, <4>3, <4>4, <5>2, <5>3
      <4>5. ASSUME j > m PROVE tasks'[m].v = tasks[m].arg
        <5>1. m # k \/ r # NewRef \/ Parallel(k)
          <6> SUFFICES ASSUME m = k, r = NewRef, ~Parallel(k) PROVE FALSE
            OBVIOUS
          <6>1. tasks[k].v = tasks[m].arg /\ ~Active(k) /\ j # k
            BY <1>5, <4>2, <4>3, <4>5
          <6>2. j < k
            BY <1>2, <3>2, <4>2, <6>1, AboveCaller
          <6> QED
            BY <4>2, <4>5, <6>2
        <5> QED
          BY <1>1, <1>8, <4>3, <4>5, <5>1
      <4> QED
        BY <3>1, <4>3, <4>4, <4>5
    <3>3. CASE j = q
      <4>1. /\ r = tasks[m].arg /\ j > m /\ ~(j < m)
        BY <1>8, <2>6, <3>1, <3>3 DEF Calling
      <4>2. ~Active(k) /\ r = tasks[k].v /\ r # NewRef
        BY <1>4, <3>1, <4>1
      <4>3. tasks[m].v = tasks[m].arg
        <5>1. CASE m = k
          BY <4>1, <4>2, <5>1
        <5>2. CASE k > m
          BY <1>2, <1>8, <2>1, <4>1, <4>2, <5>2 DEF MInv, Passing
        <5>3. CASE k < m
          <6>1. tasks[m].parent >= k /\ tasks[tasks[m].parent].v = tasks[k].v
            BY <1>2, <1>8, <2>1, <4>1, <4>2, <5>3 DEF MInv, Passing
          <6>2. tasks[m].parent \in N /\ tasks[tasks[m].parent].phase = "body" /\ tasks[m].parent # k
            <7>1. tasks[m].parent # 0
              BY <1>2, <6>1 DEF Calling
            <7> QED
              BY <1>6, <1>8, <2>1, <4>2, <7>1, CallerIsTask DEF MInv
          <6>3. tasks[m].parent < k
            BY <1>2, <4>2, <6>1, <6>2, AboveCaller DEF Live
          <6> QED
            BY <1>8, <6>1, <6>2, <6>3 DEF Calling
        <5> QED
          BY <1>8, <5>1, <5>2, <5>3 DEF Calling
      <4> QED
        BY <1>1, <1>8, <3>1, <4>1, <4>2, <4>3
    <3> QED
      BY <3>2, <3>3
  <2> QED
    BY <2>2, <2>3, <2>4, <2>5, <2>6
<1> QED
  BY <1>7, <1>8

LEMMA CallNested ==
  ASSUME MInv, UNCHANGED binding, NEW k \in DOMAIN tasks, NEW q, NEW r, Calling(k, q, r)
  PROVE  OneCall' /\ Nested'
<1> DEFINE N == DOMAIN tasks
<1>1. /\ DOMAIN tasks' = N \cup {q} /\ q \notin N /\ \A m \in N : m < q
      /\ \A m \in N : tasks'[m].parent = tasks[m].parent /\ tasks'[m].at = tasks[m].at
      /\ \A m \in N : (m # k \/ r # NewRef \/ Parallel(k)) => tasks'[m].v = tasks[m].v
      /\ tasks'[q].parent = k /\ tasks'[q].v = r /\ tasks'[q].at = tasks[k].at + 1
      /\ k \in N /\ tasks[k].at \in Nat
  BY DEF Calling
<1>2. \A m \in N : Live(m)' = Live(m) /\ Parallel(m)' = Parallel(m)
  BY SameSlots DEF Calling, Live, Parallel
<1>3. \A m \in N : tasks[m].v # NewRef
  BY References DEF MInv, Calling
<1>4. \A m \in N : Live(m) /\ tasks[m].parent # 0 => tasks[m].parent \in N
  BY CallerIsTask DEF MInv
<1>5. Parallel(k) \/ \A m \in N : Live(m) => tasks[m].parent # k
  BY DEF Calling, Active, Live
<1>6. OneCall'
  <2> SUFFICES ASSUME NEW c \in N \cup {q}, NEW d \in N \cup {q}, Live(c)', Live(d)',
                      tasks'[c].parent # 0, tasks'[d].parent = tasks'[c].parent, c # d
               PROVE  Parallel(tasks[c].parent)'
    BY <1>1 DEF OneCall
  <2>1. CASE c \in N /\ d \in N
    <3>1. Parallel(tasks[c].parent) /\ tasks[c].parent \in N
      BY <1>1, <1>2, <1>4, <2>1 DEF MInv, OneCall
    <3>2. PICK p \in N : p = tasks[c].parent
      BY <3>1
    <3>3. Parallel(p)'
      BY <1>2, <3>1, <3>2
    <3>4. tasks'[c].parent = p
      BY <1>1, <2>1, <3>2
    <3> QED
      BY <3>3, <3>4 DEF Parallel
  <2>2. CASE c = q \/ d = q
    <3>1. tasks'[c].parent = k /\ \E m \in N : Live(m) /\ tasks[m].parent = k
      BY <1>1, <1>2, <2>2
    <3>2. Parallel(k)'
      BY <1>1, <1>2, <1>5, <3>1
    <3> QED
      BY <3>1, <3>2 DEF Parallel
  <2> QED
    BY <2>1, <2>2
<1>7. Nested'
  <2> SUFFICES ASSUME NEW j \in N \cup {q}, NEW m \in N \cup {q}, Live(j)', Live(m)', j < m,
                      tasks'[j].v = tasks'[m].v
               PROVE  ~Parallel(j)' /\ tasks'[j].at < tasks'[m].at
    BY <1>1 DEF Nested
  <2>1. j \in N /\ Live(j)
    BY <1>1, <1>2 DEF Calling
  <2>2. CASE m = q
    <3>1. CASE j = k
      <4>1. ~Parallel(k)
        BY <1>1, <1>3, <2>2, <3>1 DEF Calling
      <4> QED
        BY <1>1, <1>2, <2>2, <3>1, <4>1
    <3>2. CASE j # k
      <4>1. tasks[j].v = r /\ r # NewRef
        BY <1>1, <1>3, <2>1, <2>2, <3>2
      <4>2. ~Active(k) /\ r = tasks[k].v /\ tasks[k].phase = "body"
        BY <4>1 DEF Calling
      <4>3. ~Parallel(j) /\ tasks[j].at < tasks[k].at
        BY <1>1, <2>1, <3>2, <4>1, <4>2, AboveCaller
      <4>4. tasks[j].at \in Nat
        BY <2>1, TaskTypes, ChainShape DEF MInv, IInv
      <4> QED
        BY <1>1, <1>2, <2>1, <2>2, <4>3, <4>4
    <3> QED
      BY <3>1, <3>2
  <2>3. CASE m \in N
    <3>1. Live(m) /\ tasks[j].v = tasks[m].v
      <4>1. j # k \/ r # NewRef \/ Parallel(k)
        <5> SUFFICES ASSUME j = k, r = NewRef, ~Parallel(k) PROVE FALSE
          OBVIOUS
        <5>1. tasks'[k].v = NewRef /\ m # k
          BY <2>1 DEF Calling
        <5> QED
          BY <1>1, <1>3, <2>3, <5>1
      <4>2. m # k \/ r # NewRef \/ Parallel(k)
        <5> SUFFICES ASSUME m = k, r = NewRef, ~Parallel(k) PROVE FALSE
          OBVIOUS
        <5>1. tasks'[k].v = NewRef /\ j # k
          BY <2>1 DEF Calling
        <5> QED
          BY <1>1, <1>3, <2>1, <5>1
      <4> QED
        BY <1>1, <1>2, <2>1, <2>3, <4>1, <4>2
    <3> QED
      BY <1>1, <1>2, <2>1, <2>3, <3>1 DEF MInv, Nested
  <2> QED
    BY <2>2, <2>3
<1> QED
  BY <1>6, <1>7

(* What others read from is not the collection that the call writes to.    *)
LEMMA CallUndisturbed ==
  ASSUME MInv, UNCHANGED binding, NEW k \in DOMAIN tasks, NEW q, NEW r, Calling(k, q, r),
         NEW j \in DOMAIN tasks
  PROVE  /\ tasks[j].phase = "body" => heap'[tasks[j].snap] = heap[tasks[j].snap]
         /\ tasks[j].phase = "run" => heap'[tasks[j].v] = heap[tasks[j].v]
         /\ j # k /\ tasks[j].phase = "body" /\ (tasks[j].calls = 0 \/ ~Active(j)) =>
              heap'[tasks[j].v] = heap[tasks[j].v]
         /\ tasks[j].phase \in {"done", "panicked"} => heap'[tasks[j].arg] = heap[tasks[j].arg]
<1>1. \A s \in DOMAIN heap : s # r => heap'[s] = heap[s]
  BY DEF Calling
<1>2. /\ tasks[j].v \in DOMAIN heap /\ tasks[j].arg \in DOMAIN heap
      /\ tasks[j].phase = "body" => tasks[j].snap \in DOMAIN heap
  BY References DEF MInv
<1>3. CASE r = NewRef
  BY <1>1, <1>2, <1>3 DEF Calling
<1>4. CASE r # NewRef
  <2>1. r = tasks[k].v /\ ~Active(k) /\ tasks[k].phase = "body" /\ Running(k) /\ Live(k)
    BY <1>4 DEF Calling, Running, Live
  <2>2. tasks[j].phase = "body" => tasks[j].snap # r
    BY <2>1, Fresh DEF MInv, IInv, Linked, Live
  <2>3. j # k => /\ tasks[j].phase = "run" => tasks[j].v # r
                 /\ tasks[j].phase = "body" /\ (tasks[j].calls = 0 \/ ~Active(j)) => tasks[j].v # r
                 /\ tasks[j].phase \in {"done", "panicked"} => tasks[j].arg # r
    BY <2>1, Undisturbed DEF Running
  <2> QED
    BY <1>1, <1>2, <2>1, <2>2, <2>3
<1> QED
  BY <1>3, <1>4

LEMMA CallContents ==
  ASSUME MInv, UNCHANGED binding, NEW k \in DOMAIN tasks, NEW q, NEW r, Calling(k, q, r)
  PROVE  Contents'
<1> DEFINE N == DOMAIN tasks
<1>1. \A s \in DOMAIN heap : UpOf(s)' = UpOf(s) /\ (Blank(s) => Blank(s)')
  BY SameSlots DEF Calling, UpOf, Blank
<1>2. /\ 1 \in DOMAIN heap /\ heap[1].down = BaseEnv /\ Blank(1)
      /\ tasks[k].phase = "body" /\ Live(k) /\ tasks[k].calls \in Nat
  BY References DEF MInv, Contents, Calling, Live
<1>3. heap'[1] = heap[1]
  <2>1. r # 1
    BY <1>2, Fresh DEF Calling, MInv, IInv, Linked
  <2> QED
    BY <1>2, <2>1 DEF Calling
<1>4. heap'[1].down = BaseEnv' /\ Blank(1)'
  BY <1>1, <1>2, <1>3, SameSlots
<1>5. /\ Blank(tasks[k].snap) /\ tasks[k].snap \in DOMAIN heap /\ tasks[k].v \in DOMAIN heap
      /\ tasks[k].calls = 0 \/ Parallel(k) => Blank(tasks[k].v)
  BY <1>2, References DEF MInv, Contents
<1>6. Blank(r)'
  <2>1. CASE r = NewRef
    BY <1>5, <2>1, SameSlots DEF Calling, Blank, UpOf
  <2>2. CASE r # NewRef
    <3>1. Blank(tasks[k].v) /\ r = tasks[k].v
      BY <1>5, <2>2 DEF Calling
    <3> QED
      BY <1>1, <1>5, <3>1
  <2> QED
    BY <2>1, <2>2
<1>7. ASSUME NEW j \in N, j # k
      PROVE  /\ tasks'[j].phase = "run" => Blank(tasks[j].v)'
             /\ tasks'[j].phase = "body" =>
                  /\ Blank(tasks[j].snap)'
                  /\ tasks'[j].calls = 0 \/ Parallel(j)' => Blank(tasks[j].v)'
                  /\ tasks'[j].calls = 0 => heap'[tasks'[j].v].down = heap'[tasks'[j].snap].down
                  /\ \A t \in UpTypes \ MustZeroIfInnerNotCalled(tasks[j].at) : UpOf(tasks[j].v)'[t] = Zero
  <2>1. tasks'[j] = tasks[j] /\ Parallel(j)' = Parallel(j)
    BY <1>7, SameSlots DEF Calling, Parallel
  <2>2. PICK s, x : s = tasks[j].v /\ x = tasks[j].snap
    OBVIOUS
  <2>3. s \in DOMAIN heap /\ (tasks[j].phase = "body" => x \in DOMAIN heap)
    BY <2>2, References DEF MInv
  <2>4. /\ tasks[j].phase = "run" => Blank(s)'
        /\ tasks[j].phase = "body" =>
             /\ Blank(x)'
             /\ tasks[j].calls = 0 \/ Parallel(j) => Blank(s)'
             /\ \A t \in UpTypes \ MustZeroIfInnerNotCalled(tasks[j].at) : UpOf(s)'[t] = Zero
    BY <1>1, <2>2, <2>3 DEF MInv, Contents
  <2>5. tasks[j].phase = "body" /\ tasks[j].calls = 0 => heap'[s].down = heap'[x].down
    BY <1>7, <2>2, CallUndisturbed DEF MInv, Contents
  <2> QED
    BY <2>1, <2>2, <2>4, <2>5 DEF Blank, UpOf
<1>8. /\ Blank(tasks[k].snap)'
      /\ tasks'[k].calls = 0 \/ Parallel(k)' => Blank(tasks[k].v)'
      /\ tasks'[k].calls # 0
      /\ \A t \in UpTypes \ MustZeroIfInnerNotCalled(tasks[k].at) : UpOf(tasks[k].v)'[t] = Zero
  <2>1. PICK s, x : s = tasks[k].v /\ x = tasks[k].snap
    OBVIOUS
  <2>2. /\ tasks'[k].snap = x /\ tasks'[k].calls # 0 /\ Parallel(k)' = Parallel(k)
        /\ Parallel(k) => tasks'[k].v = s
        /\ tasks'[k].v \in {s, r}
    BY <1>2, <2>1, SameSlots DEF Calling, Parallel
  <2>3. Blank(x)' /\ (Parallel(k) => Blank(s)')
    BY <1>1, <1>5, <2>1
  <2>4. \A t \in UpTypes \ MustZeroIfInnerNotCalled(tasks[k].at) : UpOf(s)'[t] = Zero
    BY <1>1, <1>2, <1>5, <2>1 DEF MInv, Contents
  <2>5. \A t \in UpTypes : UpOf(r)'[t] = Zero
    BY <1>6, SameSlots DEF Blank, AllZero
  <2> QED
    BY <2>2, <2>3, <2>4, <2>5 DEF Blank, UpOf
<1>9. /\ tasks'[q].phase = "run" /\ tasks'[q].v = r /\ DOMAIN tasks' = N \cup {q}
      /\ \A m \in N : tasks'[m].at = tasks[m].at
  BY DEF Calling
<1>10. Blank(tasks[q].v)'
  BY <1>6, <1>9 DEF Blank, UpOf
<1> SUFFICES ASSUME NEW m \in N \cup {q}
             PROVE  /\ tasks'[m].phase = "run" => Blank(tasks[m].v)'
                    /\ tasks'[m].phase = "body" =>
                         /\ Blank(tasks[m].snap)'
                         /\ tasks'[m].calls = 0 \/ Parallel(m)' => Blank(tasks[m].v)'
                         /\ tasks'[m].calls = 0 => heap'[tasks'[m].v].down = heap'[tasks'[m].snap].down
                         /\ \A t \in UpTypes' \ MustZeroIfInnerNotCalled(tasks[m].at)' :
                              UpOf(tasks[m].v)'[t] = Zero
  BY <1>4, <1>9 DEF Contents
<1>11. CASE m = q
  BY <1>9, <1>10, <1>11
<1>12. ASSUME m \in N PROVE UpTypes' \ MustZeroIfInnerNotCalled(tasks[m].at)'
                              = UpTypes \ MustZeroIfInnerNotCalled(tasks[m].at)
  BY <1>9, <1>12 DEF UpTypes, MustZeroIfInnerNotCalled, Chain, Providers
<1>13. CASE m = k
  <2>1. tasks'[k].phase = "body"
    BY DEF Calling
  <2> QED
    BY <1>8, <1>12, <1>13, <2>1
<1>14. CASE m \in N \ {k}
  BY <1>7, <1>12, <1>14
<1> QED
  BY <1>11, <1>13, <1>14

LEMMA CallInnerMeaning ==
  ASSUME MInv, IInv', UNCHANGED binding, NEW k \in DOMAIN tasks, CallInner(k)
  PROVE  MInv' /\ S!CallInner(k)
<1> DEFINE N == DOMAIN tasks
           i == tasks[k].at
           n == tasks[k].calls + 1
           env == Put(heap[tasks[k].snap].down, Chain[i].out, Made(i, k, n))
<1> PICK q, r : q = Len(tasks) + 1 /\ Calling(k, q, r)
  BY CallInnerIs
<1>1. IsA(k, "body", {"wrapper"}) /\ (Chain[i].parallel \/ ~Active(k)) /\ tasks[k].phase = "body"
  BY DEF CallInner, IsA
<1>2. MInv'
  BY CallPassing, CallNested, CallContents DEF MInv
<1>3. /\ DOMAIN tasks' = N \cup {q} /\ q \notin N
      /\ \A m \in N \ {k} : tasks'[m] = tasks[m]
      /\ \A m \in N : Live(m)' = Live(m) /\ tasks'[m].parent = tasks[m].parent
      /\ tasks'[q].parent = k /\ Live(q)'
  BY DEF Calling, Live
<1>4. \A j \in N \ {k} : AbstractTask(j)' = AbstractTask(j)
  <2> SUFFICES ASSUME NEW j \in N, j # k PROVE AbstractTask(j)' = AbstractTask(j)
    OBVIOUS
  <2>1. Active(j)' = Active(j)
    BY <1>3 DEF Active, Live
  <2> QED
    BY <1>3, <2>1, CallUndisturbed, AbstractSame
<1>5. AbstractEnv(k) = heap[tasks[k].snap].down /\ AbstractUp(k) = AllZero
  BY <1>1 DEF AbstractEnv, AbstractUp
<1>6. AbstractTask(k)' = Rec(tasks[k].parent, i, "body", n, heap[tasks[k].snap].down, AllZero, AllZero)
  <2>1. /\ tasks'[k].parent = tasks[k].parent /\ tasks'[k].at = i /\ tasks'[k].phase = "body"
        /\ tasks'[k].calls = n /\ tasks'[k].snap = tasks[k].snap
    BY DEF Calling
  <2>2. Active(k)'
    BY <1>3 DEF Active, Live
  <2>3. heap'[tasks[k].snap] = heap[tasks[k].snap]
    BY <1>1, CallUndisturbed
  <2>4. AbstractEnv(k)' = heap[tasks[k].snap].down /\ AbstractLast(k)' = AllZero /\ AbstractUp(k)' = AllZero
    BY <2>1, <2>2, <2>3, SameSlots DEF AbstractEnv, AbstractLast, AbstractUp, Settled
  <2> QED
    BY <2>1, <2>4 DEF AbstractTask, Rec
<1>7. AbstractTask(q)' = Rec(k, i + 1, "run", 0, env, AllZero, AllZero)
  <2>1. /\ tasks'[q].parent = k /\ tasks'[q].at = i + 1 /\ tasks'[q].phase = "run"
        /\ tasks'[q].calls = 0 /\ tasks'[q].v = r /\ heap'[r].down = env
    BY DEF Calling
  <2> HIDE DEF env
  <2> QED
    BY <2>1, SameSlots DEF AbstractTask, AbstractEnv, AbstractLast, AbstractUp, Settled, Rec
<1>8. AbstractTasks' = Append(Called(AbstractTasks, k, n, AllZero), AbstractTask(q)')
  <2> DEFINE B == Called(AbstractTasks, k, n, AllZero)
  <2>1. B = [AbstractTasks EXCEPT ![k] =
               Rec(tasks[k].parent, i, "body", n, heap[tasks[k].snap].down, AllZero, AllZero)]
    <3>1. k \in DOMAIN AbstractTasks /\
          AbstractTasks[k] = Rec(tasks[k].parent, i, "body", tasks[k].calls, heap[tasks[k].snap].down,
                                 AbstractLast(k), AllZero)
      BY <1>1, <1>5, AbstractRecord
    <3> HIDE DEF i, n
    <3> QED
      BY <3>1, CallUpdate
  <2>2. B = [AbstractTasks EXCEPT ![k] = AbstractTask(k)']
    BY <1>6, <2>1
  <2>3. B = [j \in N |-> B[j]] /\ \A j \in N : AbstractTask(j)' = B[j]
    <3>1. AbstractTasks = [j \in N |-> AbstractTasks[j]] /\ \A j \in N : AbstractTasks[j] = AbstractTask(j)
      BY DEF AbstractTasks
    <3> HIDE DEF B
    <3> QED
      BY <1>4, <2>2, <3>1
  <2> HIDE DEF B
  <2>4. AbstractTasks' = Append(B, AbstractTask(q)')
    BY <1>3, <2>3, AddedTask DEF MInv
  <2> QED
    BY <2>4 DEF B
<1>9. AbstractTask(q)' = S!Task(k, i + 1, "run", env, 0, AllZero, AllZero)
  BY <1>7 DEF S!Task, Rec
<1>10. S!CallInner(k) <=>
         /\ IsA(k, "body", {"wrapper"}) /\ (Chain[i].parallel \/ ~Active(k))
         /\ AbstractTasks' = Append(Called(AbstractTasks, k, n, AllZero),
              S!Task(k, i + 1, "run", Put(AbstractEnv(k), Chain[i].out, Made(i, k, n)), 0, AllZero, AllZero))
  BY AbstractIsA DEF S!CallInner, S!Put, Put, S!Made, Made, S!AllZero, AllZero, S!UpTypes, UpTypes,
    S!Chain, Chain, S!Providers, Providers, S!Zero, Zero, Called
<1> QED
  BY <1>1, <1>2, <1>5, <1>8, <1>9, <1>10

-----------------------------------------------------------------------------
LEMMA InitMeaning == Init => MInv /\ S!Init
<1> SUFFICES ASSUME Init PROVE MInv /\ S!Init
  OBVIOUS
<1>1. IInv
  BY InitInv
<1>2. tasks = <<>> /\ DOMAIN tasks = {}
  BY DEF Init
<1>3. heap[1].down = BaseEnv /\ heap[1].up = [t \in UpTypes |-> Unset]
  BY DEF Init
<1>4. Blank(1)
  BY <1>3 DEF Blank, UpOf, AllZero, Read
<1>5. MInv
  BY <1>1, <1>2, <1>3, <1>4 DEF MInv, Passing, OneCall, Nested, Contents
<1>6. AbstractTasks = <<>>
  BY <1>2 DEF AbstractTasks
<1> QED
  BY <1>5, <1>6 DEF S!Init, Init

LEMMA StutterMeaning ==
  ASSUME MInv, UNCHANGED vars
  PROVE  Passing' /\ OneCall' /\ Nested' /\ Contents' /\ UNCHANGED AbstractTasks
<1>1. UNCHANGED <<binding, heap, tasks, panics>>
  BY DEF vars
<1>2. \A j \in DOMAIN tasks : AbstractTask(j)' = AbstractTask(j)
  BY <1>1, AbstractSame DEF Active
<1>3. UNCHANGED AbstractTasks
  BY <1>1, <1>2 DEF AbstractTasks
<1>4. Passing' /\ OneCall' /\ Nested'
  BY <1>1, SameSlots DEF MInv, Passing, OneCall, Nested, Live, Parallel, AtWork
<1>5. Contents'
  BY <1>1, SameSlots DEF MInv, Contents, Blank, Parallel
<1> QED
  BY <1>3, <1>4, <1>5

(* Each step of the collections is a step of the meaning, or none.         *)
LEMMA StepMeaning ==
  ASSUME MInv, [Next]_vars
  PROVE  MInv' /\ [S!Next]_<<binding, AbstractTasks>>
<1>1. IInv'
  BY NextInv DEF MInv
<1>2. CASE UNCHANGED vars
  <2>1. MInv' /\ UNCHANGED AbstractTasks
    BY <1>1, <1>2, StutterMeaning DEF MInv
  <2> QED
    BY <1>2, <2>1 DEF vars
<1>3. CASE Invoke /\ UNCHANGED binding
  BY <1>1, <1>3, InvokeMeaning DEF S!Next, S!Step
<1>4. ASSUME NEW k \in DOMAIN tasks, Step(k), UNCHANGED binding
      PROVE  MInv' /\ [S!Next]_<<binding, AbstractTasks>>
  <2>1. k \in DOMAIN AbstractTasks
    BY AbstractIsA
  <2>2. /\ MInv'
        /\ \/ S!Inject(k) \/ S!InjectError(k) \/ S!Final(k) \/ S!EnterWrapper(k) \/ S!CallInner(k)
           \/ S!Collect(k) \/ S!WrapperReturn(k) \/ S!Panic(k)
    <3>1. CASE Inject(k)
      BY <1>1, <1>4, <3>1, InjectMeaning
    <3>2. CASE InjectError(k)
      BY <1>1, <1>4, <3>2, InjectErrorMeaning
    <3>3. CASE Final(k)
      BY <1>1, <1>4, <3>3, FinalMeaning
    <3>4. CASE EnterWrapper(k)
      BY <1>1, <1>4, <3>4, EnterWrapperMeaning
    <3>5. CASE CallInner(k)
      BY <1>1, <1>4, <3>5, CallInnerMeaning
    <3>6. CASE Collect(k)
      BY <1>1, <1>4, <3>6, CollectMeaning
    <3>7. CASE WrapperReturn(k)
      BY <1>1, <1>4, <3>7, WrapperReturnMeaning
    <3>8. CASE WrapperPanic(k)
      BY <1>1, <1>4, <3>8, WrapperPanicMeaning
    <3>9. CASE Panic(k)
      BY <1>1, <1>4, <3>9, PanicMeaning
    <3> QED
      BY <1>4, <3>1, <3>2, <3>3, <3>4, <3>5, <3>6, <3>7, <3>8, <3>9 DEF Step
  <2> QED
    BY <1>4, <2>1, <2>2 DEF S!Next, S!Step
<1> QED
  BY <1>2, <1>3, <1>4 DEF Next

(* The collections that the generated code copies and shares give every    *)
(* task an environment of its own: running the chain does what ChainSpec   *)
(* says that it means, for any chain, any number of invocations and calls  *)
(* of inner(), and any errors and panics.                                  *)
THEOREM Refinement == Spec => ChainMeaning
<1>1. Init => MInv /\ S!Init
  BY InitMeaning
<1>2. MInv /\ [Next]_vars => MInv' /\ [S!Next]_<<binding, AbstractTasks>>
  BY StepMeaning
<1> QED
  BY <1>1, <1>2, PTL DEF Spec, ChainMeaning, S!Spec
=============================================================================
