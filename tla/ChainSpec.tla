----------------------------- MODULE ChainSpec -----------------------------
(***************************************************************************)
(* What running a chain means, with no slots and no sharing: every task    *)
(* has its own environment of down values, hands a changed copy of it to   *)
(* inner(), and ends with the values it returns.  A task is one execution  *)
(* of the chain from some provider on: an invocation, or a call of inner().*)
(***************************************************************************)
EXTENDS ChainDefs

VARIABLE tasks

Phases == {"run", "body", "done", "panicked", "gone"}
Task(parent, at, phase, env, calls, last, up) ==
  [parent |-> parent, at |-> at, phase |-> phase, env |-> env,
   calls |-> calls, last |-> last, up |-> up]
NoEnv == [t \in DownTypes |-> Unset]

Active(k) == \E c \in DOMAIN tasks : tasks[c].parent = k /\ tasks[c].phase # "gone"
IsA(k, phase, class) == tasks[k].phase = phase /\ Chain[tasks[k].at].class \in class

Init == binding \in Bindings /\ tasks = <<>>

Invoke ==
  LET id == Len(tasks) + 1 IN
  tasks' = Append(tasks, Task(0, 1, "run", Put(BaseEnv, InvokeOut, Input(id)), 0, AllZero, AllZero))

(* An injector's outputs are seen by everything after it. *)
Inject(k) ==
  LET i == tasks[k].at IN
  /\ IsA(k, "run", {"injector", "fallible"})
  /\ tasks' = [tasks EXCEPT ![k].at = i + 1,
                            ![k].env = Put(@, Chain[i].out, Made(i, k, 0))]

End(k, phase, up) ==
  tasks' = [tasks EXCEPT ![k].phase = phase, ![k].up = up, ![k].env = NoEnv, ![k].last = AllZero]

(* An error ends the task with that error and nothing else. *)
InjectError(k) ==
  /\ IsA(k, "run", {"fallible"})
  /\ End(k, "done", Put(AllZero, {"error"}, Made(tasks[k].at, k, 0)))

Final(k) ==
  LET i == tasks[k].at IN
  /\ IsA(k, "run", {"final"})
  /\ End(k, "done", Put(AllZero, Chain[i].ret, Made(i, k, 0)))

EnterWrapper(k) ==
  /\ IsA(k, "run", {"wrapper"})
  /\ tasks' = [tasks EXCEPT ![k].phase = "body"]

(* inner() runs the rest of the chain in the environment the wrapper       *)
(* itself was entered with, plus the arguments of inner().                 *)
CallInner(k) ==
  LET i == tasks[k].at
      n == tasks[k].calls + 1
      env == Put(tasks[k].env, Chain[i].out, Made(i, k, n))
  IN /\ IsA(k, "body", {"wrapper"})
     /\ Chain[i].parallel \/ ~Active(k)
     /\ tasks' = Append([tasks EXCEPT ![k].calls = n, ![k].last = AllZero],
                        Task(k, i + 1, "run", env, 0, AllZero, AllZero))

(* inner() returns, or panics into the wrapper, or the invocation ends.    *)
(* What a Parallel wrapper's calls return is not propagated.               *)
Collect(c) ==
  LET k == tasks[c].parent
      gone == [tasks EXCEPT ![c].phase = "gone", ![c].up = AllZero]
  IN /\ tasks[c].phase \in {"done", "panicked"}
     /\ tasks' = IF k = 0 THEN gone
                 ELSE IF Chain[tasks[k].at].parallel THEN gone
                 ELSE [gone EXCEPT ![k].last = tasks[c].up]

(* After more than one call of inner(), other than under Parallel, nothing *)
(* is promised to the wrapper's caller: the call replaced the values it returns *)
(* into by a copy (README, known divergences).                             *)
Retried(k) == tasks[k].calls > 1 /\ ~Chain[tasks[k].at].parallel
EndAnyhow(k, phase) == tasks'[k].up \in Ups /\ End(k, phase, tasks'[k].up)

(* The values a wrapper returns override those that came up to it. *)
WrapperReturn(k) ==
  LET i == tasks[k].at IN
  /\ IsA(k, "body", {"wrapper"})
  /\ ~Active(k)
  /\ IF Retried(k) THEN EndAnyhow(k, "done")
     ELSE End(k, "done", Put(tasks[k].last, Chain[i].ret, Made(i, k, 0)))

(* After a panic nothing that was returned so far is seen. *)
Panic(k) ==
  \/ IsA(k, "run", {"injector", "fallible", "final"}) /\ End(k, "panicked", AllZero)
  \/ /\ IsA(k, "body", {"wrapper"})
     /\ ~Active(k)
     /\ IF Retried(k) THEN EndAnyhow(k, "panicked") ELSE End(k, "panicked", AllZero)

Step ==
  \/ Invoke
  \/ \E k \in DOMAIN tasks :
       \/ Inject(k) \/ InjectError(k) \/ Final(k) \/ EnterWrapper(k)
       \/ CallInner(k) \/ Collect(k) \/ WrapperReturn(k) \/ Panic(k)

Next == Step /\ UNCHANGED binding

Spec == Init /\ [][Next]_<<binding, tasks>>
=============================================================================
