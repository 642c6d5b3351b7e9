------------------------------- MODULE Memo -------------------------------
(***************************************************************************)
(* What a remembered provider promises to the injection chains that use    *)
(* it: one table per provider, shared by every chain, an entry of which is *)
(* written once, by the execution of the provider that first completed,    *)
(* and which answers every later call.  Cache.tla is the code that keeps   *)
(* this promise with registries, mutexes and sync.Once.                    *)
(***************************************************************************)

CONSTANTS
  Providers,   \* ids of the providers marked Memoize or Singleton
  Keys,        \* what a call is remembered under
  Outs,        \* results of executions
  Answers,     \* what a caller can be told: records with a field "out"
  None         \* no entry

VARIABLES
  table,       \* table[p][k]: the result remembered for key k of provider p
  answers      \* the answers given so far

vars == <<table, answers>>

Init ==
  /\ table = [p \in Providers |-> [k \in Keys |-> None]]
  /\ answers = {}

(* A caller is told what is remembered under k. *)
Tell(p, k) ==
  \E a \in answers' : /\ a \in Answers
                      /\ a.out = table'[p][k]
                      /\ answers' = answers \cup {a}

(* The provider is executed because nothing is remembered under k; nobody  *)
(* need be told, if the execution fails and is remembered as such.         *)
Execute(p, k) ==
  /\ table[p][k] = None
  /\ table'[p][k] \in Outs
  /\ table' = [table EXCEPT ![p][k] = table'[p][k]]
  /\ Tell(p, k) \/ UNCHANGED answers

(* A later call is answered from the table, and only from it. *)
Recall(p, k) ==
  /\ table[p][k] # None
  /\ UNCHANGED table
  /\ Tell(p, k)

Next == \E p \in Providers, k \in Keys : Execute(p, k) \/ Recall(p, k)

Spec == Init /\ [][Next]_vars
=============================================================================
