---------------------------- MODULE FallibleMemo ----------------------------
(***************************************************************************)
(* A fallible injector of the RUN set that is marked Memoize               *)
(* (generate.go:251-293).  The cacher hands the slice it remembers to all  *)
(* its callers, and wrapFallibleInjector removes the TerminalError from    *)
(* that slice with append, outside the cacher's mutex.                     *)
(***************************************************************************)
EXTENDS Naturals, FiniteSets

CONSTANTS
  Threads,     \* goroutines in invocations that use the provider
  Width,       \* the number of its return values
  ErrorIndex,  \* which of them is the TerminalError
  MaxCalls     \* bound on the calls

Positions == 1 .. Width

(* A return value is named by its position; "nil" and "failure" are the    *)
(* values of the TerminalError.                                            *)
Nil == <<"error", 0>>
Failure == <<"error", 1>>
Value(i) == <<"value", i>>
Executed(error) == [i \in Positions |-> IF i = ErrorIndex THEN error ELSE Value(i)]

VARIABLES
  out,       \* the remembered slice; empty before the execution
  pc,        \* pc[t]: where goroutine t is in wrapFallibleInjector
  results,   \* what the callers had from it: error, panic or outputs (history)
  made,      \* what the only execution returned (history)
  calls

vars == <<out, pc, results, made, calls>>

NoSlice == [i \in {} |-> Nil]

Init ==
  /\ out = NoSlice
  /\ pc = [t \in Threads |-> "idle"]
  /\ results = {}
  /\ made = NoSlice
  /\ calls = 0

(* out = memoized(in), once for all: see Cache.tla. *)
Memoized(t) ==
  /\ pc[t] = "idle" /\ calls < MaxCalls
  /\ IF out = NoSlice
     THEN \E error \in {Nil, Failure} : out' = Executed(error) /\ made' = out'
     ELSE UNCHANGED <<out, made>>
  /\ pc' = [pc EXCEPT ![t] = "check"]
  /\ calls' = calls + 1
  /\ UNCHANGED results

(* out[errorIndex].Interface() != nil: it is the error returned; Convert   *)
(* panics for a value of a type that is not an error.                      *)
Errored(t) ==
  /\ pc[t] = "check" /\ out[ErrorIndex] # Nil
  /\ pc' = [pc EXCEPT ![t] = "idle"]
  /\ results' = results \cup
       {IF out[ErrorIndex] = Failure THEN [how |-> "error", outs |-> NoSlice]
        ELSE [how |-> "panic", outs |-> NoSlice]}
  /\ UNCHANGED <<out, made, calls>>

(* append(out[:errorIndex], out[errorIndex+1:]...) moves the tail of the   *)
(* remembered array one place down; its last element stays.                *)
RemoveError(t) ==
  /\ pc[t] = "check" /\ out[ErrorIndex] = Nil
  /\ out' = [i \in Positions |-> IF ErrorIndex <= i /\ i < Width THEN out[i + 1] ELSE out[i]]
  /\ pc' = [pc EXCEPT ![t] = "map"]
  /\ UNCHANGED <<results, made, calls>>

(* outMap(v, ...) takes what is now in the shortened slice. *)
MapOutputs(t) ==
  /\ pc[t] = "map"
  /\ pc' = [pc EXCEPT ![t] = "idle"]
  /\ results' = results \cup {[how |-> "outputs", outs |-> [i \in 1 .. Width - 1 |-> out[i]]]}
  /\ UNCHANGED <<out, made, calls>>

Next == \E t \in Threads : Memoized(t) \/ Errored(t) \/ RemoveError(t) \/ MapOutputs(t)

Spec == Init /\ [][Next]_vars

-----------------------------------------------------------------------------
(* "The TerminalError does not have to be the last return value"           *)
(* (doc.go:166): each caller has from the remembered slice what the        *)
(* execution returned, the error or all the other values in their order.   *)
Outputs(s) == [i \in 1 .. Width - 1 |-> IF i < ErrorIndex THEN s[i] ELSE s[i + 1]]
CallersAgreeWithExecution ==
  \A r \in results :
    r = IF made[ErrorIndex] = Nil THEN [how |-> "outputs", outs |-> Outputs(made)]
        ELSE [how |-> "error", outs |-> NoSlice]
=============================================================================
