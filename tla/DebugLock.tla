----------------------------- MODULE DebugLock -----------------------------
(***************************************************************************)
(* Collection.Bind and the capture of debugging output (api.go:445-472,    *)
(* debug.go:55-80): every Bind holds debugLock for reading while it runs   *)
(* doBind; a Bind that failed, and a *Debugging value that is asked for,   *)
(* take debugLock for writing and run doBind once more with debug set.     *)
(* doBind calls the ReplaceSelf methods it meets (nject.go:208-243), whose *)
(* functions may call Bind, or Condense, which does.                       *)
(***************************************************************************)
EXTENDS Naturals, Sequences, FiniteSets

CONSTANTS
  Threads,      \* goroutines
  Collections,
  Failing,      \* collections that cannot be bound
  Debugging,    \* collections with a provider that takes *Debugging
  Generated,    \* collections with a ReplaceSelf provider
  Inner,        \* Inner[c]: the collection that function binds, or None
  InPlace,      \* collections whose ReplaceSelf is replaced by one provider
  MaxStarts,    \* bound on the calls of Bind and the requests for *Debugging
  None

ASSUME DebugLockAssumption ==
  /\ Failing \cup Debugging \cup Generated \cup InPlace \subseteq Collections
  /\ Inner \in [Generated -> Collections \cup {None}]
  /\ None \notin Threads \cup Collections
  /\ MaxStarts \in Nat

VARIABLES
  stack,      \* stack[t]: the calls of Bind and capture t is in, outermost first
  readers,    \* readers[t]: how many times t holds debugLock for reading
  pending,    \* the goroutine that holds debugLock for writing or waits to
  writer,     \* the goroutine that holds it for writing
  debug,      \* the flag debug
  replaced,   \* collections whose contents no longer have the ReplaceSelf
  asked,      \* asked[c]: calls of the ReplaceSelf method of c (history)
  starts

vars == <<stack, readers, pending, writer, debug, replaced, asked, starts>>

(* A call is before RLock or Lock, in doBind, in ReplaceSelf, or after     *)
(* doBind; real is false in a capture.                                     *)
Stages == {"rlock", "lock", "drain", "doBind", "replace", "after"}
Frames == [coll : Collections, real : BOOLEAN, at : Stages]

Init ==
  /\ stack = [t \in Threads |-> <<>>]
  /\ readers = [t \in Threads |-> 0]
  /\ pending = None
  /\ writer = None
  /\ debug = FALSE
  /\ replaced = {}
  /\ asked = [c \in Generated |-> 0]
  /\ starts = 0

Depth(t) == Len(stack[t])
Top(t) == stack[t][Depth(t)]
At(t, real, stages) == stack[t] # <<>> /\ Top(t).real = real /\ Top(t).at \in stages
Goto(t, at) == [stack EXCEPT ![t][Depth(t)].at = at]
Pop(t) == [stack EXCEPT ![t] = SubSeq(@, 1, Depth(t) - 1)]
Frame(c, real, at) == [coll |-> c, real |-> real, at |-> at]

(* The program calls Bind. *)
Bind(t, c) ==
  /\ stack[t] = <<>> /\ starts < MaxStarts
  /\ stack' = [stack EXCEPT ![t] = <<Frame(c, TRUE, "rlock")>>]
  /\ starts' = starts + 1
  /\ UNCHANGED <<readers, pending, writer, debug, replaced, asked>>

(* The provider of *Debugging runs in an invocation: it captures, unless   *)
(* "debugging already in progress" (bind.go:212-217).                      *)
AskForDebugging(t, c) ==
  /\ stack[t] = <<>> /\ starts < MaxStarts
  /\ c \in Debugging
  /\ stack' = IF debug THEN stack ELSE [stack EXCEPT ![t] = <<Frame(c, FALSE, "lock")>>]
  /\ starts' = starts + 1
  /\ UNCHANGED <<readers, pending, writer, debug, replaced, asked>>

(* debugLock.RLock(): a sync.RWMutex turns new readers away from when a    *)
(* writer has announced itself.                                            *)
RLock(t) ==
  /\ At(t, TRUE, {"rlock"})
  /\ pending = None
  /\ readers' = [readers EXCEPT ![t] = @ + 1]
  /\ stack' = Goto(t, "doBind")
  /\ UNCHANGED <<pending, writer, debug, replaced, asked, starts>>

InDoBind(t, stage) == At(t, TRUE, {stage}) \/ At(t, FALSE, {stage})

(* doBind meets a ReplaceSelf provider in the contents: it is called, and  *)
(* may bind another collection.                                            *)
CallReplaceSelf(t) ==
  LET c == Top(t).coll IN
  /\ InDoBind(t, "doBind")
  /\ c \in Generated \ replaced
  /\ asked' = [asked EXCEPT ![c] = @ + 1]
  /\ stack' = IF Inner[c] = None THEN Goto(t, "replace")
              ELSE [Goto(t, "replace") EXCEPT ![t] = Append(@, Frame(Inner[c], TRUE, "rlock"))]
  /\ UNCHANGED <<readers, pending, writer, debug, replaced, starts>>

(* It has returned: one provider takes its place in the shared contents,   *)
(* several go into a new list that is private to this doBind.              *)
Substitute(t) ==
  /\ InDoBind(t, "replace")
  /\ replaced' = replaced \cup ({Top(t).coll} \cap InPlace)
  /\ stack' = Goto(t, "after")
  /\ UNCHANGED <<readers, pending, writer, debug, asked, starts>>

(* The rest of doBind, for a collection with nothing to replace. *)
NothingToReplace(t) ==
  /\ InDoBind(t, "doBind")
  /\ Top(t).coll \notin Generated \ replaced
  /\ stack' = Goto(t, "after")
  /\ UNCHANGED <<readers, pending, writer, debug, replaced, asked, starts>>

(* Mutant: not released after an error. *)
RUnlockOnSuccess(t) ==
  /\ At(t, TRUE, {"after"})
  /\ readers' = IF Top(t).coll \in Failing THEN readers ELSE [readers EXCEPT ![t] = @ - 1]
  /\ stack' = Pop(t)
  /\ UNCHANGED <<pending, writer, debug, replaced, asked, starts>>

(* bindFast returns: the deferred RUnlock; after an error, capture. *)
RUnlock(t) ==
  /\ At(t, TRUE, {"after"})
  /\ readers' = [readers EXCEPT ![t] = @ - 1]
  /\ stack' = IF Top(t).coll \in Failing
              THEN [Pop(t) EXCEPT ![t] = Append(@, Frame(Top(t).coll, FALSE, "lock"))]
              ELSE Pop(t)
  /\ UNCHANGED <<pending, writer, debug, replaced, asked, starts>>

(* debugLock.Lock(): announce, when no other writer has; then wait for the *)
(* readers to leave.  The atomic swap of debug follows.                    *)
Announce(t) ==
  /\ At(t, FALSE, {"lock"})
  /\ pending = None
  /\ pending' = t
  /\ stack' = Goto(t, "drain")
  /\ UNCHANGED <<readers, writer, debug, replaced, asked, starts>>

(* Mutant: capture takes the lock for reading, too. *)
LockShared(t) ==
  /\ At(t, FALSE, {"drain"})
  /\ writer' = t
  /\ debug' = TRUE
  /\ stack' = IF debug THEN Pop(t) ELSE Goto(t, "doBind")
  /\ UNCHANGED <<readers, pending, replaced, asked, starts>>

(* When debug was set already, "already capturing" is returned, and the    *)
(* lock is kept.                                                           *)
Lock(t) ==
  /\ At(t, FALSE, {"drain"})
  /\ \A r \in Threads : readers[r] = 0
  /\ writer' = t
  /\ debug' = TRUE
  /\ stack' = IF debug THEN Pop(t) ELSE Goto(t, "doBind")
  /\ UNCHANGED <<readers, pending, replaced, asked, starts>>

(* Mutant: the deferred function clears debug only. *)
UnlockFlagOnly(t) ==
  /\ At(t, FALSE, {"after"})
  /\ debug' = FALSE
  /\ stack' = Pop(t)
  /\ UNCHANGED <<readers, pending, writer, replaced, asked, starts>>

(* The deferred function: debug is cleared, the lock released. *)
Unlock(t) ==
  /\ At(t, FALSE, {"after"})
  /\ debug' = FALSE
  /\ writer' = None
  /\ pending' = None
  /\ stack' = Pop(t)
  /\ UNCHANGED <<readers, replaced, asked, starts>>

Step(t) ==
  \/ RLock(t) \/ CallReplaceSelf(t) \/ Substitute(t) \/ NothingToReplace(t)
  \/ RUnlock(t) \/ Announce(t) \/ Lock(t) \/ Unlock(t)

Next ==
  \E t \in Threads : Step(t) \/ \E c \in Collections : Bind(t, c) \/ AskForDebugging(t, c)

(* A goroutine is scheduled, a ReplaceSelf function returns, and the mutex *)
(* among writers and the readers' queue are fair.                          *)
Fairness == \A t \in Threads : WF_vars(Step(t)) /\ SF_vars(RLock(t)) /\ SF_vars(Announce(t))

Spec == Init /\ [][Next]_vars /\ Fairness

-----------------------------------------------------------------------------
(* Values have their types (debug.go:12-17). *)
TypeOK ==
  /\ stack \in [Threads -> Seq(Frames)]
  /\ readers \in [Threads -> Nat]
  /\ pending \in Threads \cup {None} /\ writer \in Threads \cup {None}
  /\ debug \in BOOLEAN
  /\ replaced \subseteq Collections
  /\ asked \in [Generated -> Nat]
  /\ starts \in 0 .. MaxStarts

(* While debug is set one goroutine captures and no Bind is under way, so  *)
(* that what doBind traces is the output of one collection; and debug is   *)
(* set whenever a capture runs.                                            *)
Capturing(t) == \E i \in DOMAIN stack[t] : ~stack[t][i].real /\ stack[t][i].at \in {"doBind", "replace", "after"}
CaptureAlone ==
  /\ debug <=> \E t \in Threads : Capturing(t)
  /\ debug => \A t \in Threads : readers[t] = 0 /\ (Capturing(t) <=> writer = t)

(* debugLock is released on every path: a goroutine holds exactly what the *)
(* calls that it is in have taken.                                         *)
Reading(f) == f.real /\ f.at # "rlock"
LockBalanced ==
  /\ \A t \in Threads :
       readers[t] = Cardinality({i \in DOMAIN stack[t] : Reading(stack[t][i])})
  /\ pending # None => stack[pending] # <<>>
  /\ writer # None => Capturing(writer)

(* Every Bind, and every request for debugging, comes back: "Bind() and    *)
(* Run() will return error rather than panic" (doc.go:301).                *)
EveryBindReturns == \A t \in Threads : stack[t] # <<>> ~> stack[t] = <<>>
=============================================================================
