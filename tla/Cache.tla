------------------------------- MODULE Cache -------------------------------
(***************************************************************************)
(* The process-wide memory behind Memoize and Singleton (cache.go): the    *)
(* registries filled while chains are bound, one mutex and one map for     *)
(* each memoized provider, one sync.Once for each singleton, and the       *)
(* goroutines whose chains call them.                                      *)
(*                                                                         *)
(* A cacher is a closure made by the Bind that first met the provider, so  *)
(* it is named by that chain.  A goroutine is a stack of calls, because a  *)
(* provider's function runs under the cacher's mutex and may itself run a  *)
(* bound chain.                                                            *)
(***************************************************************************)
EXTENDS Naturals, Sequences

CONSTANTS
  Threads,      \* goroutines
  Chains,       \* bound chains, one remembered provider of each is followed
  Providers,    \* provider ids
  ProviderOf,   \* ProviderOf[c]: the provider that chain c uses
  Singletons,   \* the providers marked Singleton; the others are Memoize
  Checked,      \* the chains that characterize their provider with a mapKeyCheck
  Values,       \* argument values
  NilValues,    \* nil interfaces among them
  EmptyString,  \* the value ""
  Refused,      \* values a mapKeyCheck turns down
  Unhashable,   \* values that cannot be used as a Go map key
  Arguments,    \* Arguments[p]: the argument lists p is called with
  Nested,       \* pairs <<p, q>>: the function of p may run a chain that uses q
  MaxDepth,     \* bound on the nesting of calls in one goroutine
  MaxCalls,     \* bound on the calls of a behaviour
  None

Depths == 1 .. MaxDepth
AllInputs == UNION {Arguments[p] : p \in Providers}

(* The arrays in3, in10, in30 and in90 that serve as map keys: the width   *)
(* for l inputs, or 0 when there is none and nothing is remembered.        *)
Widths == {3, 10, 30, 90}
KeyWidth(l) ==
  IF l > 90 THEN 0 ELSE CHOOSE w \in Widths : l <= w /\ \A x \in Widths : l <= x => w <= x

(* fillKeyFromInputs: a nil interface and the unused tail become "". *)
KeyPart(v) == IF v \in NilValues THEN EmptyString ELSE v
(* Mutant: the loop over the inputs stops one short. *)
FilledKeyShort(in) ==
  [i \in 1 .. KeyWidth(Len(in)) |-> IF i < Len(in) THEN KeyPart(in[i]) ELSE EmptyString]
FilledKey(in) ==
  [i \in 1 .. KeyWidth(Len(in)) |-> IF i <= Len(in) THEN KeyPart(in[i]) ELSE EmptyString]

(* A singleton has one entry, whatever it is called with. *)
OnceKey == <<>>
KeyOf(p, in) == IF p \in Singletons THEN OnceKey ELSE FilledKey(in)
Keys == {OnceKey} \cup {FilledKey(in) : in \in AllInputs}

(* The slice an execution returned; run = 0 is the nil slice that a        *)
(* singleton is left with when its only execution panicked.                *)
Outs == [prov : Providers, in : AllInputs, run : Nat]
Frames == [chain : Chains, in : AllInputs, at : {"wait", "lookup", "body", "bypass"}]
Answers == [chain : Chains, in : AllInputs, out : Outs]

ASSUME CacheAssumption ==
  /\ ProviderOf \in [Chains -> Providers]
  /\ Singletons \subseteq Providers
  /\ Arguments \in [Providers -> SUBSET Seq(Values)]
  /\ NilValues \subseteq Values
  /\ MaxDepth \in Nat \ {0}
  /\ MaxCalls \in Nat
  /\ None \notin Outs /\ None \notin Frames /\ None \notin Chains
  /\ None \notin Threads \X Depths

VARIABLES
  cachers,   \* registry: the chain whose Bind made the cacher of provider p
  bound,     \* bound[c]: the cacher chain c got from the registry
  lock,      \* holder of a cacher's mutex: a goroutine and the depth of its call
  cache,     \* cache[o][k]: what cacher o remembers under k
  depth,     \* depth[t]: the number of calls goroutine t is in
  act,       \* act[t][d]: the call of t at depth d
  execs,     \* completed executions of provider p under key k (history)
  answers,   \* keyed calls that returned, with what they returned (history)
  calls      \* calls so far, bounded by MaxCalls

vars == <<cachers, bound, lock, cache, depth, act, execs, answers, calls>>

-----------------------------------------------------------------------------
Init ==
  /\ cachers = [p \in Providers |-> None]
  /\ bound = [c \in Chains |-> None]
  /\ lock = [o \in Chains |-> None]
  /\ cache = [o \in Chains |-> [k \in Keys |-> None]]
  /\ depth = [t \in Threads |-> 0]
  /\ act = [t \in Threads |-> [d \in Depths |-> None]]
  /\ execs = [p \in Providers |-> [k \in Keys |-> 0]]
  /\ answers = {}
  /\ calls = 0

(* Mutant: every Bind makes a cacher of its own. *)
GenerateOwnCache(c) ==
  /\ bound[c] = None
  /\ cachers' = [cachers EXCEPT ![ProviderOf[c]] = c]
  /\ bound' = [bound EXCEPT ![c] = c]
  /\ UNCHANGED <<lock, cache, depth, act, execs, answers, calls>>

(* generateCache and generateSingleton, both inside lockLock: the cacher   *)
(* in the registry, or a new one.                                          *)
GenerateCache(c) ==
  LET p == ProviderOf[c]
      o == IF cachers[p] = None THEN c ELSE cachers[p]
  IN /\ bound[c] = None
     /\ cachers' = [cachers EXCEPT ![p] = o]
     /\ bound' = [bound EXCEPT ![c] = o]
     /\ UNCHANGED <<lock, cache, depth, act, execs, answers, calls>>

-----------------------------------------------------------------------------
Top(t) == act[t][depth[t]]
Prov(f) == ProviderOf[f.chain]
Obj(f) == bound[f.chain]
FrameKey(f) == KeyOf(Prov(f), f.in)

(* The calls that are never remembered: too many inputs for a key, or a    *)
(* mapKeyCheck (that of the Bind that made the cacher) turns one down.     *)
Bypassed(c, in) ==
  /\ ProviderOf[c] \notin Singletons
  /\ \/ KeyWidth(Len(in)) = 0
     \/ bound[c] \in Checked /\ \E i \in DOMAIN in : in[i] \in Refused

Panics(f) == Prov(f) \notin Singletons /\ \E i \in DOMAIN f.in : f.in[i] \in Unhashable

(* A goroutine may call when idle, or from inside a provider's function. *)
MayCall(t, p) ==
  depth[t] > 0 => /\ Top(t).at \in {"body", "bypass"}
                  /\ <<Prov(Top(t)), p>> \in Nested

Call(t, c, in) ==
  /\ calls < MaxCalls /\ depth[t] < MaxDepth
  /\ bound[c] # None
  /\ in \in Arguments[ProviderOf[c]]
  /\ MayCall(t, ProviderOf[c])
  /\ depth' = [depth EXCEPT ![t] = @ + 1]
  /\ act' = [act EXCEPT ![t][depth[t] + 1] =
               [chain |-> c, in |-> in, at |-> IF Bypassed(c, in) THEN "bypass" ELSE "wait"]]
  /\ calls' = calls + 1
  /\ UNCHANGED <<cachers, bound, lock, cache, execs, answers>>

-----------------------------------------------------------------------------
Goto(t, at) ==
  /\ act' = [act EXCEPT ![t][depth[t]].at = at]
  /\ UNCHANGED depth

Pop(t) ==
  /\ act' = [act EXCEPT ![t][depth[t]] = None]
  /\ depth' = [depth EXCEPT ![t] = @ - 1]

At(t, at) == depth[t] > 0 /\ Top(t).at = at

Unlock(f) == lock' = [lock EXCEPT ![Obj(f)] = None]
Answer(f, out) == answers' = answers \cup {[chain |-> f.chain, in |-> f.in, out |-> out]}

(* Mutant: the function runs under no mutex. *)
AcquireFreely(t) ==
  /\ At(t, "wait")
  /\ Goto(t, "lookup")
  /\ UNCHANGED <<cachers, bound, lock, cache, execs, answers, calls>>

(* lock.Lock(), or entering the slow path of sync.Once. *)
Acquire(t) ==
  /\ At(t, "wait")
  /\ lock[Obj(Top(t))] = None
  /\ lock' = [lock EXCEPT ![Obj(Top(t))] = <<t, depth[t]>>]
  /\ Goto(t, "lookup")
  /\ UNCHANGED <<cachers, bound, cache, execs, answers, calls>>

(* Mutant: done is set before the function has returned. *)
OnceDoneEarly(t) ==
  LET f == Top(t) IN
  /\ At(t, "wait")
  /\ Prov(f) \in Singletons
  /\ lock[Obj(f)] # None
  /\ Answer(f, cache[Obj(f)][OnceKey])
  /\ Pop(t)
  /\ UNCHANGED <<cachers, bound, lock, cache, execs, calls>>

(* The fast path of sync.Once: done is set, no lock is taken. *)
OnceDone(t) ==
  LET f == Top(t) IN
  /\ At(t, "wait")
  /\ Prov(f) \in Singletons
  /\ cache[Obj(f)][OnceKey] # None
  /\ Answer(f, cache[Obj(f)][OnceKey])
  /\ Pop(t)
  /\ UNCHANGED <<cachers, bound, lock, cache, execs, calls>>

(* out, found := cache[key]; found.  The mutex is released by the defer. *)
Hit(t) ==
  LET f == Top(t) IN
  /\ At(t, "lookup")
  /\ ~Panics(f)
  /\ cache[Obj(f)][FrameKey(f)] # None
  /\ Answer(f, cache[Obj(f)][FrameKey(f)])
  /\ Unlock(f)
  /\ Pop(t)
  /\ UNCHANGED <<cachers, bound, cache, execs, calls>>

(* Mutant: the mutex is released on the normal paths only. *)
HashPanicLocked(t) ==
  /\ At(t, "lookup")
  /\ Panics(Top(t))
  /\ Pop(t)
  /\ UNCHANGED <<cachers, bound, lock, cache, execs, answers, calls>>

(* cache[key] with a key that cannot be hashed: a run-time panic. *)
HashPanic(t) ==
  LET f == Top(t) IN
  /\ At(t, "lookup")
  /\ Panics(f)
  /\ Unlock(f)
  /\ Pop(t)
  /\ UNCHANGED <<cachers, bound, cache, execs, answers, calls>>

(* Nothing is remembered: the function is entered with the mutex held. *)
Miss(t) ==
  LET f == Top(t) IN
  /\ At(t, "lookup")
  /\ ~Panics(f)
  /\ cache[Obj(f)][FrameKey(f)] = None
  /\ Goto(t, "body")
  /\ UNCHANGED <<cachers, bound, lock, cache, execs, answers, calls>>

Result(f, run) == [prov |-> Prov(f), in |-> f.in, run |-> run]

(* fv.Call returns: cache[key] = out, the mutex is released, out returned. *)
Return(t) ==
  LET f == Top(t)
      out == Result(f, execs[Prov(f)][FrameKey(f)] + 1)
  IN /\ At(t, "body")
     /\ cache' = [cache EXCEPT ![Obj(f)][FrameKey(f)] = out]
     /\ execs' = [execs EXCEPT ![Prov(f)][FrameKey(f)] = @ + 1]
     /\ Answer(f, out)
     /\ Unlock(f)
     /\ Pop(t)
     /\ UNCHANGED <<cachers, bound, calls>>

(* Mutant: the mutex is not released by a defer. *)
PanicLocked(t) ==
  /\ At(t, "body")
  /\ Pop(t)
  /\ UNCHANGED <<cachers, bound, lock, cache, execs, answers, calls>>

(* fv.Call panics: the defer releases the mutex.  A memoized provider      *)
(* remembers nothing; for sync.Once the only execution is used up and out  *)
(* stays nil.                                                              *)
Panic(t) ==
  LET f == Top(t) IN
  /\ At(t, "body")
  /\ IF Prov(f) \in Singletons
     THEN /\ cache' = [cache EXCEPT ![Obj(f)][OnceKey] = Result(f, 0)]
          /\ execs' = [execs EXCEPT ![Prov(f)][OnceKey] = @ + 1]
     ELSE UNCHANGED <<cache, execs>>
  /\ Unlock(f)
  /\ Pop(t)
  /\ UNCHANGED <<cachers, bound, answers, calls>>

(* An unremembered call returns or panics. *)
BypassEnd(t) ==
  /\ At(t, "bypass")
  /\ Pop(t)
  /\ UNCHANGED <<cachers, bound, lock, cache, execs, answers, calls>>

Step(t) ==
  \/ Acquire(t) \/ OnceDone(t) \/ Hit(t) \/ HashPanic(t) \/ Miss(t)
  \/ Return(t) \/ Panic(t) \/ BypassEnd(t)

Next ==
  \/ \E c \in Chains : GenerateCache(c)
  \/ \E t \in Threads, c \in Chains, in \in AllInputs : Call(t, c, in)
  \/ \E t \in Threads : Step(t)

(* A provider's function ends, and a Go mutex is not denied forever to a   *)
(* goroutine that waits for it.                                            *)
Fairness == \A t \in Threads : WF_vars(Step(t)) /\ SF_vars(Acquire(t))

Spec == Init /\ [][Next]_vars /\ Fairness

-----------------------------------------------------------------------------
(* Values have their types (cache.go:10-23, 152-282). *)
TypeOK ==
  /\ cachers \in [Providers -> Chains \cup {None}]
  /\ bound \in [Chains -> Chains \cup {None}]
  /\ lock \in [Chains -> (Threads \X Depths) \cup {None}]
  /\ cache \in [Chains -> [Keys -> Outs \cup {None}]]
  /\ depth \in [Threads -> 0 .. MaxDepth]
  /\ act \in [Threads -> [Depths -> Frames \cup {None}]]
  /\ execs \in [Providers -> [Keys -> Nat]]
  /\ answers \subseteq Answers
  /\ calls \in Nat

(* "it only executes once per input parameter values combination.  This    *)
(* cache is global among all Sequences" (api.go:172-174), and a singleton  *)
(* "will be called exactly once" (api.go:147): however the chains are      *)
(* bound and whichever goroutines meet in the cacher, a provider completes *)
(* at most one execution under a key.                                      *)
OncePerCombination == \A p \in Providers, k \in Keys : execs[p][k] <= 1

(* Chains that use the same provider share its results (doc.go:130-134):   *)
(* two calls under the same key were told the same thing.                  *)
SameKey(a, b) ==
  /\ ProviderOf[a.chain] = ProviderOf[b.chain]
  /\ KeyOf(ProviderOf[a.chain], a.in) = KeyOf(ProviderOf[b.chain], b.in)
AnswersAgree == \A a, b \in answers : SameKey(a, b) => a.out = b.out

(* A memoized call is answered with the result of an execution on the very *)
(* inputs it was given ("once per input parameter values combination").    *)
AnswerMatchesInputs ==
  \A a \in answers : ProviderOf[a.chain] \notin Singletons => a.out.in = a.in

(* The mutex of a cacher is held exactly while a call of some goroutine is *)
(* between lookup and return; no path, a panic included, leaves it held.   *)
InCritical(t, d) == d <= depth[t] /\ act[t][d].at \in {"lookup", "body"}
LockDiscipline ==
  \A o \in Chains, t \in Threads, d \in Depths :
    lock[o] = <<t, d>> <=> InCritical(t, d) /\ Obj(act[t][d]) = o

(* An entry, once written, is never lost nor replaced. *)
EntriesAreFinal ==
  [][\A o \in Chains, k \in Keys : cache[o][k] # None => cache'[o][k] = cache[o][k]]_cache

(* As long as no provider's function runs back into itself, every call     *)
(* comes to an end: waiting for a cacher is never waiting forever.         *)
CallsEnd == \A t \in Threads : depth[t] > 0 ~> depth[t] = 0

(* The registries, mutexes and once flags keep the promise of Memo. *)
Table ==
  [p \in Providers |-> IF cachers[p] = None THEN [k \in Keys |-> None] ELSE cache[cachers[p]]]
M == INSTANCE Memo WITH table <- Table
MemoSpec == M!Spec
=============================================================================
