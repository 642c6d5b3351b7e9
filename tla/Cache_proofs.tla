---------------------------- MODULE Cache_proofs ----------------------------
(***************************************************************************)
(* Proofs about Cache.tla, for any goroutines, chains, providers, keys and *)
(* bounds.                                                                 *)
(***************************************************************************)
EXTENDS Cache, TLAPS

(* The calls that goroutine t is in, and no others, have a frame. *)
StackShape ==
  \A t \in Threads, d \in Depths : act[t][d] # None <=> d <= depth[t]

(* A call is made through a chain that was bound. *)
FramesBound ==
  \A t \in Threads, d \in Depths : d <= depth[t] => bound[act[t][d].chain] # None

(* Every chain holds the cacher that the registry has for its provider. *)
RegistryAgrees ==
  /\ \A c \in Chains : bound[c] # None => bound[c] = cachers[ProviderOf[c]]
  /\ \A p \in Providers : cachers[p] # None => ProviderOf[cachers[p]] = p

(* Only a cacher of the registry remembers anything. *)
EntriesOwned ==
  \A o \in Chains, k \in Keys : cache[o][k] # None => cachers[ProviderOf[o]] = o

(* A provider's function runs for a key under which nothing is remembered. *)
BodyMissed ==
  \A t \in Threads, d \in Depths :
    d <= depth[t] /\ act[t][d].at = "body" => cache[Obj(act[t][d])][FrameKey(act[t][d])] = None

(* An execution is counted exactly when its result is remembered. *)
Remembered(p, k) == cachers[p] # None /\ cache[cachers[p]][k] # None
CountsMatch ==
  \A p \in Providers, k \in Keys : execs[p][k] = IF Remembered(p, k) THEN 1 ELSE 0

(* What callers were told is what is remembered. *)
AnswersRemembered ==
  \A a \in answers :
    /\ bound[a.chain] # None
    /\ cache[bound[a.chain]][KeyOf(ProviderOf[a.chain], a.in)] = a.out

Shape == TypeOK /\ StackShape /\ FramesBound
IInv ==
  /\ Shape /\ RegistryAgrees /\ EntriesOwned /\ LockDiscipline
  /\ BodyMissed /\ CountsMatch /\ AnswersRemembered

-----------------------------------------------------------------------------
(* The key of a call on known arguments is a known key. *)
LEMMA KeyOfType ==
  ASSUME NEW p \in Providers, NEW in \in AllInputs
  PROVE  KeyOf(p, in) \in Keys
BY DEF KeyOf, Keys

(* The call that goroutine t is in. *)
LEMMA TopType ==
  ASSUME Shape, NEW t \in Threads, depth[t] > 0
  PROVE  /\ depth[t] \in Depths
         /\ Top(t) \in Frames
         /\ Top(t) = act[t][depth[t]]
         /\ Prov(Top(t)) \in Providers
         /\ Obj(Top(t)) \in Chains
         /\ FrameKey(Top(t)) \in Keys
<1>1. depth[t] \in Depths
  BY DEF Shape, TypeOK, Depths
<1>2. Top(t) \in Frames
  BY <1>1, CacheAssumption DEF Shape, TypeOK, StackShape, Top
<1>3. Top(t).chain \in Chains /\ Top(t).in \in AllInputs
  BY <1>2 DEF Frames
<1>4. Prov(Top(t)) \in Providers
  BY <1>3, CacheAssumption DEF Prov
<1>5. Obj(Top(t)) \in Chains
  BY <1>1, <1>3 DEF Shape, TypeOK, FramesBound, Obj, Top
<1> QED
  BY <1>1, <1>2, <1>3, <1>4, <1>5, KeyOfType DEF FrameKey, Top

(* Types and call stacks are right before anything runs. *)
LEMMA InitShape == Init => Shape
<1> SUFFICES ASSUME Init PROVE Shape
  OBVIOUS
<1>1. TypeOK
  BY CacheAssumption DEF Init, TypeOK
<1>2. StackShape /\ FramesBound
  BY DEF Init, StackShape, FramesBound, Depths
<1> QED
  BY <1>1, <1>2 DEF Shape

(* Going from one point of a call to another. *)
LEMMA GotoShape ==
  ASSUME Shape, NEW t \in Threads, depth[t] > 0,
         NEW at \in {"wait", "lookup", "body", "bypass"}, Goto(t, at)
  PROVE  /\ act' \in [Threads -> [Depths -> Frames \cup {None}]]
         /\ depth' \in [Threads -> 0 .. MaxDepth]
         /\ StackShape'
         /\ \A u \in Threads, d \in Depths :
              d <= depth'[u] => /\ act'[u][d].chain = act[u][d].chain
                                /\ act'[u][d].in = act[u][d].in
                                /\ act'[u][d].at = IF u = t /\ d = depth[t] THEN at ELSE act[u][d].at
<1> DEFINE f == [Top(t) EXCEPT !.at = at]
<1>1. depth[t] \in Depths /\ Top(t) \in Frames
  BY TopType
<1>2. f \in Frames /\ f.chain = Top(t).chain /\ f.in = Top(t).in /\ f.at = at
  BY <1>1 DEF Frames
<1>3. f # None
  BY <1>2, CacheAssumption
<1>4. depth' = depth
  BY DEF Goto
<1>5. act' = [act EXCEPT ![t][depth[t]] = f]
  BY DEF Goto, Top
<1>6. act[t][depth[t]] # None
  BY <1>1 DEF Shape, TypeOK, StackShape
<1> HIDE DEF f
<1>7. act' \in [Threads -> [Depths -> Frames \cup {None}]]
  BY <1>1, <1>2, <1>5 DEF Shape, TypeOK
<1>8. \A u \in Threads, d \in Depths :
        act'[u][d] = IF u = t /\ d = depth[t] THEN f ELSE act[u][d]
  BY <1>1, <1>5 DEF Shape, TypeOK
<1>9. \A u \in Threads, d \in Depths : act'[u][d] # None <=> act[u][d] # None
  BY <1>3, <1>6, <1>8
<1>10. StackShape'
  BY <1>4, <1>9 DEF Shape, StackShape
<1> QED
  BY <1>1, <1>2, <1>4, <1>7, <1>8, <1>10 DEF Shape, TypeOK, Top

(* The end of a call. *)
LEMMA PopShape ==
  ASSUME Shape, NEW t \in Threads, depth[t] > 0, Pop(t)
  PROVE  /\ act' \in [Threads -> [Depths -> Frames \cup {None}]]
         /\ depth' \in [Threads -> 0 .. MaxDepth]
         /\ StackShape'
         /\ \A u \in Threads, d \in Depths :
              /\ d <= depth'[u] => act'[u][d] = act[u][d]
              /\ d <= depth'[u] <=> d <= depth[u] /\ ~(u = t /\ d = depth[t])
<1>1. depth[t] \in Depths /\ depth[t] \in 1 .. MaxDepth
  BY TopType DEF Depths
<1>2. depth' = [depth EXCEPT ![t] = @ - 1] /\ act' = [act EXCEPT ![t][depth[t]] = None]
  BY DEF Pop
<1>3. act' \in [Threads -> [Depths -> Frames \cup {None}]]
  BY <1>1, <1>2 DEF Shape, TypeOK
<1>4. \A u \in Threads, d \in Depths :
        act'[u][d] = IF u = t /\ d = depth[t] THEN None ELSE act[u][d]
  BY <1>1, <1>2 DEF Shape, TypeOK
<1>5. depth' \in [Threads -> 0 .. MaxDepth]
  BY <1>1, <1>2, CacheAssumption DEF Shape, TypeOK
<1>6. \A u \in Threads : depth'[u] = IF u = t THEN depth[t] - 1 ELSE depth[u]
  BY <1>2 DEF Shape, TypeOK
<1>7. \A u \in Threads, d \in Depths :
        d <= depth'[u] <=> d <= depth[u] /\ ~(u = t /\ d = depth[t])
  BY <1>1, <1>6 DEF Shape, TypeOK, Depths
<1>8. StackShape'
  BY <1>4, <1>7 DEF Shape, StackShape
<1> QED
  BY <1>3, <1>4, <1>5, <1>7, <1>8

(* A new call. *)
LEMMA CallShape ==
  ASSUME Shape, NEW t \in Threads, NEW c \in Chains, NEW in \in AllInputs, Call(t, c, in)
  PROVE  /\ Shape'
         /\ \A u \in Threads, d \in Depths :
              d <= depth'[u] =>
                \/ d <= depth[u] /\ act'[u][d] = act[u][d]
                \/ u = t /\ ~(d <= depth[u]) /\ act'[u][d].at \in {"wait", "bypass"}
         /\ \A u \in Threads, d \in Depths : d <= depth[u] => d <= depth'[u] /\ act'[u][d] = act[u][d]
<1> DEFINE f == [chain |-> c, in |-> in, at |-> IF Bypassed(c, in) THEN "bypass" ELSE "wait"]
           e == depth[t] + 1
<1>1. f \in Frames /\ f.chain = c /\ f.at \in {"wait", "bypass"}
  BY DEF Frames
<1>2. f # None
  BY <1>1, CacheAssumption
<1>3. depth[t] \in 0 .. MaxDepth /\ e \in Depths /\ e > depth[t]
  BY CacheAssumption DEF Call, Shape, TypeOK, Depths
<1>4. depth' = [depth EXCEPT ![t] = e] /\ act' = [act EXCEPT ![t][e] = f]
  BY DEF Call
<1>5. bound[c] # None /\ UNCHANGED <<cachers, bound, lock, cache, execs, answers>>
  BY DEF Call
<1>6. calls' \in Nat
  BY DEF Call, Shape, TypeOK
<1> HIDE DEF f
<1>7. \A u \in Threads : depth'[u] = IF u = t THEN e ELSE depth[u]
  BY <1>4 DEF Shape, TypeOK
<1>8. \A u \in Threads, d \in Depths :
        act'[u][d] = IF u = t /\ d = e THEN f ELSE act[u][d]
  BY <1>3, <1>4 DEF Shape, TypeOK
<1>9. depth' \in [Threads -> 0 .. MaxDepth]
  BY <1>3, <1>4, CacheAssumption DEF Shape, TypeOK, Depths
<1>10. act' \in [Threads -> [Depths -> Frames \cup {None}]]
  BY <1>1, <1>3, <1>4 DEF Shape, TypeOK
<1>11. TypeOK'
  BY <1>5, <1>6, <1>9, <1>10 DEF Shape, TypeOK
<1>12. \A u \in Threads, d \in Depths :
         d <= depth'[u] <=> d <= depth[u] \/ (u = t /\ d = e)
  BY <1>3, <1>7, CacheAssumption DEF Shape, TypeOK, Depths
<1> HIDE DEF e
<1>13. StackShape'
  <2> SUFFICES ASSUME NEW u \in Threads, NEW d \in Depths
               PROVE  act'[u][d] # None <=> d <= depth'[u]
    BY DEF StackShape
  <2>1. act[u][d] # None <=> d <= depth[u]
    BY DEF Shape, StackShape
  <2>2. CASE u = t /\ d = e
    BY <2>2, <1>2, <1>8, <1>12
  <2>3. CASE ~(u = t /\ d = e)
    <3>1. act'[u][d] = act[u][d]
      BY <2>3, <1>8
    <3> QED
      BY <2>1, <2>3, <3>1, <1>12
  <2> QED
    BY <2>2, <2>3
<1>14. FramesBound'
  BY <1>1, <1>5, <1>8, <1>12 DEF Shape, FramesBound
<1>15. ~(e <= depth[t])
  BY <1>3 DEF Depths
<1>16. Shape'
  BY <1>11, <1>13, <1>14 DEF Shape
<1>17. \A u \in Threads, d \in Depths :
         d <= depth'[u] =>
           \/ d <= depth[u] /\ act'[u][d] = act[u][d]
           \/ u = t /\ ~(d <= depth[u]) /\ act'[u][d].at \in {"wait", "bypass"}
  BY <1>1, <1>8, <1>12, <1>15
<1>18. \A u \in Threads, d \in Depths :
         d <= depth[u] => d <= depth'[u] /\ act'[u][d] = act[u][d]
  BY <1>8, <1>12, <1>15
<1> QED
  BY <1>16, <1>17, <1>18

(* Binding a chain touches no call. *)
LEMMA GenerateShape ==
  ASSUME Shape, NEW c \in Chains, GenerateCache(c)
  PROVE  Shape'
<1>1. \A x \in Chains : bound[x] # None => bound'[x] = bound[x]
  BY DEF GenerateCache, Shape, TypeOK
<1>2. TypeOK'
  BY CacheAssumption DEF GenerateCache, Shape, TypeOK
<1>3. StackShape'
  BY DEF GenerateCache, Shape, StackShape
<1>4. FramesBound'
  <2> SUFFICES ASSUME NEW t \in Threads, NEW d \in Depths, d <= depth[t]
               PROVE  bound'[act[t][d].chain] # None
    BY DEF GenerateCache, FramesBound
  <2>1. act[t][d] \in Frames
    BY DEF Shape, StackShape, TypeOK
  <2> QED
    BY <1>1, <2>1 DEF Shape, FramesBound, Frames
<1> QED
  BY <1>2, <1>3, <1>4 DEF Shape

(* Steps of a goroutine inside a call leave the frames in shape; what they *)
(* write elsewhere has its type.                                           *)
LEMMA StepFrames ==
  ASSUME Shape, NEW t \in Threads, Step(t)
  PROVE  /\ depth[t] > 0
         /\ \/ \E at \in {"lookup", "body"} : Goto(t, at)
            \/ Pop(t)
         /\ UNCHANGED <<cachers, bound, calls>>
BY DEF Step, At, Acquire, OnceDone, Hit, HashPanic, Miss, Return, Panic, BypassEnd

(* Every step of a goroutine keeps types and call stacks right. *)
LEMMA StepShape ==
  ASSUME Shape, NEW t \in Threads, Step(t)
  PROVE  Shape'
<1> USE StepFrames
<1> DEFINE Kept ==
      /\ act' \in [Threads -> [Depths -> Frames \cup {None}]]
      /\ depth' \in [Threads -> 0 .. MaxDepth]
      /\ StackShape'
      /\ \A u \in Threads, d \in Depths :
           d <= depth'[u] => d <= depth[u] /\ act'[u][d].chain = act[u][d].chain
<1>1. Kept
  <2>1. CASE Pop(t)
    BY <2>1, PopShape
  <2>2. ASSUME NEW at \in {"lookup", "body"}, Goto(t, at)
        PROVE  Kept
    <3>1. at \in {"wait", "lookup", "body", "bypass"} /\ depth' = depth
      BY <2>2 DEF Goto
    <3> QED
      BY <2>2, <3>1, GotoShape
  <2> QED
    BY <2>1, <2>2
<1>2. FramesBound'
  BY <1>1 DEF Shape, FramesBound
<1> DEFINE f == Top(t)
<1>3. /\ depth[t] \in Depths /\ f \in Frames /\ Prov(f) \in Providers
      /\ Obj(f) \in Chains /\ FrameKey(f) \in Keys
      /\ f.chain \in Chains /\ f.in \in AllInputs
  BY TopType DEF Frames
<1>4. OnceKey \in Keys
  BY DEF Keys
<1>5. \A run \in Nat : Result(f, run) \in Outs
  BY <1>3 DEF Result, Outs
<1> HIDE DEF f
<1>6. lock' \in [Chains -> (Threads \X Depths) \cup {None}]
  <2>1. \E x \in (Threads \X Depths) \cup {None} :
          lock' = lock \/ lock' = [lock EXCEPT ![Obj(f)] = x]
    BY <1>3 DEF Step, Acquire, OnceDone, Hit, HashPanic, Miss, Return, Panic, BypassEnd, Unlock, f
  <2> QED
    BY <1>3, <2>1 DEF Shape, TypeOK
<1>7. execs' \in [Providers -> [Keys -> Nat]]
  <2>1. \E k \in Keys :
          execs' = execs \/ execs' = [execs EXCEPT ![Prov(f)][k] = @ + 1]
    BY <1>3, <1>4 DEF Step, Acquire, OnceDone, Hit, HashPanic, Miss, Return, Panic, BypassEnd, f
  <2>2. ASSUME NEW k \in Keys PROVE execs[Prov(f)] \in [Keys -> Nat] /\ execs[Prov(f)][k] + 1 \in Nat
    BY <1>3 DEF Shape, TypeOK
  <2>3. ASSUME NEW k \in Keys, execs' = [execs EXCEPT ![Prov(f)][k] = @ + 1]
        PROVE  execs' \in [Providers -> [Keys -> Nat]]
    <3> DEFINE row == [execs[Prov(f)] EXCEPT ![k] = @ + 1]
    <3>1. row \in [Keys -> Nat]
      BY <2>2
    <3>2. execs' = [execs EXCEPT ![Prov(f)] = row]
      BY <1>3, <2>3 DEF Shape, TypeOK
    <3> HIDE DEF row
    <3> QED
      BY <1>3, <3>1, <3>2 DEF Shape, TypeOK
  <2> QED
    BY <2>1, <2>3 DEF Shape, TypeOK
<1>8. cache' \in [Chains -> [Keys -> Outs \cup {None}]]
  <2>1. \E k \in Keys, x \in Outs :
          cache' = cache \/ cache' = [cache EXCEPT ![Obj(f)][k] = x]
    <3>1. execs[Prov(f)][FrameKey(f)] + 1 \in Nat /\ 0 \in Nat
      BY <1>3 DEF Shape, TypeOK
    <3> QED
      BY <1>3, <1>4, <1>5, <3>1
         DEF Step, Acquire, OnceDone, Hit, HashPanic, Miss, Return, Panic, BypassEnd, f
  <2>2. ASSUME NEW k \in Keys, NEW x \in Outs, cache' = [cache EXCEPT ![Obj(f)][k] = x]
        PROVE  cache' \in [Chains -> [Keys -> Outs \cup {None}]]
    <3> DEFINE row == [cache[Obj(f)] EXCEPT ![k] = x]
    <3>1. row \in [Keys -> Outs \cup {None}]
      BY <1>3 DEF Shape, TypeOK
    <3>2. cache' = [cache EXCEPT ![Obj(f)] = row]
      BY <2>2
    <3> HIDE DEF row
    <3> QED
      BY <1>3, <3>1, <3>2 DEF Shape, TypeOK
  <2> QED
    BY <2>1, <2>2 DEF Shape, TypeOK
<1>9. answers' \subseteq Answers
  BY <1>3, <1>4, <1>5 DEF Step, Acquire, OnceDone, Hit, HashPanic, Miss, Return, Panic, BypassEnd,
              Shape, TypeOK, Answer, Answers, f
<1> QED
  BY <1>1, <1>2, <1>6, <1>7, <1>8, <1>9 DEF Shape, TypeOK

-----------------------------------------------------------------------------
(* Type correctness, for every value of the constants. *)
THEOREM TypeCorrect == Spec => []TypeOK
<1>1. Init => Shape
  BY InitShape
<1>2. Shape /\ [Next]_vars => Shape'
  <2> SUFFICES ASSUME Shape, [Next]_vars PROVE Shape'
    OBVIOUS
  <2>1. ASSUME NEW c \in Chains, GenerateCache(c) PROVE Shape'
    BY <2>1, GenerateShape
  <2>2. ASSUME NEW t \in Threads, NEW c \in Chains, NEW in \in AllInputs, Call(t, c, in)
        PROVE  Shape'
    BY <2>2, CallShape
  <2>3. ASSUME NEW t \in Threads, Step(t) PROVE Shape'
    BY <2>3, StepShape
  <2>4. CASE UNCHANGED vars
    BY <2>4 DEF vars, Shape, TypeOK, StackShape, FramesBound
  <2> QED
    BY <2>1, <2>2, <2>3, <2>4 DEF Next
<1>3. Shape => TypeOK
  BY DEF Shape
<1> QED
  BY <1>1, <1>2, <1>3, PTL DEF Spec

-----------------------------------------------------------------------------
(* The frames that are left after a step of t. *)
LEMMA StepSurvivors ==
  ASSUME Shape, NEW t \in Threads, Step(t),
         NEW u \in Threads, NEW d \in Depths, d <= depth'[u]
  PROVE  /\ d <= depth[u]
         /\ act[u][d] \in Frames
         /\ act'[u][d].at # act[u][d].at => u = t /\ d = depth[t] /\ ~Pop(t)
         /\ Obj(act[u][d])' = Obj(act[u][d])
         /\ FrameKey(act[u][d])' = FrameKey(act[u][d])
         /\ Pop(t) => ~(u = t /\ d = depth[t])
<1> USE StepFrames
<1> DEFINE Kept ==
      /\ d <= depth[u]
      /\ act'[u][d].chain = act[u][d].chain
      /\ act'[u][d].in = act[u][d].in
      /\ act'[u][d].at # act[u][d].at => u = t /\ d = depth[t] /\ ~Pop(t)
      /\ Pop(t) => ~(u = t /\ d = depth[t])
<1>1. Kept
  <2>1. CASE Pop(t)
    BY <2>1, PopShape
  <2>2. ASSUME NEW at \in {"lookup", "body"}, Goto(t, at), ~Pop(t)
        PROVE  Kept
    <3>1. at \in {"wait", "lookup", "body", "bypass"} /\ depth' = depth
      BY <2>2 DEF Goto
    <3> QED
      BY <2>2, <3>1, GotoShape
  <2> QED
    BY <2>1, <2>2
<1>2. act[u][d] \in Frames
  BY <1>1 DEF Shape, StackShape, TypeOK
<1>3. UNCHANGED bound
  OBVIOUS
<1> QED
  BY <1>1, <1>2, <1>3 DEF Obj, FrameKey, Prov

(* What a step of t does to the mutexes. *)
LEMMA StepLocks ==
  ASSUME Shape, LockDiscipline, NEW t \in Threads, Step(t)
  PROVE  LockDiscipline'
<1> DEFINE f == Top(t)
           h == <<t, depth[t]>>
<1>1. /\ depth[t] \in Depths /\ f \in Frames /\ f = act[t][depth[t]] /\ Obj(f) \in Chains
  BY TopType, StepFrames
<1>2. h # None
  BY <1>1, CacheAssumption
<1>3. depth[t] <= depth[t]
  BY <1>1 DEF Depths
<1>4. \A o \in Chains : lock[o] = h <=> f.at \in {"lookup", "body"} /\ Obj(f) = o
  BY <1>1, <1>3 DEF LockDiscipline, InCritical
<1> HIDE DEF f, h
<1> SUFFICES ASSUME NEW o \in Chains, NEW u \in Threads, NEW d \in Depths
             PROVE  lock'[o] = <<u, d>> <=> InCritical(u, d)' /\ Obj(act[u][d])' = o
  BY DEF LockDiscipline
<1>5. lock[o] = <<u, d>> <=> InCritical(u, d) /\ Obj(act[u][d]) = o
  BY DEF LockDiscipline
<1>6. <<u, d>> = h <=> u = t /\ d = depth[t]
  BY DEF h
<1>7. <<u, d>> # None
  BY CacheAssumption
<1>8. d <= depth'[u] =>
        /\ d <= depth[u]
        /\ Obj(act[u][d])' = Obj(act[u][d])
        /\ <<u, d>> # h => act'[u][d].at = act[u][d].at
        /\ Pop(t) => <<u, d>> # h
  BY <1>6, StepSurvivors
<1>9. <<u, d>> # h /\ d <= depth[u] => d <= depth'[u]
  <2>1. CASE Pop(t)
    BY <2>1, <1>6, PopShape, StepFrames
  <2>2. CASE UNCHANGED depth
    BY <2>2
  <2> QED
    BY <2>1, <2>2, StepFrames DEF Goto
<1>10. <<u, d>> # h => (InCritical(u, d)' /\ Obj(act[u][d])' = o <=> InCritical(u, d) /\ Obj(act[u][d]) = o)
  BY <1>8, <1>9 DEF InCritical
<1>11. ASSUME f.at = "wait", lock[Obj(f)] = None, lock' = [lock EXCEPT ![Obj(f)] = h],
              Goto(t, "lookup")
       PROVE  lock'[o] = <<u, d>> <=> InCritical(u, d)' /\ Obj(act[u][d])' = o
  <2>1. lock'[o] = IF o = Obj(f) THEN h ELSE lock[o]
    BY <1>11, <1>1 DEF Shape, TypeOK
  <2>2. CASE <<u, d>> = h
    <3>1. d <= depth'[u] /\ act'[u][d].at = "lookup"
      <4>1. depth' = depth /\ u = t /\ d = depth[t]
        BY <1>6, <1>11, <2>2 DEF Goto
      <4>2. d <= depth'[u]
        BY <1>3, <4>1
      <4>3. "lookup" \in {"wait", "lookup", "body", "bypass"} /\ depth[t] > 0
        BY StepFrames
      <4> QED
        BY <1>11, <4>1, <4>2, <4>3, GotoShape
    <3>2. Obj(act[u][d])' = Obj(f)
      BY <1>1, <1>6, <1>8, <2>2, <3>1 DEF f
    <3> QED
      BY <1>4, <1>11, <2>1, <2>2, <3>1, <3>2 DEF InCritical
  <2>3. CASE <<u, d>> # h
    BY <1>5, <1>7, <1>10, <1>11, <2>1, <2>3
  <2> QED
    BY <2>2, <2>3
<1>12. ASSUME f.at \in {"lookup", "body"}, lock' = [lock EXCEPT ![Obj(f)] = None], Pop(t)
       PROVE  lock'[o] = <<u, d>> <=> InCritical(u, d)' /\ Obj(act[u][d])' = o
  <2>1. lock'[o] = IF o = Obj(f) THEN None ELSE lock[o]
    BY <1>12, <1>1 DEF Shape, TypeOK
  <2>2. CASE <<u, d>> = h
    BY <1>2, <1>4, <1>8, <1>12, <2>1, <2>2 DEF InCritical
  <2>3. CASE <<u, d>> # h
    BY <1>1, <1>4, <1>5, <1>7, <1>10, <1>12, <2>1, <2>3
  <2> QED
    BY <2>2, <2>3
<1>13. ASSUME f.at \notin {"lookup", "body"}, lock' = lock, Pop(t)
       PROVE  lock'[o] = <<u, d>> <=> InCritical(u, d)' /\ Obj(act[u][d])' = o
  <2>1. CASE <<u, d>> = h
    BY <1>4, <1>8, <1>13, <2>1 DEF InCritical
  <2>2. CASE <<u, d>> # h
    BY <1>5, <1>10, <1>13, <2>2
  <2> QED
    BY <2>1, <2>2
<1>14. ASSUME f.at = "lookup", lock' = lock, Goto(t, "body")
       PROVE  lock'[o] = <<u, d>> <=> InCritical(u, d)' /\ Obj(act[u][d])' = o
  <2>1. CASE <<u, d>> = h
    <3>1. d <= depth'[u] /\ act'[u][d].at = "body"
      <4>1. depth' = depth /\ u = t /\ d = depth[t]
        BY <1>6, <1>14, <2>1 DEF Goto
      <4>2. d <= depth'[u]
        BY <1>3, <4>1
      <4>3. "body" \in {"wait", "lookup", "body", "bypass"} /\ depth[t] > 0
        BY StepFrames
      <4> QED
        BY <1>14, <4>1, <4>2, <4>3, GotoShape
    <3>2. Obj(act[u][d])' = Obj(f)
      BY <1>1, <1>6, <1>8, <2>1, <3>1 DEF f
    <3> QED
      BY <1>4, <1>14, <2>1, <3>1, <3>2 DEF InCritical
  <2>2. CASE <<u, d>> # h
    BY <1>5, <1>10, <1>14, <2>2
  <2> QED
    BY <2>1, <2>2
<1>15. \/ f.at = "wait" /\ lock[Obj(f)] = None /\ lock' = [lock EXCEPT ![Obj(f)] = h] /\ Goto(t, "lookup")
       \/ f.at \in {"lookup", "body"} /\ lock' = [lock EXCEPT ![Obj(f)] = None] /\ Pop(t)
       \/ f.at \notin {"lookup", "body"} /\ lock' = lock /\ Pop(t)
       \/ f.at = "lookup" /\ lock' = lock /\ Goto(t, "body")
  BY DEF Step, Acquire, OnceDone, Hit, HashPanic, Miss, Return, Panic, BypassEnd, Unlock, At, f, h
<1> QED
  BY <1>11, <1>12, <1>13, <1>14, <1>15

(* Binding a chain and making a call touch no mutex that is held. *)
LEMMA OtherLocks ==
  ASSUME Shape, LockDiscipline,
         \/ \E c \in Chains : GenerateCache(c)
         \/ \E t \in Threads, c \in Chains, in \in AllInputs : Call(t, c, in)
  PROVE  LockDiscipline'
<1> SUFFICES ASSUME NEW o \in Chains, NEW u \in Threads, NEW d \in Depths
             PROVE  lock'[o] = <<u, d>> <=> InCritical(u, d)' /\ Obj(act[u][d])' = o
  BY DEF LockDiscipline
<1>1. lock[o] = <<u, d>> <=> InCritical(u, d) /\ Obj(act[u][d]) = o
  BY DEF LockDiscipline
<1>2. d <= depth[u] => act[u][d] \in Frames /\ act[u][d].chain \in Chains /\ bound[act[u][d].chain] # None
  BY DEF Shape, StackShape, TypeOK, Frames, FramesBound
<1>3. ASSUME NEW c \in Chains, GenerateCache(c)
      PROVE  lock'[o] = <<u, d>> <=> InCritical(u, d)' /\ Obj(act[u][d])' = o
  <2>1. lock' = lock /\ depth' = depth /\ act' = act
    BY <1>3 DEF GenerateCache
  <2>2. d <= depth[u] => Obj(act[u][d])' = Obj(act[u][d])
    BY <1>2, <1>3, <2>1 DEF GenerateCache, Obj, Shape, TypeOK
  <2> QED
    BY <1>1, <2>1, <2>2 DEF InCritical
<1>4. ASSUME NEW t \in Threads, NEW c \in Chains, NEW in \in AllInputs, Call(t, c, in)
      PROVE  lock'[o] = <<u, d>> <=> InCritical(u, d)' /\ Obj(act[u][d])' = o
  <2>1. lock' = lock /\ bound' = bound
    BY <1>4 DEF Call
  <2>2. CASE d <= depth[u]
    <3>1. d <= depth'[u] /\ act'[u][d] = act[u][d]
      BY <1>4, <2>2, CallShape
    <3> QED
      BY <1>1, <2>1, <2>2, <3>1 DEF InCritical, Obj
  <2>3. CASE ~(d <= depth[u])
    <3>1. ~InCritical(u, d)'
      BY <1>4, <2>3, CallShape DEF InCritical
    <3> QED
      BY <1>1, <2>1, <2>3, <3>1 DEF InCritical
  <2> QED
    BY <2>2, <2>3
<1> QED
  BY <1>3, <1>4

(* What a step of t does to what is remembered: nothing, or one entry      *)
(* comes with one execution, while t holds the mutex of the cacher.        *)
Stores(t, out) ==
  /\ Top(t).at = "body"
  /\ cache' = [cache EXCEPT ![Obj(Top(t))][FrameKey(Top(t))] = out]
  /\ execs' = [execs EXCEPT ![Prov(Top(t))][FrameKey(Top(t))] = @ + 1]
  /\ Pop(t)
  /\ \/ UNCHANGED answers
     \/ Answer(Top(t), out)
Tells(t) ==
  /\ UNCHANGED <<cache, execs>>
  /\ \/ UNCHANGED answers
     \/ /\ cache[Obj(Top(t))][FrameKey(Top(t))] # None
        /\ Answer(Top(t), cache[Obj(Top(t))][FrameKey(Top(t))])

(* What a step remembers: nothing, or one entry of the provider of t. *)
LEMMA StepEffect ==
  ASSUME Shape, NEW t \in Threads, Step(t)
  PROVE  Tells(t) \/ \E out \in Outs : Stores(t, out)
<1> DEFINE f == Top(t)
<1>1. /\ f \in Frames /\ Prov(f) \in Providers /\ FrameKey(f) \in Keys
      /\ f.in \in AllInputs
  BY TopType, StepFrames DEF Frames
<1>2. execs[Prov(f)][FrameKey(f)] + 1 \in Nat
  BY <1>1 DEF Shape, TypeOK
<1>3. \A run \in Nat : Result(f, run) \in Outs
  BY <1>1 DEF Result, Outs
<1>4. Prov(f) \in Singletons => FrameKey(f) = OnceKey
  BY DEF FrameKey, KeyOf
<1> HIDE DEF f
<1>5. CASE Return(t)
  BY <1>2, <1>3, <1>5 DEF Return, At, Stores, f
<1>6. CASE Panic(t)
  <2>1. CASE Prov(f) \in Singletons
    BY <1>3, <1>4, <1>6, <2>1 DEF Panic, At, Stores, f
  <2>2. CASE Prov(f) \notin Singletons
    BY <1>6, <2>2 DEF Panic, Tells, f
  <2> QED
    BY <2>1, <2>2
<1>7. CASE OnceDone(t)
  BY <1>4, <1>7 DEF OnceDone, Tells, f
<1>8. CASE Acquire(t) \/ Hit(t) \/ HashPanic(t) \/ Miss(t) \/ BypassEnd(t)
  BY <1>8 DEF Acquire, Hit, HashPanic, Miss, BypassEnd, Tells
<1> QED
  BY <1>5, <1>6, <1>7, <1>8 DEF Step

(* The facts that a store of t rests on. *)
LEMMA StoreFacts ==
  ASSUME IInv, NEW t \in Threads, Step(t), NEW out \in Outs, Stores(t, out)
  PROVE  LET f == Top(t) IN
         /\ cache[Obj(f)][FrameKey(f)] = None
         /\ Obj(f) = cachers[Prov(f)] /\ ProviderOf[Obj(f)] = Prov(f)
         /\ \A o \in Chains, k \in Keys :
              cache'[o][k] = IF o = Obj(f) /\ k = FrameKey(f) THEN out ELSE cache[o][k]
         /\ \A p \in Providers, k \in Keys :
              execs'[p][k] = IF p = Prov(f) /\ k = FrameKey(f) THEN execs[p][k] + 1 ELSE execs[p][k]
<1> DEFINE f == Top(t)
<1>1. /\ depth[t] \in Depths /\ f \in Frames /\ f = act[t][depth[t]] /\ Obj(f) \in Chains
      /\ Prov(f) \in Providers /\ FrameKey(f) \in Keys /\ f.chain \in Chains
  BY TopType, StepFrames DEF IInv, Frames
<1>2. depth[t] <= depth[t]
  BY <1>1 DEF Depths
<1>3. cache[Obj(f)][FrameKey(f)] = None
  BY <1>1, <1>2 DEF IInv, BodyMissed, Stores
<1>4. bound[f.chain] # None
  BY <1>1, <1>2 DEF IInv, Shape, FramesBound
<1>5. Obj(f) = cachers[Prov(f)]
  BY <1>1, <1>4 DEF IInv, RegistryAgrees, Obj, Prov
<1>6. ProviderOf[Obj(f)] = Prov(f)
  BY <1>1, <1>5, CacheAssumption DEF IInv, RegistryAgrees
<1> HIDE DEF f
<1>7. \A o \in Chains, k \in Keys :
        cache'[o][k] = IF o = Obj(f) /\ k = FrameKey(f) THEN out ELSE cache[o][k]
  BY <1>1 DEF Stores, IInv, Shape, TypeOK, f
<1>8. \A p \in Providers, k \in Keys :
        execs'[p][k] = IF p = Prov(f) /\ k = FrameKey(f) THEN execs[p][k] + 1 ELSE execs[p][k]
  BY <1>1 DEF Stores, IInv, Shape, TypeOK, f
<1> QED
  BY <1>3, <1>5, <1>6, <1>7, <1>8 DEF f

(* Entries come from completed executions, after any step of t. *)
LEMMA StepEntries ==
  ASSUME IInv, NEW t \in Threads, Step(t)
  PROVE  RegistryAgrees' /\ EntriesOwned' /\ CountsMatch'
<1> UNCHANGED <<cachers, bound>>
  BY StepFrames DEF IInv
<1>1. RegistryAgrees'
  BY DEF IInv, RegistryAgrees
<1>2. CASE Tells(t)
  BY <1>1, <1>2 DEF Tells, IInv, EntriesOwned, CountsMatch, Remembered
<1>3. ASSUME NEW out \in Outs, Stores(t, out)
      PROVE  EntriesOwned' /\ CountsMatch'
  <2> DEFINE f == Top(t)
  <2>1. Obj(f) \in Chains /\ Prov(f) \in Providers /\ FrameKey(f) \in Keys
    BY TopType, StepFrames DEF IInv
  <2>2. /\ cache[Obj(f)][FrameKey(f)] = None
        /\ Obj(f) = cachers[Prov(f)] /\ ProviderOf[Obj(f)] = Prov(f)
        /\ \A o \in Chains, k \in Keys :
             cache'[o][k] = IF o = Obj(f) /\ k = FrameKey(f) THEN out ELSE cache[o][k]
        /\ \A p \in Providers, k \in Keys :
             execs'[p][k] = IF p = Prov(f) /\ k = FrameKey(f) THEN execs[p][k] + 1 ELSE execs[p][k]
    BY <1>3, StoreFacts
  <2>3. out # None /\ None \notin Chains
    BY CacheAssumption
  <2> HIDE DEF f
  <2>4. EntriesOwned'
    BY <2>1, <2>2 DEF IInv, EntriesOwned
  <2>5. ASSUME NEW p \in Providers, NEW k \in Keys
        PROVE  execs'[p][k] = IF Remembered(p, k)' THEN 1 ELSE 0
    <3>1. execs[p][k] = IF Remembered(p, k) THEN 1 ELSE 0
      BY DEF IInv, CountsMatch
    <3>2. CASE p = Prov(f) /\ k = FrameKey(f)
      <4>1. ~Remembered(p, k) /\ Remembered(p, k)'
        BY <2>1, <2>2, <2>3, <3>2 DEF Remembered
      <4> QED
        BY <2>2, <3>1, <3>2, <4>1
    <3>3. CASE ~(p = Prov(f) /\ k = FrameKey(f))
      <4>1. cachers[p] # None => cachers[p] \in Chains /\ ProviderOf[cachers[p]] = p
        BY DEF IInv, RegistryAgrees, Shape, TypeOK
      <4>2. Remembered(p, k)' <=> Remembered(p, k)
        BY <2>2, <3>3, <4>1 DEF Remembered
      <4> QED
        BY <2>2, <3>1, <3>3, <4>2
    <3> QED
      BY <3>2, <3>3
  <2> QED
    BY <2>4, <2>5 DEF CountsMatch
<1> QED
  BY <1>1, <1>2, <1>3, StepEffect DEF IInv

(* A function that runs has no entry under its key, after any step of t. *)
LEMMA StepBodies ==
  ASSUME IInv, NEW t \in Threads, Step(t)
  PROVE  BodyMissed'
<1> DEFINE f == Top(t)
<1>1. /\ depth[t] \in Depths /\ f = act[t][depth[t]] /\ Obj(f) \in Chains /\ depth[t] <= depth[t]
      /\ FrameKey(f) \in Keys
  BY TopType, StepFrames DEF IInv, Depths
<1> HIDE DEF f
<1> SUFFICES ASSUME NEW u \in Threads, NEW d \in Depths,
                    d <= depth'[u], act'[u][d].at = "body"
             PROVE  cache'[Obj(act[u][d])'][FrameKey(act[u][d])'] = None
  BY DEF BodyMissed
<1> DEFINE g == act[u][d]
<1>2. /\ d <= depth[u] /\ g \in Frames
      /\ act'[u][d].at # g.at => u = t /\ d = depth[t] /\ ~Pop(t)
      /\ Obj(g)' = Obj(g) /\ FrameKey(g)' = FrameKey(g)
      /\ Pop(t) => ~(u = t /\ d = depth[t])
  BY StepSurvivors DEF IInv
<1>3. Obj(g) \in Chains /\ FrameKey(g) \in Keys
  <2>1. g.chain \in Chains /\ g.in \in AllInputs /\ bound[g.chain] # None
    BY <1>2 DEF Frames, IInv, Shape, FramesBound
  <2> QED
    BY <2>1, KeyOfType, CacheAssumption DEF Obj, FrameKey, Prov, IInv, Shape, TypeOK
<1> HIDE DEF g
<1>4. CASE g.at = "body"
  <2>1. cache[Obj(g)][FrameKey(g)] = None
    BY <1>2, <1>4 DEF IInv, BodyMissed, g
  <2>2. CASE Tells(t)
    BY <1>2, <2>1, <2>2 DEF Tells, g
  <2>3. ASSUME NEW out \in Outs, Stores(t, out) PROVE Obj(g) # Obj(f)
    <3>1. Pop(t) /\ f.at = "body"
      BY <2>3 DEF Stores, f
    <3>2. lock[Obj(f)] = <<t, depth[t]>>
      BY <1>1, <3>1 DEF IInv, LockDiscipline, InCritical
    <3>3. lock[Obj(g)] = <<u, d>>
      BY <1>2, <1>3, <1>4 DEF IInv, LockDiscipline, InCritical, g
    <3> QED
      BY <1>2, <3>1, <3>2, <3>3
  <2>4. ASSUME NEW out \in Outs, Stores(t, out)
        PROVE  cache'[Obj(g)][FrameKey(g)] = cache[Obj(g)][FrameKey(g)]
    BY <1>3, <2>3, <2>4, StoreFacts DEF f
  <2> QED
    BY <1>2, <2>1, <2>2, <2>4, StepEffect DEF IInv, g
<1>5. CASE g.at # "body"
  <2>1. u = t /\ d = depth[t] /\ g = f /\ ~Pop(t)
    BY <1>1, <1>2, <1>5 DEF g
  <2>2. f = Top(t)
    BY DEF f
  <2>3. Acquire(t) \/ Miss(t)
    BY <2>1 DEF Step, OnceDone, Hit, HashPanic, Return, Panic, BypassEnd
  <2>4. ~Acquire(t)
    <3> SUFFICES ASSUME Goto(t, "lookup") PROVE FALSE
      BY DEF Acquire
    <3>1. act'[t][depth[t]].at = "lookup"
      <4>1. depth' = depth /\ depth[t] > 0
        BY StepFrames DEF Goto, IInv
      <4>2. "lookup" \in {"wait", "lookup", "body", "bypass"}
        OBVIOUS
      <4> QED
        BY <1>1, <4>1, <4>2, GotoShape DEF IInv
    <3> QED
      BY <2>1, <3>1
  <2>5. cache[Obj(f)][FrameKey(f)] = None /\ cache' = cache
    BY <2>2, <2>3, <2>4 DEF Miss
  <2> QED
    BY <1>2, <2>1, <2>5 DEF g
<1> QED
  BY <1>4, <1>5

(* Answers are in the cache that gave them, after any step of t. *)
LEMMA StepAnswers ==
  ASSUME IInv, NEW t \in Threads, Step(t)
  PROVE  AnswersRemembered'
<1> DEFINE f == Top(t)
<1>1. /\ depth[t] \in Depths /\ f \in Frames /\ f = act[t][depth[t]] /\ depth[t] <= depth[t]
      /\ Obj(f) \in Chains /\ FrameKey(f) \in Keys /\ f.chain \in Chains
  BY TopType, StepFrames DEF IInv, Depths, Frames
<1>2. bound[f.chain] # None /\ Obj(f) = bound[f.chain]
      /\ FrameKey(f) = KeyOf(ProviderOf[f.chain], f.in)
  BY <1>1 DEF IInv, Shape, FramesBound, Obj, FrameKey, Prov
<1> HIDE DEF f
<1>3. bound' = bound
  BY StepFrames DEF IInv
<1>4. ASSUME NEW a \in answers
      PROVE  /\ bound[a.chain] # None
             /\ cache'[bound[a.chain]][KeyOf(ProviderOf[a.chain], a.in)] = a.out
  <2> DEFINE o == bound[a.chain]
             k == KeyOf(ProviderOf[a.chain], a.in)
  <2>1. /\ a.chain \in Chains /\ a.in \in AllInputs /\ a.out \in Outs /\ a.out # None
    BY CacheAssumption DEF IInv, Shape, TypeOK, Answers
  <2>2. o # None /\ cache[o][k] = a.out
    BY DEF IInv, AnswersRemembered
  <2>3. o \in Chains /\ k \in Keys
    BY <2>1, <2>2, KeyOfType, CacheAssumption DEF IInv, Shape, TypeOK
  <2> HIDE DEF o, k
  <2>4. CASE Tells(t)
    BY <2>2, <2>4 DEF Tells, o, k
  <2>5. ASSUME NEW out \in Outs, Stores(t, out)
        PROVE  cache'[o][k] = cache[o][k]
    BY <2>1, <2>2, <2>3, <2>5, StoreFacts
  <2> QED
    BY <2>2, <2>4, <2>5, StepEffect DEF IInv, o, k
<1>5. ASSUME NEW out, cache'[Obj(f)][FrameKey(f)] = out,
             answers' = answers \cup {[chain |-> f.chain, in |-> f.in, out |-> out]}
      PROVE  AnswersRemembered'
  BY <1>2, <1>3, <1>4, <1>5 DEF AnswersRemembered
<1>6. CASE answers' = answers
  BY <1>3, <1>4, <1>6 DEF AnswersRemembered
<1>7. CASE Tells(t)
  BY <1>5, <1>6, <1>7 DEF Tells, Answer, f
<1>8. ASSUME NEW out \in Outs, Stores(t, out) PROVE AnswersRemembered'
  <2>1. cache'[Obj(f)][FrameKey(f)] = out
    BY <1>1, <1>8, StoreFacts DEF f
  <2> QED
    BY <1>5, <1>6, <1>8, <2>1 DEF Stores, Answer, f
<1> QED
  BY <1>7, <1>8, StepEffect DEF IInv

-----------------------------------------------------------------------------
(* Binding a chain remembers and forgets nothing. *)
LEMMA GenerateInv ==
  ASSUME IInv, NEW c \in Chains, GenerateCache(c)
  PROVE  IInv'
<1> DEFINE p == ProviderOf[c]
<1>1. p \in Providers /\ None \notin Chains
  BY CacheAssumption
<1>2. UNCHANGED <<lock, cache, depth, act, execs, answers>> /\ bound[c] = None
  BY DEF GenerateCache
<1>3. \A q \in Providers : cachers'[q] = IF q = p /\ cachers[p] = None THEN c ELSE cachers[q]
  BY <1>1 DEF GenerateCache, IInv, Shape, TypeOK
<1>4. \A x \in Chains : bound'[x] = IF x = c THEN cachers'[p] ELSE bound[x]
  BY <1>1, <1>3 DEF GenerateCache, IInv, Shape, TypeOK
<1>5. Shape' /\ LockDiscipline'
  BY GenerateShape, OtherLocks DEF IInv
<1>6. RegistryAgrees'
  BY <1>1, <1>3, <1>4, CacheAssumption DEF IInv, RegistryAgrees
<1>7. EntriesOwned'
  BY <1>1, <1>2, <1>3, CacheAssumption DEF IInv, EntriesOwned
<1>8. CountsMatch'
  <2> SUFFICES ASSUME NEW q \in Providers, NEW k \in Keys
               PROVE  Remembered(q, k)' <=> Remembered(q, k)
    BY <1>2 DEF IInv, CountsMatch
  <2>1. CASE q = p /\ cachers[p] = None
    <3>1. cache[c][k] = None
      BY <1>1, <2>1 DEF IInv, EntriesOwned
    <3> QED
      BY <1>1, <1>2, <1>3, <2>1, <3>1 DEF Remembered
  <2>2. CASE ~(q = p /\ cachers[p] = None)
    BY <1>2, <1>3, <2>2 DEF Remembered
  <2> QED
    BY <2>1, <2>2
<1>9. BodyMissed'
  <2> SUFFICES ASSUME NEW t \in Threads, NEW d \in Depths, d <= depth[t], act[t][d].at = "body"
               PROVE  cache[Obj(act[t][d])'][FrameKey(act[t][d])'] = None
    BY <1>2 DEF BodyMissed
  <2>1. act[t][d].chain \in Chains /\ bound[act[t][d].chain] # None
    BY DEF IInv, Shape, StackShape, TypeOK, FramesBound, Frames
  <2>2. Obj(act[t][d])' = Obj(act[t][d]) /\ FrameKey(act[t][d])' = FrameKey(act[t][d])
    BY <1>2, <1>4, <2>1 DEF Obj, FrameKey, Prov
  <2> QED
    BY <2>2 DEF IInv, BodyMissed
<1>10. AnswersRemembered'
  <2> SUFFICES ASSUME NEW a \in answers
               PROVE  bound'[a.chain] = bound[a.chain]
    BY <1>2 DEF IInv, AnswersRemembered
  <2>1. a.chain \in Chains /\ bound[a.chain] # None
    BY DEF IInv, Shape, TypeOK, Answers, AnswersRemembered
  <2> QED
    BY <1>2, <1>4, <2>1
<1> QED
  BY <1>5, <1>6, <1>7, <1>8, <1>9, <1>10 DEF IInv

(* A new call keeps the invariant: it holds no mutex yet. *)
LEMMA CallInv ==
  ASSUME IInv, NEW t \in Threads, NEW c \in Chains, NEW in \in AllInputs, Call(t, c, in)
  PROVE  IInv'
<1>1. UNCHANGED <<cachers, bound, lock, cache, execs, answers>>
  BY DEF Call
<1>2. Shape' /\ LockDiscipline'
  BY CallShape, OtherLocks DEF IInv
<1>3. RegistryAgrees' /\ EntriesOwned' /\ CountsMatch' /\ AnswersRemembered'
  BY <1>1 DEF IInv, RegistryAgrees, EntriesOwned, CountsMatch, Remembered, AnswersRemembered
<1>4. BodyMissed'
  <2> SUFFICES ASSUME NEW u \in Threads, NEW d \in Depths, d <= depth'[u], act'[u][d].at = "body"
               PROVE  cache'[Obj(act[u][d])'][FrameKey(act[u][d])'] = None
    BY DEF BodyMissed
  <2>1. d <= depth[u] /\ act'[u][d] = act[u][d]
    BY CallShape DEF IInv
  <2> QED
    BY <1>1, <2>1 DEF IInv, BodyMissed, Obj, FrameKey, Prov
<1> QED
  BY <1>2, <1>3, <1>4 DEF IInv

(* The invariant holds at the start. *)
LEMMA InitInv == Init => IInv
<1> SUFFICES ASSUME Init PROVE IInv
  OBVIOUS
<1>1. RegistryAgrees /\ EntriesOwned /\ CountsMatch /\ AnswersRemembered
  BY DEF Init, RegistryAgrees, EntriesOwned, CountsMatch, Remembered, AnswersRemembered
<1>2. \A t \in Threads, d \in Depths : ~(d <= depth[t])
  BY DEF Init, Depths
<1>3. LockDiscipline /\ BodyMissed
  <2>1. \A t \in Threads, d \in Depths : <<t, d>> # None
    BY CacheAssumption
  <2>2. \A o \in Chains : lock[o] = None
    BY DEF Init
  <2> QED
    BY <1>2, <2>1, <2>2 DEF LockDiscipline, InCritical, BodyMissed
<1> QED
  BY <1>1, <1>3, InitShape DEF IInv

(* Every step keeps the invariant. *)
LEMMA NextInv == IInv /\ [Next]_vars => IInv'
<1> SUFFICES ASSUME IInv, [Next]_vars PROVE IInv'
  OBVIOUS
<1>1. ASSUME NEW c \in Chains, GenerateCache(c) PROVE IInv'
  BY <1>1, GenerateInv
<1>2. ASSUME NEW t \in Threads, NEW c \in Chains, NEW in \in AllInputs, Call(t, c, in)
      PROVE  IInv'
  BY <1>2, CallInv
<1>3. ASSUME NEW t \in Threads, Step(t) PROVE IInv'
  BY <1>3, StepShape, StepLocks, StepEntries, StepBodies, StepAnswers DEF IInv
<1>4. CASE UNCHANGED vars
  BY <1>4 DEF vars, IInv, Shape, TypeOK, StackShape, FramesBound, RegistryAgrees, EntriesOwned,
              LockDiscipline, InCritical, BodyMissed, CountsMatch, Remembered, AnswersRemembered,
              Obj, FrameKey, Prov
<1> QED
  BY <1>1, <1>2, <1>3, <1>4 DEF Next

(* The inductive invariant holds in every state, whatever the constants. *)
THEOREM Invariance == Spec => []IInv
BY InitInv, NextInv, PTL DEF Spec

(* A memoized provider completes one execution for each combination of     *)
(* inputs, a singleton one in all: cache.go and the registries keep what   *)
(* api.go:147 and 172-174 promise.                                         *)
THEOREM ExecutedOnce == Spec => []OncePerCombination
<1>1. IInv => OncePerCombination
  BY DEF IInv, CountsMatch, OncePerCombination
<1> QED
  BY <1>1, Invariance, PTL

(* Calls under one key, from any chains and goroutines, get one answer. *)
THEOREM SameAnswers == Spec => []AnswersAgree
<1>1. IInv => AnswersAgree
  <2> SUFFICES ASSUME IInv, NEW a \in answers, NEW b \in answers, SameKey(a, b)
               PROVE  a.out = b.out
    BY DEF AnswersAgree
  <2>1. a.chain \in Chains /\ b.chain \in Chains
    BY DEF IInv, Shape, TypeOK, Answers
  <2>2. bound[a.chain] = bound[b.chain]
    BY <2>1 DEF IInv, AnswersRemembered, RegistryAgrees, SameKey
  <2> QED
    BY <2>2 DEF IInv, AnswersRemembered, SameKey
<1> QED
  BY <1>1, Invariance, PTL

(* The mutexes are held exactly between lookup and return. *)
THEOREM LocksBalanced == Spec => []LockDiscipline
<1>1. IInv => LockDiscipline
  BY DEF IInv
<1> QED
  BY <1>1, Invariance, PTL

(* What is remembered is never lost nor replaced. *)
THEOREM EntriesStay == Spec => EntriesAreFinal
<1> DEFINE Kept == \A o \in Chains, k \in Keys : cache[o][k] # None => cache'[o][k] = cache[o][k]
<1>1. IInv /\ [Next]_vars => [Kept]_cache
  <2> SUFFICES ASSUME IInv, [Next]_vars PROVE Kept \/ cache' = cache
    OBVIOUS
  <2>1. ASSUME NEW t \in Threads, Step(t) PROVE Kept \/ cache' = cache
    <3>1. CASE Tells(t)
      BY <3>1 DEF Tells
    <3>2. ASSUME NEW out \in Outs, Stores(t, out) PROVE Kept
      BY <2>1, <3>2, StoreFacts
    <3> QED
      BY <2>1, <3>1, <3>2, StepEffect DEF IInv
  <2>2. CASE \E c \in Chains : GenerateCache(c)
    BY <2>2 DEF GenerateCache
  <2>3. CASE \E t \in Threads, c \in Chains, in \in AllInputs : Call(t, c, in)
    BY <2>3 DEF Call
  <2>4. CASE UNCHANGED vars
    BY <2>4 DEF vars
  <2> QED
    BY <2>1, <2>2, <2>3, <2>4 DEF Next
<1> QED
  BY <1>1, Invariance, PTL DEF Spec, EntriesAreFinal

-----------------------------------------------------------------------------
(* A store of t writes one entry of the abstract table, which had none. *)
LEMMA StoreTable ==
  ASSUME IInv, NEW t \in Threads, Step(t), NEW out \in Outs, Stores(t, out)
  PROVE  LET p == Prov(Top(t))
             k == FrameKey(Top(t)) IN
         /\ p \in Providers /\ k \in Keys
         /\ Table[p][k] = None
         /\ Table' = [Table EXCEPT ![p][k] = out]
         /\ Table'[p][k] = out
<1> DEFINE f == Top(t)
           p == Prov(f)
           k == FrameKey(f)
<1>1. Obj(f) \in Chains /\ p \in Providers /\ k \in Keys /\ None \notin Chains
  BY TopType, StepFrames, CacheAssumption DEF IInv
<1>2. /\ cache[Obj(f)][k] = None
      /\ Obj(f) = cachers[p] /\ ProviderOf[Obj(f)] = p
      /\ \A o \in Chains, x \in Keys :
           cache'[o][x] = IF o = Obj(f) /\ x = k THEN out ELSE cache[o][x]
  BY StoreFacts
<1>3. cachers' = cachers /\ Shape'
  BY StepFrames, StepShape DEF IInv
<1>4. \A o \in Chains : /\ cache[o] = [x \in Keys |-> cache[o][x]]
                        /\ cache'[o] = [x \in Keys |-> cache'[o][x]]
  BY <1>3 DEF IInv, Shape, TypeOK
<1>5. \A q \in Providers : cachers[q] # None => cachers[q] \in Chains /\ ProviderOf[cachers[q]] = q
  BY DEF IInv, RegistryAgrees, Shape, TypeOK
<1> HIDE DEF f, p, k
<1>6. Table[p] = cache[Obj(f)]
  BY <1>1, <1>2 DEF Table
<1>7. ASSUME NEW q \in Providers
      PROVE  Table'[q] = IF q = p THEN [Table[p] EXCEPT ![k] = out] ELSE Table[q]
  <2>1. CASE q = p
    <3>1. Table'[q] = cache'[Obj(f)]
      BY <1>1, <1>2, <1>3, <2>1 DEF Table
    <3>2. cache'[Obj(f)] = [x \in Keys |-> IF x = k THEN out ELSE cache[Obj(f)][x]]
      BY <1>1, <1>2, <1>4
    <3>3. [cache[Obj(f)] EXCEPT ![k] = out] = [x \in Keys |-> IF x = k THEN out ELSE cache[Obj(f)][x]]
      BY <1>1, <1>4
    <3> QED
      BY <1>6, <2>1, <3>1, <3>2, <3>3
  <2>2. CASE q # p /\ cachers[q] # None
    <3>1. cachers[q] \in Chains /\ cachers[q] # Obj(f)
      BY <1>2, <1>5, <2>2
    <3>2. cache'[cachers[q]] = cache[cachers[q]]
      BY <1>2, <1>4, <3>1
    <3> QED
      BY <1>3, <2>2, <3>2 DEF Table
  <2>3. CASE q # p /\ cachers[q] = None
    BY <1>3, <2>3 DEF Table
  <2> QED
    BY <2>1, <2>2, <2>3
<1>8. Table' = [Table EXCEPT ![p] = [Table[p] EXCEPT ![k] = out]]
  BY <1>7 DEF Table
<1>9. Table[p][k] = None
  BY <1>2, <1>6
<1>10. Table'[p][k] = out
  BY <1>1, <1>4, <1>6, <1>7
<1> QED
  BY <1>1, <1>8, <1>9, <1>10 DEF f, p, k

(* A goroutine's answer is one the abstract table allows. *)
LEMMA AnswerTells ==
  ASSUME Shape, NEW t \in Threads, Step(t), NEW out \in Outs, Answer(Top(t), out),
         NEW p, NEW k, Table'[p][k] = out
  PROVE  M!Tell(p, k)
<1> DEFINE a == [chain |-> Top(t).chain, in |-> Top(t).in, out |-> out]
<1>1. a \in Answers
  BY TopType, StepFrames DEF Frames, Answers
<1>2. answers' = answers \cup {a} /\ a.out = out
  BY DEF Answer
<1> HIDE DEF a
<1> QED
  BY <1>1, <1>2 DEF M!Tell

(* The registries, mutexes and once flags implement the table of Memo. *)
THEOREM ImplementsMemo == Spec => MemoSpec
<1>1. Init => M!Init
  BY DEF Init, M!Init, Table
<1>2. IInv /\ [Next]_vars => [M!Next]_(M!vars)
  <2> SUFFICES ASSUME IInv, [Next]_vars
               PROVE  M!Next \/ UNCHANGED <<Table, answers>>
    BY DEF M!vars
  <2>1. ASSUME NEW t \in Threads, Step(t)
        PROVE  M!Next \/ UNCHANGED <<Table, answers>>
    <3> DEFINE f == Top(t)
               p == Prov(f)
               k == FrameKey(f)
    <3>1. p \in Providers /\ k \in Keys /\ Obj(f) \in Chains
      BY <2>1, TopType, StepFrames DEF IInv
    <3>2. ASSUME NEW out \in Outs, Stores(t, out)
          PROVE  M!Execute(p, k)
      <4>1. Table[p][k] = None /\ Table'[p][k] = out /\ Table' = [Table EXCEPT ![p][k] = out]
        BY <2>1, <3>2, StoreTable
      <4>2. M!Tell(p, k) \/ UNCHANGED answers
        BY <2>1, <3>2, <4>1, AnswerTells DEF Stores, IInv
      <4> QED
        BY <4>1, <4>2 DEF M!Execute
    <3>3. CASE Tells(t)
      <4>1. UNCHANGED Table
        BY <2>1, <3>3, StepFrames DEF Tells, Table, IInv
      <4>2. ASSUME cache[Obj(f)][k] # None, Answer(f, cache[Obj(f)][k])
            PROVE  M!Recall(p, k)
        <5>1. cache[Obj(f)][k] \in Outs
          BY <3>1, <4>2 DEF IInv, Shape, TypeOK
        <5>2. Obj(f) = cachers[p] /\ Obj(f) # None
          <6>1. /\ depth[t] \in Depths /\ f = act[t][depth[t]] /\ f.chain \in Chains
                /\ depth[t] <= depth[t]
            BY <2>1, TopType, StepFrames DEF IInv, Frames, Depths
          <6>2. bound[f.chain] # None
            BY <6>1 DEF IInv, Shape, FramesBound
          <6> QED
            BY <6>1, <6>2 DEF IInv, RegistryAgrees, Obj, Prov
        <5>3. Table[p][k] = cache[Obj(f)][k] /\ Table'[p][k] = cache[Obj(f)][k]
          BY <3>1, <4>1, <5>2 DEF Table
        <5>4. M!Tell(p, k)
          BY <2>1, <4>2, <5>1, <5>3, AnswerTells DEF IInv
        <5> QED
          BY <4>1, <4>2, <5>3, <5>4 DEF M!Recall
      <4> QED
        BY <3>1, <3>3, <4>1, <4>2 DEF Tells, M!Next
    <3> QED
      BY <2>1, <3>1, <3>2, <3>3, StepEffect DEF IInv, M!Next
  <2>2. ASSUME NEW c \in Chains, GenerateCache(c)
        PROVE  UNCHANGED <<Table, answers>>
    <3> DEFINE p == ProviderOf[c]
    <3>1. p \in Providers /\ None \notin Chains /\ cache' = cache /\ answers' = answers
      BY <2>2, CacheAssumption DEF GenerateCache
    <3>2. \A q \in Providers : cachers'[q] = IF q = p /\ cachers[p] = None THEN c ELSE cachers[q]
      BY <2>2, <3>1 DEF GenerateCache, IInv, Shape, TypeOK
    <3>3. cachers[p] = None => cache[c] = [k \in Keys |-> None]
      BY <3>1 DEF IInv, EntriesOwned, Shape, TypeOK
    <3>4. Table' = Table
      BY <3>1, <3>2, <3>3 DEF Table
    <3> QED
      BY <3>1, <3>4
  <2>3. CASE \E t \in Threads, c \in Chains, in \in AllInputs : Call(t, c, in)
    BY <2>3 DEF Call, Table
  <2>4. CASE UNCHANGED vars
    BY <2>4 DEF vars, Table
  <2> QED
    BY <2>1, <2>2, <2>3, <2>4 DEF Next
<1> QED
  BY <1>1, <1>2, Invariance, PTL DEF Spec, MemoSpec, M!Spec

-----------------------------------------------------------------------------
(* A key stands for the inputs it was made of.                             *)

(* The argument lists of a memoized provider have the length of its        *)
(* signature, and no place holds a nil interface in one and the string ""  *)
(* in another: fillKeyFromInputs stores "" for a nil interface, so those   *)
(* two would share an entry (cache.go:183-198).                              *)
KeysTellApart ==
  \A p \in Providers \ Singletons : \A x, y \in Arguments[p] :
    /\ Len(x) = Len(y)
    /\ \A i \in DOMAIN x : KeyPart(x[i]) = KeyPart(y[i]) => x[i] = y[i]

(* A call is made with arguments of its provider; it is remembered only if *)
(* they fit a key.                                                         *)
FramesAsked ==
  \A t \in Threads, d \in Depths :
    d <= depth[t] =>
      /\ act[t][d].in \in Arguments[Prov(act[t][d])]
      /\ act[t][d].at # "bypass" /\ Prov(act[t][d]) \notin Singletons => Len(act[t][d].in) <= 90

(* An entry is the result of a call whose inputs make up its key. *)
EntriesAsked ==
  \A o \in Chains, k \in Keys :
    cache[o][k] # None /\ ProviderOf[o] \notin Singletons =>
      cache[o][k].in \in Arguments[ProviderOf[o]] /\ FilledKey(cache[o][k].in) = k

AnswersAsked ==
  \A a \in answers :
    ProviderOf[a.chain] \notin Singletons =>
      a.in \in Arguments[ProviderOf[a.chain]] /\ Len(a.in) <= 90

Asked == FramesAsked /\ EntriesAsked /\ AnswersAsked

(* The width of a key has room for all inputs. *)
LEMMA KeyWidthFits ==
  ASSUME NEW l \in Nat
  PROVE  /\ l > 90 => KeyWidth(l) = 0
         /\ l <= 90 => KeyWidth(l) \in Widths /\ l <= KeyWidth(l)
<1>1. CASE l > 90
  BY <1>1 DEF KeyWidth
<1>2. CASE l <= 90
  <2>1. \E w \in Widths : l <= w /\ \A x \in Widths : l <= x => w <= x
    BY <1>2 DEF Widths
  <2>2. KeyWidth(l) = CHOOSE w \in Widths : l <= w /\ \A x \in Widths : l <= x => w <= x
    BY <1>2 DEF KeyWidth
  <2>3. KeyWidth(l) \in Widths /\ l <= KeyWidth(l)
    BY <2>1, <2>2
  <2> QED
    BY <1>2, <2>3
<1> QED
  BY <1>1, <1>2

(* Within one provider's arguments, a key is made of one list only. *)
LEMMA KeysDiffer ==
  ASSUME KeysTellApart, NEW p \in Providers \ Singletons, NEW x \in Arguments[p], NEW y \in Arguments[p],
         Len(x) <= 90, FilledKey(x) = FilledKey(y)
  PROVE  x = y
<1>1. x \in Seq(Values) /\ y \in Seq(Values)
  BY CacheAssumption
<1>2. Len(x) = Len(y) /\ Len(x) \in Nat
  BY <1>1 DEF KeysTellApart
<1>3. KeyWidth(Len(x)) \in Nat /\ Len(x) <= KeyWidth(Len(x))
  BY <1>2, KeyWidthFits DEF Widths
<1>4. ASSUME NEW i \in 1 .. Len(x) PROVE x[i] = y[i]
  <2>1. i \in 1 .. KeyWidth(Len(x)) /\ i <= Len(x) /\ i <= Len(y)
    BY <1>2, <1>3
  <2>2. FilledKey(x)[i] = KeyPart(x[i]) /\ FilledKey(y)[i] = KeyPart(y[i])
    BY <1>2, <2>1 DEF FilledKey
  <2>3. i \in DOMAIN x
    BY <1>1
  <2> QED
    BY <2>2, <2>3 DEF KeysTellApart
<1> QED
  BY <1>1, <1>2, <1>4

-----------------------------------------------------------------------------
(* Nothing was asked before anything runs. *)
LEMMA InitAsked == Init => Asked
<1> SUFFICES ASSUME Init PROVE Asked
  OBVIOUS
<1>1. \A t \in Threads, d \in Depths : ~(d <= depth[t])
  BY DEF Init, Depths
<1> QED
  BY <1>1 DEF Init, Asked, FramesAsked, EntriesAsked, AnswersAsked

(* A new call asks with arguments of its provider. *)
LEMMA CallAsked ==
  ASSUME IInv, Asked, NEW t \in Threads, NEW c \in Chains, NEW in \in AllInputs, Call(t, c, in)
  PROVE  Asked'
<1>1. UNCHANGED <<bound, cache, answers>>
  BY DEF Call
<1>2. EntriesAsked' /\ AnswersAsked'
  BY <1>1 DEF Asked, EntriesAsked, AnswersAsked
<1>3. FramesAsked'
  <2> SUFFICES ASSUME NEW u \in Threads, NEW d \in Depths, d <= depth'[u]
               PROVE  /\ act'[u][d].in \in Arguments[Prov(act[u][d])']
                      /\ act'[u][d].at # "bypass" /\ Prov(act[u][d])' \notin Singletons
                           => Len(act'[u][d].in) <= 90
    BY DEF FramesAsked
  <2> DEFINE f == [chain |-> c, in |-> in, at |-> IF Bypassed(c, in) THEN "bypass" ELSE "wait"]
  <2>1. CASE d <= depth[u] /\ act'[u][d] = act[u][d]
    BY <2>1 DEF Asked, FramesAsked, Prov
  <2>2. CASE u = t /\ ~(d <= depth[u])
    <3>1. act'[u][d] = f
      <4>1. d = depth[t] + 1
        <5>1. depth'[t] = depth[t] + 1 /\ depth[t] \in Nat /\ d \in Nat
          BY DEF Call, IInv, Shape, TypeOK, Depths
        <5> QED
          BY <2>2, <5>1
      <4> QED
        BY <2>2, <4>1 DEF Call, IInv, Shape, TypeOK
    <3>2. in \in Arguments[ProviderOf[c]] /\ in \in Seq(Values)
      BY CacheAssumption DEF Call
    <3>3. Len(in) \in Nat /\ (~Bypassed(c, in) /\ ProviderOf[c] \notin Singletons => Len(in) <= 90)
      BY <3>2, KeyWidthFits DEF Bypassed
    <3>4. /\ f.chain = c /\ f.in = in
          /\ f.at # "bypass" => ~Bypassed(c, in)
      OBVIOUS
    <3> HIDE DEF f
    <3> QED
      BY <3>1, <3>2, <3>3, <3>4 DEF Prov
  <2> QED
    BY <2>1, <2>2, CallShape DEF IInv
<1> QED
  BY <1>2, <1>3 DEF Asked

(* What a step of t remembers and tells is what was asked of it. *)
LEMMA StepAsked ==
  ASSUME IInv, Asked, NEW t \in Threads, Step(t)
  PROVE  Asked'
<1> DEFINE f == Top(t)
<1>1. /\ depth[t] \in Depths /\ f = act[t][depth[t]] /\ depth[t] <= depth[t] /\ f \in Frames
      /\ Obj(f) \in Chains /\ FrameKey(f) \in Keys /\ f.chain \in Chains /\ Prov(f) \in Providers
  BY TopType, StepFrames DEF IInv, Depths, Frames
<1>2. Prov(f) = ProviderOf[f.chain] /\ FrameKey(f) = KeyOf(Prov(f), f.in)
  BY DEF Prov, FrameKey
<1>3. /\ f.in \in Arguments[Prov(f)]
      /\ f.at # "bypass" /\ Prov(f) \notin Singletons => Len(f.in) <= 90
  BY <1>1 DEF Asked, FramesAsked
<1>4. ProviderOf[Obj(f)] = Prov(f)
  <2>1. bound[f.chain] # None
    BY <1>1 DEF IInv, Shape, FramesBound
  <2> QED
    BY <1>1, <2>1, CacheAssumption DEF IInv, RegistryAgrees, Obj, Prov
<1> HIDE DEF f
<1>5. FramesAsked'
  <2> SUFFICES ASSUME NEW u \in Threads, NEW d \in Depths, d <= depth'[u]
               PROVE  /\ act'[u][d].in \in Arguments[Prov(act[u][d])']
                      /\ act'[u][d].at # "bypass" /\ Prov(act[u][d])' \notin Singletons
                           => Len(act'[u][d].in) <= 90
    BY DEF FramesAsked
  <2>1. /\ d <= depth[u]
        /\ act'[u][d].at # act[u][d].at => u = t /\ d = depth[t] /\ ~Pop(t)
    BY StepSurvivors DEF IInv
  <2>2. act'[u][d].chain = act[u][d].chain /\ act'[u][d].in = act[u][d].in
    <3>1. CASE Pop(t)
      BY <3>1, PopShape, StepFrames DEF IInv
    <3>2. ASSUME NEW at \in {"lookup", "body"}, Goto(t, at)
          PROVE  act'[u][d].chain = act[u][d].chain /\ act'[u][d].in = act[u][d].in
      <4>1. at \in {"wait", "lookup", "body", "bypass"}
        OBVIOUS
      <4> QED
        BY <3>2, <4>1, GotoShape, StepFrames DEF IInv
    <3> QED
      BY <3>1, <3>2, StepFrames DEF IInv
  <2>3. CASE act'[u][d].at = act[u][d].at
    BY <2>1, <2>2, <2>3 DEF Asked, FramesAsked, Prov
  <2>4. CASE act'[u][d].at # act[u][d].at
    <3>1. act[u][d] = f /\ f.at # "bypass"
      <4>1. act[u][d] = f
        BY <1>1, <2>1, <2>4
      <4>2. Acquire(t) \/ Miss(t)
        BY <2>1, <2>4 DEF Step, OnceDone, Hit, HashPanic, Return, Panic, BypassEnd
      <4> QED
        BY <4>1, <4>2 DEF Acquire, Miss, At, f
    <3> QED
      BY <1>3, <2>2, <3>1 DEF Prov
  <2> QED
    BY <2>3, <2>4
<1>6. EntriesAsked'
  <2> SUFFICES ASSUME NEW o \in Chains, NEW k \in Keys, cache'[o][k] # None, ProviderOf[o] \notin Singletons
               PROVE  cache'[o][k].in \in Arguments[ProviderOf[o]] /\ FilledKey(cache'[o][k].in) = k
    BY DEF EntriesAsked
  <2>1. CASE cache'[o][k] = cache[o][k]
    BY <2>1 DEF Asked, EntriesAsked
  <2>2. CASE cache'[o][k] # cache[o][k]
    <3>1. CASE Return(t)
      <4> DEFINE out == Result(f, execs[Prov(f)][FrameKey(f)] + 1)
      <4>1. cache' = [cache EXCEPT ![Obj(f)][FrameKey(f)] = out]
        BY <3>1 DEF Return, f
      <4>2. out.in = f.in
        BY DEF Result
      <4> HIDE DEF out
      <4>3. o = Obj(f) /\ k = FrameKey(f) /\ cache'[o][k] = out
        BY <1>1, <2>2, <4>1 DEF IInv, Shape, TypeOK
      <4> QED
        BY <1>2, <1>3, <1>4, <4>2, <4>3 DEF KeyOf
    <3>2. CASE Panic(t) /\ Prov(f) \in Singletons
      <4>1. cache' = [cache EXCEPT ![Obj(f)][OnceKey] = Result(f, 0)]
        BY <3>2 DEF Panic, f
      <4>2. o # Obj(f)
        BY <1>4, <3>2
      <4> QED
        BY <1>1, <2>2, <4>1, <4>2 DEF IInv, Shape, TypeOK
    <3>3. CASE ~Return(t) /\ ~(Panic(t) /\ Prov(f) \in Singletons)
      BY <2>2, <3>3 DEF Step, Acquire, OnceDone, Hit, HashPanic, Miss, Panic, BypassEnd, f
    <3> QED
      BY <3>1, <3>2, <3>3
  <2> QED
    BY <2>1, <2>2
<1>7. AnswersAsked'
  <2> SUFFICES ASSUME NEW a \in answers', a \notin answers, ProviderOf[a.chain] \notin Singletons
               PROVE  a.in \in Arguments[ProviderOf[a.chain]] /\ Len(a.in) <= 90
    BY DEF Asked, AnswersAsked
  <2>1. a.chain = f.chain /\ a.in = f.in /\ f.at # "bypass"
    BY DEF Step, Acquire, OnceDone, Hit, HashPanic, Miss, Return, Panic, BypassEnd, Answer, At, f
  <2> QED
    BY <1>2, <1>3, <2>1
<1> QED
  BY <1>5, <1>6, <1>7 DEF Asked

LEMMA NextAsked == IInv /\ Asked /\ [Next]_vars => Asked'
<1> SUFFICES ASSUME IInv, Asked, [Next]_vars PROVE Asked'
  OBVIOUS
<1>1. ASSUME NEW c \in Chains, GenerateCache(c) PROVE Asked'
  BY <1>1 DEF GenerateCache, Asked, FramesAsked, EntriesAsked, AnswersAsked, Prov
<1>2. ASSUME NEW t \in Threads, NEW c \in Chains, NEW in \in AllInputs, Call(t, c, in) PROVE Asked'
  BY <1>2, CallAsked
<1>3. ASSUME NEW t \in Threads, Step(t) PROVE Asked'
  BY <1>3, StepAsked
<1>4. CASE UNCHANGED vars
  BY <1>4 DEF vars, Asked, FramesAsked, EntriesAsked, AnswersAsked, Prov
<1> QED
  BY <1>1, <1>2, <1>3, <1>4 DEF Next

(* A memoized call is answered with the result of an execution on the very *)
(* inputs it was given, in whichever chain and goroutine that execution    *)
(* was: no two argument lists fall on one entry (cache.go:171-236). *)
THEOREM AnsweredAsAsked == KeysTellApart => (Spec => []AnswerMatchesInputs)
<1> SUFFICES ASSUME KeysTellApart PROVE Spec => []AnswerMatchesInputs
  OBVIOUS
<1>1. IInv /\ Asked => AnswerMatchesInputs
  <2> SUFFICES ASSUME IInv, Asked, NEW a \in answers, ProviderOf[a.chain] \notin Singletons
               PROVE  a.out.in = a.in
    BY DEF AnswerMatchesInputs
  <2> DEFINE p == ProviderOf[a.chain]
             o == bound[a.chain]
             k == KeyOf(p, a.in)
  <2>1. a.chain \in Chains /\ a.in \in AllInputs /\ a.out # None /\ p \in Providers
    BY CacheAssumption DEF IInv, Shape, TypeOK, Answers
  <2>2. o # None /\ cache[o][k] = a.out
    BY DEF IInv, AnswersRemembered
  <2>3. o \in Chains /\ k \in Keys /\ ProviderOf[o] = p
    BY <2>1, <2>2, KeyOfType, CacheAssumption DEF IInv, Shape, TypeOK, RegistryAgrees
  <2>4. a.in \in Arguments[p] /\ Len(a.in) <= 90 /\ k = FilledKey(a.in)
    BY DEF Asked, AnswersAsked, KeyOf
  <2> HIDE DEF p, o, k
  <2>5. p \in Providers \ Singletons
    BY <2>1 DEF p
  <2>6. a.out.in \in Arguments[p] /\ FilledKey(a.out.in) = k
    BY <2>1, <2>2, <2>3, <2>5 DEF Asked, EntriesAsked
  <2> QED
    BY <2>4, <2>5, <2>6, KeysDiffer
<1> QED
  BY <1>1, InitAsked, NextAsked, Invariance, PTL DEF Spec
=============================================================================
