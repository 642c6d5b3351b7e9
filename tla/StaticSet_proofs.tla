-------------------------- MODULE StaticSet_proofs --------------------------
(***************************************************************************)
(* Proofs about StaticSet.tla, for any goroutines, bindings and number of  *)
(* calls.                                                                  *)
(***************************************************************************)
EXTENDS StaticSet, TLAPS

(* The static chain is run by one goroutine, inside of initOnce.           *)
OneRunner ==
  /\ \A t \in Threads : pc[t] = "chain" => once = "running"
  /\ \A t, u \in Threads : pc[t] = "chain" /\ pc[u] = "chain" => t = u

(* Whoever reads baseValues, or has read it, came after that.              *)
ReadersLate ==
  /\ \A t \in Threads : pc[t] = "read" => once = "done"
  /\ inits > 0 => once = "done"
  /\ \A r \in results : once = "done" /\ r.base = Read(base)

(* What has run is in the order of the chain, behind the one to run next.  *)
InOrder ==
  /\ once = "new" => ran = <<>>
  /\ once = "running" => at # 0 /\ \A n \in DOMAIN ran : ran[n].at < at
  /\ at \in 1 .. Len(Statics) => at \in Included
  /\ \A m, n \in DOMAIN ran : m < n => ran[m].at < ran[n].at

(* After an error the slots of what was skipped are zero.                  *)
Zeroed ==
  stopped.how = "error" =>
    /\ once = "done"
    /\ \A j \in Included : j > stopped.at => \A x \in Statics[j].out \cap Slots : base[x] = Zero

IInv == TypeOK /\ OneRunner /\ ReadersLate /\ InOrder /\ Zeroed

-----------------------------------------------------------------------------
LEMMA SeqElement ==
  ASSUME NEW S, NEW s \in Seq(S)
  PROVE  /\ Len(s) \in Nat /\ DOMAIN s = 1 .. Len(s)
         /\ \A i \in DOMAIN s : s[i] \in S
OBVIOUS

(* The bound collection, as the code below takes it for granted. *)
LEMMA BindingType ==
  ASSUME binding \in Bindings
  PROVE  /\ Len(Statics) \in Nat /\ Positions = 1 .. Len(Statics)
         /\ \A i \in Positions : /\ Statics[i].class \in Classes
                                 /\ Statics[i].include \in BOOLEAN
                                 /\ Statics[i].out \in SUBSET STRING
         /\ Included \subseteq Positions
         /\ InitOut \subseteq Slots
         /\ Slots \subseteq Flows
<1>1. Statics \in Seq([class : Classes, include : BOOLEAN, in : SUBSET STRING, out : SUBSET STRING])
  BY StaticSetAssumption DEF Statics
<1>2. Len(Statics) \in Nat /\ Positions = 1 .. Len(Statics)
  BY <1>1, SeqElement DEF Positions
<1>3. \A i \in Positions :
         Statics[i] \in [class : Classes, include : BOOLEAN, in : SUBSET STRING, out : SUBSET STRING]
  BY <1>1, SeqElement DEF Positions
<1>4. InitOut \subseteq InitIn \cup UNION {Statics[i].out : i \in Positions}
  BY StaticSetAssumption DEF Statics, InitOut, InitIn, Positions
<1>5. InitOut \subseteq Slots
  BY <1>2, <1>4 DEF Slots, Mapped, Flows
<1> QED
  BY <1>2, <1>3, <1>5 DEF Included, Slots, Mapped

(* The values that baseValues can hold. *)
LEMMA ValuesType ==
  /\ Zero \in Vals /\ InitInput \in Vals /\ Unset \in Vals
  /\ \A i \in Positions : Made(i) \in Vals /\ Error(i) \in Vals
  /\ Zero # Unset
BY DEF Vals, Zero, Unset, InitInput, Made, Error

LEMMA PutType ==
  ASSUME NEW b \in [Slots -> Vals], NEW S, NEW x \in Vals
  PROVE  Put(b, S, x) \in [Slots -> Vals]
BY DEF Put

LEMMA HandType ==
  ASSUME NEW b \in [Slots -> Vals], NEW i \in Positions, NEW x \in Vals
  PROVE  Hand(b, i, x) \in [Slots -> Vals]
<1>1. Put(b, Statics[i].out \ Terminal(i), Made(i)) \in [Slots -> Vals]
  BY ValuesType, PutType
<1> QED
  BY <1>1, PutType DEF Hand

LEMMA ReadType ==
  ASSUME NEW b \in [Slots -> Vals]
  PROVE  Read(b) \in [Slots -> Vals \ {Unset}]
BY ValuesType DEF Read

(* The next one to run is an included provider, or the end of the chain.   *)
LEMMA NextInType ==
  ASSUME binding \in Bindings, NEW i \in 1 .. Len(Statics) + 1, NEW n \in NextIn(i)
  PROVE  /\ n \in 1 .. Len(Statics) + 1 /\ n >= i
         /\ n \in 1 .. Len(Statics) => n \in Included
BY BindingType DEF NextIn, InChain

(* What is bound does not change, nor does anything computed from it. *)
LEMMA BindingSame ==
  ASSUME binding' = binding
  PROVE  /\ Statics' = Statics /\ Positions' = Positions /\ Included' = Included
         /\ Slots' = Slots /\ InitOut' = InitOut /\ Vals' = Vals
BY DEF Statics, Positions, Included, Slots, Mapped, Flows, LaterTypes, InitIn, InitOut,
       Vals, Zero, Unset, InitInput, Made, Error

-----------------------------------------------------------------------------
(* What Bind leaves behind satisfies the invariant. *)
LEMMA InitInv == Init => IInv
<1> SUFFICES ASSUME Init PROVE IInv
  OBVIOUS
<1>1. binding \in Bindings
  BY DEF Init
<1>2. Bound \in [Slots -> Vals]
  <2>1. \A t \in Slots : LastLiteral(t) \subseteq Positions
    BY DEF LastLiteral, Included
  <2>2. \A t \in Slots : LastLiteral(t) # {} => (CHOOSE i \in LastLiteral(t) : TRUE) \in Positions
    BY <2>1
  <2> QED
    BY <2>2, ValuesType DEF Bound
<1>3. TypeOK
  <2>1. at \in 0 .. Len(Statics) + 1 /\ stopped \in [at : 0 .. Len(Statics), how : {"no", "error", "panic"}]
    BY <1>1, BindingType DEF Init, NotStopped
  <2>2. calls \in 0 .. MaxCalls /\ inits \in Nat
    BY StaticSetAssumption DEF Init
  <2> QED
    BY <1>1, <1>2, <2>1, <2>2, BindingType DEF TypeOK, Init
<1>4. OneRunner /\ ReadersLate /\ Zeroed
  BY DEF Init, OneRunner, ReadersLate, Zeroed, NotStopped
<1>5. InOrder
  BY <1>1, BindingType DEF Init, InOrder
<1> QED
  BY <1>3, <1>4, <1>5 DEF IInv

-----------------------------------------------------------------------------
(* A call begins: nothing that is shared changes. *)
LEMMA CallInv ==
  ASSUME IInv, NEW t \in Threads, NEW k \in {"init", "invoke"}, Call(t, k)
  PROVE  IInv'
<1>1. binding' = binding /\ base' = base
  BY DEF Call
<1>2. TypeOK'
  BY <1>1, BindingSame, StaticSetAssumption DEF IInv, TypeOK, Call
<1>3. OneRunner'
  BY DEF IInv, TypeOK, OneRunner, Call
<1>4. ReadersLate'
  BY <1>1 DEF IInv, TypeOK, ReadersLate, Call, Read
<1>5. InOrder' /\ Zeroed'
  BY <1>1, BindingSame DEF IInv, InOrder, Zeroed, Call
<1> QED
  BY <1>2, <1>3, <1>4, <1>5 DEF IInv

(* The first call enters initOnce: nobody has read anything, nothing ran.  *)
LEMMA EnterOnceInv ==
  ASSUME IInv, NEW t \in Threads, EnterOnce(t)
  PROVE  IInv'
<1>1. binding' = binding /\ once = "new" /\ once' = "running"
  BY DEF EnterOnce
<1>2. at' \in 1 .. Len(Statics) + 1 /\ (at' \in 1 .. Len(Statics) => at' \in Included)
  <2>1. binding \in Bindings
    BY DEF IInv, TypeOK
  <2>2. 1 \in 1 .. Len(Statics) + 1
    BY <2>1, BindingType
  <2> QED
    BY <2>1, <2>2, NextInType DEF EnterOnce
<1>3. base' \in [Slots -> Vals]
  BY PutType, ValuesType DEF EnterOnce, IInv, TypeOK
<1>4. TypeOK'
  BY <1>1, <1>2, <1>3, BindingSame DEF IInv, TypeOK, EnterOnce
<1>5. OneRunner'
  BY <1>1 DEF IInv, TypeOK, OneRunner, EnterOnce
<1>6. ReadersLate'
  BY <1>1 DEF IInv, TypeOK, ReadersLate, EnterOnce
<1>7. InOrder'
  BY <1>1, <1>2, BindingSame DEF IInv, InOrder, EnterOnce
<1>8. Zeroed'
  BY <1>1 DEF IInv, Zeroed, EnterOnce
<1> QED
  BY <1>4, <1>5, <1>6, <1>7, <1>8 DEF IInv

(* A later call goes on to read, initOnce being done. *)
LEMMA SkipOnceInv ==
  ASSUME IInv, NEW t \in Threads, SkipOnce(t)
  PROVE  IInv'
<1>1. binding' = binding /\ base' = base
  BY DEF SkipOnce
<1>2. TypeOK'
  BY <1>1, BindingSame DEF IInv, TypeOK, SkipOnce
<1>3. OneRunner' /\ ReadersLate'
  BY <1>1 DEF IInv, TypeOK, OneRunner, ReadersLate, SkipOnce, Read
<1>4. InOrder' /\ Zeroed'
  BY <1>1, BindingSame DEF IInv, InOrder, Zeroed, SkipOnce
<1> QED
  BY <1>2, <1>3, <1>4 DEF IInv

-----------------------------------------------------------------------------
(* What holds of whoever meets a provider of the static chain: it is alone *)
(* in initOnce, its place is an included one, and what it records of the   *)
(* execution keeps the order.                                              *)
LEMMA MeetsFacts ==
  ASSUME IInv, NEW t \in Threads, Meets(t, {"static", "fallible"}), Execute, binding' = binding
  PROVE  /\ once = "running" /\ pc[t] = "chain"
         /\ results = {} /\ inits = 0 /\ stopped.how # "error"
         /\ at \in Positions /\ at \in Included
         /\ at + 1 \in 1 .. Len(Statics) + 1
         /\ ran' \in Seq([at : Included, given : [Slots -> Vals]])
         /\ \A n \in DOMAIN ran' : ran'[n].at <= at
         /\ \A m, n \in DOMAIN ran' : m < n => ran'[m].at < ran'[n].at
<1>1. once = "running" /\ pc[t] = "chain"
  BY DEF Meets, IInv, OneRunner
<1>2. results = {} /\ inits = 0 /\ stopped.how # "error"
  BY <1>1 DEF IInv, TypeOK, ReadersLate, Zeroed
<1>3. Len(Statics) \in Nat /\ Positions = 1 .. Len(Statics) /\ Included \subseteq Positions
  BY BindingType DEF IInv, TypeOK
<1>4. at \in 1 .. Len(Statics) /\ at \in Included
  BY <1>1, <1>3 DEF IInv, TypeOK, InOrder, Meets
<1>5. [at |-> at, given |-> Read(base)] \in [at : Included, given : [Slots -> Vals]]
  <2>1. Read(base) \in [Slots -> Vals]
    BY ReadType DEF IInv, TypeOK
  <2> QED
    BY <2>1, <1>4
<1>6. ran \in Seq([at : Included, given : [Slots -> Vals]])
  BY DEF IInv, TypeOK
<1> DEFINE R == [at : Included, given : [Slots -> Vals]]
<1> DEFINE e == [at |-> at, given |-> Read(base)]
<1>7. ran' = Append(ran, e) /\ e.at = at
  BY DEF Execute
<1>8. \A n \in DOMAIN ran : ran[n].at < at /\ ran[n].at \in Nat
  <2>1. \A n \in DOMAIN ran : ran[n] \in R
    BY <1>6, SeqElement
  <2> QED
    BY <2>1, <1>1, <1>3 DEF IInv, InOrder
<1>9. e \in R /\ ran \in Seq(R)
  BY <1>5, <1>6
<1> HIDE DEF R, e
<1>10. /\ ran' \in Seq(R)
       /\ DOMAIN ran' = 1 .. Len(ran) + 1 /\ Len(ran) \in Nat /\ DOMAIN ran = 1 .. Len(ran)
       /\ ran'[Len(ran) + 1] = e
       /\ \A n \in DOMAIN ran : ran'[n] = ran[n]
  BY <1>7, <1>9
<1>11. \A n \in DOMAIN ran' : ran'[n].at <= at
  BY <1>3, <1>4, <1>7, <1>8, <1>10
<1>12. \A m, n \in DOMAIN ran' : m < n => ran'[m].at < ran'[n].at
  <2> SUFFICES ASSUME NEW m \in DOMAIN ran', NEW n \in DOMAIN ran', m < n
               PROVE  ran'[m].at < ran'[n].at
    OBVIOUS
  <2>1. m \in DOMAIN ran /\ ran'[m] = ran[m]
    BY <1>10
  <2>2. CASE n = Len(ran) + 1
    BY <2>1, <2>2, <1>7, <1>8, <1>10
  <2>3. CASE n # Len(ran) + 1
    <3>1. n \in DOMAIN ran /\ ran'[n] = ran[n]
      BY <2>3, <1>10
    <3> QED
      BY <2>1, <3>1 DEF IInv, InOrder
  <2> QED
    BY <2>2, <2>3
<1>13. ran' \in Seq([at : Included, given : [Slots -> Vals]])
  BY <1>10 DEF R
<1> QED
  BY <1>1, <1>2, <1>3, <1>4, <1>11, <1>12, <1>13

(* A provider succeeds and the chain moves on. *)
LEMMA RunStaticInv ==
  ASSUME IInv, NEW t \in Threads, RunStatic(t)
  PROVE  IInv'
<1>1. /\ Meets(t, {"static", "fallible"}) /\ Execute /\ binding' = binding
      /\ base' = Hand(base, at, Zero) /\ at' \in NextIn(at + 1)
      /\ UNCHANGED <<once, pc, kind, stopped, results, calls, inits>>
  BY DEF RunStatic
<1>2. /\ once = "running" /\ results = {} /\ inits = 0 /\ stopped.how # "error"
      /\ at \in Positions /\ at \in Included /\ at + 1 \in 1 .. Len(Statics) + 1
      /\ ran' \in Seq([at : Included, given : [Slots -> Vals]])
      /\ \A n \in DOMAIN ran' : ran'[n].at <= at
      /\ \A m, n \in DOMAIN ran' : m < n => ran'[m].at < ran'[n].at
  BY <1>1, MeetsFacts
<1>3. /\ at' \in 1 .. Len(Statics) + 1 /\ at' >= at + 1
      /\ at' \in 1 .. Len(Statics) => at' \in Included
  BY <1>1, <1>2, NextInType DEF IInv, TypeOK
<1>4. base' \in [Slots -> Vals]
  BY <1>1, <1>2, HandType, ValuesType DEF IInv, TypeOK
<1>5. TypeOK'
  BY <1>1, <1>2, <1>3, <1>4, BindingSame DEF IInv, TypeOK
<1>6. OneRunner' /\ ReadersLate' /\ Zeroed'
  BY <1>1, <1>2 DEF IInv, TypeOK, OneRunner, ReadersLate, Zeroed
<1>7. InOrder'
  <2>1. \A n \in DOMAIN ran' : ran'[n].at < at'
    <3>1. \A n \in DOMAIN ran' : ran'[n].at \in Nat
      <4>1. \A n \in DOMAIN ran' : ran'[n] \in [at : Included, given : [Slots -> Vals]]
        BY <1>2, SeqElement
      <4>2. Included \subseteq Nat
        BY BindingType DEF IInv, TypeOK
      <4> QED
        BY <4>1, <4>2
    <3>2. at \in Nat /\ at' \in Nat
      BY <1>2, <1>3, BindingType DEF IInv, TypeOK
    <3> QED
      BY <3>1, <3>2, <1>2, <1>3
  <2>2. once' # "new" /\ at' # 0
    BY <1>1, <1>2, <1>3
  <2> QED
    BY <1>1, <1>2, <1>3, <2>1, <2>2, BindingSame DEF InOrder
<1> QED
  BY <1>5, <1>6, <1>7 DEF IInv

(* Leaving the chain keeps one runner; who left may read.                  *)
LEMMA LeaveFacts ==
  ASSUME IInv, NEW t \in Threads, pc[t] = "chain", NEW i \in 0 .. Len(Statics),
         NEW how \in {"no", "error", "panic"}, NEW to \in {"read", "idle"},
         Leave(t, i, how, to), binding' = binding
  PROVE  /\ once' = "done" /\ at' = 0 /\ at' \in 0 .. Len(Statics) + 1
         /\ stopped' \in [at : 0 .. Len(Statics), how : {"no", "error", "panic"}]
         /\ stopped'.how = how /\ stopped'.at = i
         /\ pc' \in [Threads -> {"idle", "once", "chain", "read"}]
         /\ OneRunner'
<1>1. \A u \in Threads : pc'[u] # "chain"
  BY DEF IInv, TypeOK, OneRunner, Leave
<1> QED
  BY <1>1, BindingType DEF IInv, TypeOK, OneRunner, Leave

(* A fallible provider fails: what is below it is zeroed.                  *)
LEMMA FailStaticInv ==
  ASSUME IInv, NEW t \in Threads, FailStatic(t)
  PROVE  IInv'
<1>1. /\ Meets(t, {"static", "fallible"}) /\ Execute /\ binding' = binding
      /\ base' = Put(Hand(base, at, Error(at)), MustZeroIfRemainderSkipped(at), Zero)
      /\ Leave(t, at, "error", "read")
      /\ UNCHANGED <<kind, results, calls, inits>>
  BY DEF FailStatic, Meets
<1>2. /\ once = "running" /\ pc[t] = "chain" /\ results = {} /\ inits = 0
      /\ at \in Positions /\ at \in Included
      /\ ran' \in Seq([at : Included, given : [Slots -> Vals]])
      /\ \A m, n \in DOMAIN ran' : m < n => ran'[m].at < ran'[n].at
  BY <1>1, MeetsFacts
<1>3. /\ Len(Statics) \in Nat /\ at \in 0 .. Len(Statics) /\ Positions = 1 .. Len(Statics)
      /\ Included \subseteq Positions /\ Slots \subseteq Flows
  BY <1>2, BindingType DEF IInv, TypeOK
<1>4. /\ once' = "done" /\ at' = 0 /\ at' \in 0 .. Len(Statics) + 1
      /\ stopped' \in [at : 0 .. Len(Statics), how : {"no", "error", "panic"}]
      /\ stopped'.at = at
      /\ pc' \in [Threads -> {"idle", "once", "chain", "read"}]
      /\ OneRunner'
  BY <1>1, <1>2, <1>3, LeaveFacts
<1>5. base' \in [Slots -> Vals]
  <2>1. Hand(base, at, Error(at)) \in [Slots -> Vals]
    BY <1>2, HandType, ValuesType DEF IInv, TypeOK
  <2> QED
    BY <1>1, <2>1, PutType, ValuesType
<1>6. TypeOK'
  BY <1>1, <1>2, <1>4, <1>5, BindingSame DEF IInv, TypeOK
<1>7. ReadersLate' /\ InOrder'
  BY <1>1, <1>2, <1>3, <1>4, BindingSame DEF ReadersLate, InOrder
<1>8. Zeroed'
  <2>1. \A j \in Included : j > at => \A x \in Statics[j].out \cap Slots : base'[x] = Zero
    <3> SUFFICES ASSUME NEW j \in Included, j > at, NEW x \in Statics[j].out \cap Slots
                 PROVE  base'[x] = Zero
      OBVIOUS
    <3>1. x \in Flows /\ j \in Positions /\ j >= at + 1
      BY <1>3
    <3>2. x \in MustZeroIfRemainderSkipped(at)
      BY <3>1 DEF MustZeroIfRemainderSkipped, Mapped
    <3> QED
      BY <1>1, <3>2 DEF Put
  <2> QED
    BY <1>1, <1>4, <2>1, BindingSame DEF Zeroed
<1> QED
  BY <1>4, <1>6, <1>7, <1>8 DEF IInv

(* A provider panics: initOnce is done all the same.                       *)
LEMMA PanicStaticInv ==
  ASSUME IInv, NEW t \in Threads, PanicStatic(t)
  PROVE  IInv'
<1>1. /\ Meets(t, {"static", "fallible"}) /\ Execute /\ binding' = binding
      /\ Leave(t, at, "panic", "idle")
      /\ UNCHANGED <<base, kind, results, calls, inits>>
  BY DEF PanicStatic
<1>2. /\ once = "running" /\ pc[t] = "chain" /\ results = {} /\ inits = 0 /\ at \in Positions
      /\ ran' \in Seq([at : Included, given : [Slots -> Vals]])
      /\ \A m, n \in DOMAIN ran' : m < n => ran'[m].at < ran'[n].at
  BY <1>1, MeetsFacts
<1>3. Len(Statics) \in Nat /\ at \in 0 .. Len(Statics)
  BY <1>2, BindingType DEF IInv, TypeOK
<1>4. /\ once' = "done" /\ at' = 0 /\ at' \in 0 .. Len(Statics) + 1
      /\ stopped' \in [at : 0 .. Len(Statics), how : {"no", "error", "panic"}]
      /\ stopped'.how = "panic"
      /\ pc' \in [Threads -> {"idle", "once", "chain", "read"}]
      /\ OneRunner'
  BY <1>1, <1>2, <1>3, LeaveFacts
<1>5. TypeOK'
  BY <1>1, <1>2, <1>4, BindingSame DEF IInv, TypeOK
<1>6. ReadersLate' /\ InOrder' /\ Zeroed'
  BY <1>1, <1>2, <1>3, <1>4, BindingSame DEF ReadersLate, InOrder, Zeroed
<1> QED
  BY <1>4, <1>5, <1>6 DEF IInv

(* The chain ends. *)
LEMMA FinishChainInv ==
  ASSUME IInv, NEW t \in Threads, FinishChain(t)
  PROVE  IInv'
<1>1. /\ pc[t] = "chain" /\ binding' = binding /\ Leave(t, 0, "no", "read")
      /\ UNCHANGED <<base, kind, ran, results, calls, inits>>
  BY DEF FinishChain
<1>2. once = "running" /\ results = {} /\ inits = 0 /\ Len(Statics) \in Nat
  BY <1>1, BindingType DEF IInv, TypeOK, OneRunner, ReadersLate
<1>3. /\ once' = "done" /\ at' = 0 /\ at' \in 0 .. Len(Statics) + 1
      /\ stopped' \in [at : 0 .. Len(Statics), how : {"no", "error", "panic"}]
      /\ stopped'.how = "no"
      /\ pc' \in [Threads -> {"idle", "once", "chain", "read"}]
      /\ OneRunner'
  BY <1>1, <1>2, LeaveFacts
<1>4. TypeOK'
  BY <1>1, <1>3, BindingSame DEF IInv, TypeOK
<1>5. ReadersLate' /\ InOrder' /\ Zeroed'
  BY <1>1, <1>2, <1>3, BindingSame DEF IInv, ReadersLate, InOrder, Zeroed
<1> QED
  BY <1>3, <1>4, <1>5 DEF IInv

(* A call reads what the static chain has left behind.                     *)
LEMMA ReadBaseInv ==
  ASSUME IInv, NEW t \in Threads, ReadBase(t)
  PROVE  IInv'
<1>1. /\ pc[t] = "read" /\ once = "done"
      /\ UNCHANGED <<binding, base, once, kind, at, stopped, ran, calls>>
      /\ results' = results \cup {[kind |-> kind[t], base |-> Read(base)]}
      /\ pc' = [pc EXCEPT ![t] = "idle"]
  BY DEF ReadBase, IInv, ReadersLate
<1>2. inits' \in Nat
  BY DEF IInv, TypeOK, ReadBase
<1>3. results' \subseteq [kind : {"init", "invoke"}, base : [Slots -> Vals \ {Unset}]]
  <2>1. Read(base) \in [Slots -> Vals \ {Unset}]
    BY ReadType DEF IInv, TypeOK
  <2> QED
    BY <1>1, <2>1 DEF IInv, TypeOK
<1>4. TypeOK'
  BY <1>1, <1>2, <1>3, BindingSame DEF IInv, TypeOK, Unset
<1>5. OneRunner'
  BY <1>1 DEF IInv, TypeOK, OneRunner
<1>6. ReadersLate'
  <2>1. \A r \in results' : r.base = Read(base)
    BY <1>1 DEF IInv, ReadersLate
  <2> QED
    BY <1>1, <2>1 DEF ReadersLate, Read
<1>7. InOrder' /\ Zeroed'
  BY <1>1, BindingSame DEF IInv, InOrder, Zeroed
<1> QED
  BY <1>4, <1>5, <1>6, <1>7 DEF IInv

-----------------------------------------------------------------------------
(* Every step keeps the invariant. *)
LEMMA NextInv == IInv /\ [Next]_vars => IInv'
<1> SUFFICES ASSUME IInv, [Next]_vars PROVE IInv'
  OBVIOUS
<1>1. CASE UNCHANGED vars
  BY <1>1, BindingSame DEF vars, IInv, TypeOK, OneRunner, ReadersLate, InOrder, Zeroed, Read, Unset
<1>2. ASSUME NEW t \in Threads, NEW k \in {"init", "invoke"}, Call(t, k) PROVE IInv'
  BY <1>2, CallInv
<1>3. ASSUME NEW t \in Threads, EnterOnce(t) PROVE IInv'
  BY <1>3, EnterOnceInv
<1>4. ASSUME NEW t \in Threads, SkipOnce(t) PROVE IInv'
  BY <1>4, SkipOnceInv
<1>5. ASSUME NEW t \in Threads, RunStatic(t) PROVE IInv'
  BY <1>5, RunStaticInv
<1>6. ASSUME NEW t \in Threads, FailStatic(t) PROVE IInv'
  BY <1>6, FailStaticInv
<1>7. ASSUME NEW t \in Threads, PanicStatic(t) PROVE IInv'
  BY <1>7, PanicStaticInv
<1>8. ASSUME NEW t \in Threads, FinishChain(t) PROVE IInv'
  BY <1>8, FinishChainInv
<1>9. ASSUME NEW t \in Threads, ReadBase(t) PROVE IInv'
  BY <1>9, ReadBaseInv
<1> QED
  BY <1>1, <1>2, <1>3, <1>4, <1>5, <1>6, <1>7, <1>8, <1>9 DEF Next, Step

(* The inductive invariant holds of every run of the code (bind.go:299-410). *)
THEOREM StaticInvariance == Spec => []IInv
BY InitInv, NextInv, PTL DEF Spec

(* The state keeps its types (bind.go:299-410). *)
THEOREM StaticTypes == Spec => []TypeOK
<1>1. IInv => TypeOK
  BY DEF IInv
<1> QED
  BY <1>1, StaticInvariance, PTL

(* The static chain runs at most once and in order, by one goroutine,      *)
(* however many goroutines call init and invoke (bind.go:310-344, 384-389). *)
THEOREM RunsOnce == Spec => []StaticRunsOnce
<1>1. IInv => StaticRunsOnce
  BY DEF IInv, OneRunner, InOrder, StaticRunsOnce
<1> QED
  BY <1>1, StaticInvariance, PTL

(* No call sees baseValues before the static chain is over, and all see    *)
(* the same (bind.go:331-376, 378-410).                                    *)
THEOREM CompleteSnapshots == Spec => []SnapshotsComplete
<1>1. IInv => SnapshotsComplete
  BY DEF IInv, ReadersLate, SnapshotsComplete
<1> QED
  BY <1>1, StaticInvariance, PTL

(* After a TerminalError no call is handed a value for what the skipped    *)
(* providers provide (bind.go:132-135, generate.go:341-380).  *)
THEOREM SkippedZeroed == Spec => []SkippedAreZero
<1>1. IInv => SkippedAreZero
  <2> SUFFICES ASSUME IInv, stopped.how = "error", NEW j \in Included, NEW r \in results,
                      j > stopped.at, NEW x \in Statics[j].out \cap Slots
               PROVE  r.base[x] = Zero
    BY DEF SkippedAreZero
  <2>1. base[x] = Zero
    BY DEF IInv, Zeroed
  <2>2. r.base = Read(base) /\ base \in [Slots -> Vals]
    BY DEF IInv, ReadersLate, TypeOK
  <2> QED
    BY <2>1, <2>2 DEF Read
<1> QED
  BY <1>1, StaticInvariance, PTL

-----------------------------------------------------------------------------
(* From here on, what the static set promises of a chain in which no       *)
(* provider comes in the way of what Bind or the init function has already *)
(* put into baseValues.                                                    *)

(* A literal is in baseValues from the start (bind.go:299-308), whatever   *)
(* its place: it is the closest provider below it, and for nobody else, if *)
(* it is the first included provider of its type and if init does not take *)
(* that type.                                                              *)
LiteralsAreFirst ==
  \A b \in Bindings : \A l \in DOMAIN b.statics :
    b.statics[l].class = "literal" /\ b.statics[l].include =>
      /\ b.statics[l].out \cap b.initIn = {}
      /\ \A j \in DOMAIN b.statics :
           b.statics[j].include /\ j < l => b.statics[j].out \cap b.statics[l].out = {}

(* What comes after a fallible provider, included or not, provides no      *)
(* other error.                                                            *)
ErrorsAreLast ==
  \A b \in Bindings : \A i, j \in DOMAIN b.statics :
    b.statics[i].class = "fallible" /\ i < j => "error" \notin b.statics[j].out

(* Values b are those of the closest providers above place i, and literals *)
(* from i on are in their slots, for those below them.                     *)
Held(b, i) ==
  \A x \in Slots :
    /\ FromClosest(i, x, b[x])
    /\ \A l \in Included : l >= i /\ Statics[l].class = "literal" /\ x \in Statics[l].out => b[x] = Made(l)

Closest ==
  /\ once = "new" => Held(base, 1)
  /\ once = "running" => Held(base, at)
  /\ once = "done" /\ stopped.how = "no" => Held(base, Len(Statics) + 1)
  /\ \A n \in DOMAIN ran : \A x \in Statics[ran[n].at].in \cap Slots :
       FromClosest(ran[n].at, x, ran[n].given[x])

LEMMA LiteralsFirstHere ==
  ASSUME LiteralsAreFirst, binding \in Bindings,
         NEW l \in Included, Statics[l].class = "literal"
  PROVE  /\ Statics[l].out \cap InitIn = {}
         /\ \A j \in Included : j < l => Statics[j].out \cap Statics[l].out = {}
BY DEF LiteralsAreFirst, Included, Positions, Statics, InitIn

(* The included providers above a place. *)
LEMMA AboveFirst ==
  ASSUME binding \in Bindings, NEW x
  PROVE  Above(1, x) = {}
<1>1. \A j \in Included : ~(j < 1)
  BY BindingType
<1>2. \A j : j \notin Above(1, x)
  BY <1>1 DEF Above
<1> QED
  BY <1>2

LEMMA AboveSame ==
  ASSUME binding \in Bindings, NEW x, NEW i \in 1 .. Len(Statics) + 1,
         NEW n \in 1 .. Len(Statics) + 1, i <= n,
         \A l \in Included : l >= i /\ l < n => x \notin Statics[l].out
  PROVE  Above(n, x) = Above(i, x)
<1>1. Len(Statics) \in Nat /\ Included \subseteq 1 .. Len(Statics)
  BY BindingType
<1>2. \A l \in Included : x \in Statics[l].out => (l < n <=> l < i)
  BY <1>1
<1> QED
  BY <1>2 DEF Above

(* Passing over literals keeps what is held. *)
LEMMA HeldFurther ==
  ASSUME LiteralsAreFirst, binding \in Bindings,
         NEW i \in 1 .. Len(Statics) + 1, NEW n \in NextIn(i), NEW b, Held(b, i)
  PROVE  Held(b, n)
<1> SUFFICES ASSUME NEW x \in Slots
             PROVE  /\ FromClosest(n, x, b[x])
                    /\ \A l \in Included : l >= n /\ Statics[l].class = "literal" /\ x \in Statics[l].out
                                             => b[x] = Made(l)
  BY DEF Held
<1>1. /\ Len(Statics) \in Nat /\ Included \subseteq 1 .. Len(Statics)
      /\ n \in 1 .. Len(Statics) + 1 /\ n >= i
      /\ \A j \in Included : Statics[j].class \in Classes
  BY BindingType, NextInType
<1>2. \A k \in Included : k >= i /\ k < n => Statics[k].class = "literal"
  BY <1>1 DEF NextIn, InChain
<1>3. /\ FromClosest(i, x, b[x])
      /\ \A l \in Included : l >= i /\ Statics[l].class = "literal" /\ x \in Statics[l].out => b[x] = Made(l)
  BY DEF Held
<1>4. CASE \E l \in Above(n, x) : l >= i
  <2>1. PICK l \in Above(n, x) : l >= i
    BY <1>4
  <2>2. l \in Included /\ l < n /\ x \in Statics[l].out /\ Statics[l].class = "literal"
    BY <2>1, <1>2 DEF Above
  <2>3. b[x] = Made(l)
    BY <2>1, <2>2, <1>3
  <2>4. \A k \in Above(n, x) : k <= l
    <3> SUFFICES ASSUME NEW k \in Above(n, x), ~(k <= l) PROVE FALSE
      OBVIOUS
    <3>1. k \in Included /\ k < n /\ x \in Statics[k].out /\ k > l /\ k >= i
      BY <2>1, <2>2, <1>1 DEF Above
    <3>2. Statics[k].class = "literal"
      BY <3>1, <1>2
    <3> QED
      BY <3>1, <3>2, <2>2, LiteralsFirstHere
  <2>5. IsFrom(l, x, b[x])
    BY <2>2, <2>3 DEF IsFrom
  <2>6. FromClosest(n, x, b[x])
    BY <2>1, <2>4, <2>5 DEF FromClosest
  <2>7. \A k \in Included : k >= n => k >= i
    BY <1>1
  <2>8. \A k \in Included : k >= n /\ Statics[k].class = "literal" /\ x \in Statics[k].out => b[x] = Made(k)
    BY <2>7, <1>3
  <2> QED
    BY <2>6, <2>8
<1>5. CASE ~(\E l \in Above(n, x) : l >= i)
  <2>1. Above(n, x) = Above(i, x)
    <3>1. \A l \in Included : l >= i /\ l < n => x \notin Statics[l].out
      BY <1>5 DEF Above
    <3> QED
      BY <3>1, <1>1, AboveSame
  <2>2. FromClosest(n, x, b[x])
    BY <2>1, <1>3 DEF FromClosest
  <2>3. \A k \in Included : k >= n => k >= i
    BY <1>1
  <2>4. \A k \in Included : k >= n /\ Statics[k].class = "literal" /\ x \in Statics[k].out => b[x] = Made(k)
    BY <2>3, <1>3
  <2> QED
    BY <2>2, <2>4
<1> QED
  BY <1>4, <1>5

(* Bind leaves the literals in their slots. *)
LEMMA HeldAtFirst ==
  ASSUME LiteralsAreFirst, binding \in Bindings
  PROVE  Held(Bound, 1)
<1> SUFFICES ASSUME NEW x \in Slots
             PROVE  /\ FromClosest(1, x, Bound[x])
                    /\ \A l \in Included : l >= 1 /\ Statics[l].class = "literal" /\ x \in Statics[l].out
                                             => Bound[x] = Made(l)
  BY DEF Held
<1>1. Len(Statics) \in Nat /\ Included \subseteq 1 .. Len(Statics)
  BY BindingType
<1>2. Above(1, x) = {}
  BY AboveFirst
<1>3. ASSUME NEW l \in Included, Statics[l].class = "literal", x \in Statics[l].out
      PROVE  Bound[x] = Made(l)
  <2>1. \A k \in Included : Statics[k].class = "literal" /\ x \in Statics[k].out => k = l
    <3> SUFFICES ASSUME NEW k \in Included, Statics[k].class = "literal", x \in Statics[k].out, k # l
                 PROVE  FALSE
      OBVIOUS
    <3>1. k < l \/ l < k
      BY <1>1
    <3> QED
      BY <3>1, <1>3, LiteralsFirstHere
  <2>2. LastLiteral(x) = {l}
    <3>1. l \in LastLiteral(x)
      BY <2>1, <1>3, <1>1 DEF LastLiteral
    <3>2. \A k \in LastLiteral(x) : k = l
      BY <2>1 DEF LastLiteral
    <3> QED
      BY <3>1, <3>2
  <2> QED
    BY <2>2 DEF Bound
<1> QED
  BY <1>2, <1>3 DEF FromClosest

(* What the init function is given is in no literal's way. *)
LEMMA HeldAfterInit ==
  ASSUME LiteralsAreFirst, binding \in Bindings, NEW b, Held(b, 1)
  PROVE  Held(Put(b, InitIn, InitInput), 1)
<1> SUFFICES ASSUME NEW x \in Slots
             PROVE  /\ FromClosest(1, x, Put(b, InitIn, InitInput)[x])
                    /\ \A l \in Included : l >= 1 /\ Statics[l].class = "literal" /\ x \in Statics[l].out
                                             => Put(b, InitIn, InitInput)[x] = Made(l)
  BY DEF Held
<1>1. Len(Statics) \in Nat /\ Included \subseteq 1 .. Len(Statics)
  BY BindingType
<1>2. Above(1, x) = {}
  BY AboveFirst
<1>3. ASSUME NEW l \in Included, l >= 1, Statics[l].class = "literal", x \in Statics[l].out
      PROVE  Put(b, InitIn, InitInput)[x] = Made(l)
  <2>1. x \notin InitIn
    BY <1>3, LiteralsFirstHere
  <2>2. b[x] = Made(l)
    BY <1>3 DEF Held
  <2> QED
    BY <2>1, <2>2 DEF Put
<1> QED
  BY <1>2, <1>3 DEF FromClosest

(* A provider that succeeds becomes the closest one of what it provides.   *)
LEMMA HeldAfterRun ==
  ASSUME LiteralsAreFirst, binding \in Bindings, NEW b, NEW i \in Included,
         Statics[i].class # "literal", Held(b, i)
  PROVE  Held(Hand(b, i, Zero), i + 1)
<1> DEFINE h == Hand(b, i, Zero)
<1> SUFFICES ASSUME NEW x \in Slots
             PROVE  /\ FromClosest(i + 1, x, h[x])
                    /\ \A l \in Included : l >= i + 1 /\ Statics[l].class = "literal" /\ x \in Statics[l].out
                                             => h[x] = Made(l)
  BY DEF Held
<1>1. Len(Statics) \in Nat /\ Included \subseteq 1 .. Len(Statics)
  BY BindingType
<1>2. Statics[i].class = "fallible" => "error" \in Statics[i].out
  BY StaticSetAssumption DEF Included, Positions, Statics
<1>3. CASE x \in Statics[i].out
  <2>1. IsFrom(i, x, h[x])
    BY <1>3, <1>2 DEF Hand, Put, Terminal, IsFrom
  <2>2. i \in Above(i + 1, x) /\ \A k \in Above(i + 1, x) : k <= i
    BY <1>1, <1>3 DEF Above
  <2>3. \A l \in Included : l >= i + 1 /\ Statics[l].class = "literal" => x \notin Statics[l].out
    <3> SUFFICES ASSUME NEW l \in Included, l >= i + 1, Statics[l].class = "literal", x \in Statics[l].out
                 PROVE  FALSE
      OBVIOUS
    <3>1. i < l
      BY <1>1
    <3> QED
      BY <3>1, <1>3, LiteralsFirstHere
  <2> QED
    BY <2>1, <2>2, <2>3 DEF FromClosest
<1>4. CASE x \notin Statics[i].out
  <2>1. h[x] = b[x]
    BY <1>4, <1>2 DEF Hand, Put, Terminal
  <2>2. Above(i + 1, x) = Above(i, x)
    <3>1. i \in 1 .. Len(Statics) + 1 /\ i + 1 \in 1 .. Len(Statics) + 1 /\ i <= i + 1
      BY <1>1
    <3>2. \A l \in Included : l >= i /\ l < i + 1 => l = i
      BY <1>1
    <3> QED
      BY <3>1, <3>2, <1>4, AboveSame
  <2>3. \A l \in Included : l >= i + 1 => l >= i
    BY <1>1
  <2> QED
    BY <2>1, <2>2, <2>3 DEF Held, FromClosest
<1> QED
  BY <1>3, <1>4

(* An input mapper reads what is held as it is: it is not the invalid one. *)
LEMMA HeldIsRead ==
  ASSUME binding \in Bindings, base \in [Slots -> Vals], NEW i, Held(base, i), NEW x \in Slots
  PROVE  FromClosest(i, x, Read(base)[x])
<1>1. FromClosest(i, x, base[x])
  BY DEF Held
<1>2. \A j : IsFrom(j, x, base[x]) => base[x] # Unset
  BY DEF IsFrom, Made, Unset, Zero
<1>3. base[x] # Unset => Read(base)[x] = base[x]
  BY DEF Read
<1> QED
  BY <1>1, <1>2, <1>3 DEF FromClosest

(* What depends on the bound collection alone does not change. *)
LEMMA HeldSame ==
  ASSUME binding' = binding
  PROVE  /\ \A b, i : Held(b, i)' = Held(b, i)
         /\ \A i, x, v : FromClosest(i, x, v)' = FromClosest(i, x, v)
BY BindingSame DEF Held, FromClosest, Above, IsFrom, Made, Zero

(* What a provider is given, it is recorded to have been given. *)
LEMMA GivenClosest ==
  ASSUME IInv, NEW t \in Threads, Meets(t, {"static", "fallible"}), Execute, binding' = binding,
         Closest
  PROVE  \A n \in DOMAIN ran' : \A x \in Statics[ran'[n].at].in \cap Slots :
           FromClosest(ran'[n].at, x, ran'[n].given[x])
<1> DEFINE e == [at |-> at, given |-> Read(base)]
<1>1. ran' = Append(ran, e) /\ e.at = at /\ e.given = Read(base)
  BY DEF Execute
<1>2. ran \in Seq([at : Included, given : [Slots -> Vals]])
  BY DEF IInv, TypeOK
<1>3. \A x \in Slots : FromClosest(at, x, e.given[x])
  <2>1. Held(base, at)
    BY MeetsFacts DEF Closest
  <2> QED
    BY <1>1, <2>1, HeldIsRead DEF IInv, TypeOK
<1> HIDE DEF e
<1>4. /\ DOMAIN ran' = 1 .. Len(ran) + 1 /\ DOMAIN ran = 1 .. Len(ran) /\ Len(ran) \in Nat
      /\ ran'[Len(ran) + 1] = e
      /\ \A n \in DOMAIN ran : ran'[n] = ran[n]
  BY <1>1, <1>2
<1> SUFFICES ASSUME NEW n \in DOMAIN ran', NEW x \in Statics[ran'[n].at].in \cap Slots
             PROVE  FromClosest(ran'[n].at, x, ran'[n].given[x])
  OBVIOUS
<1>5. CASE n = Len(ran) + 1
  BY <1>5, <1>1, <1>3, <1>4
<1>6. CASE n # Len(ran) + 1
  <2>1. n \in DOMAIN ran /\ ran'[n] = ran[n]
    BY <1>6, <1>4
  <2> QED
    BY <2>1 DEF Closest
<1> QED
  BY <1>5, <1>6

(* Closest, of what the step leaves behind. *)
ClosestOf(o, b, i, s, h) ==
  /\ o = "new" => Held(b, 1)
  /\ o = "running" => Held(b, i)
  /\ o = "done" /\ s.how = "no" => Held(b, Len(Statics) + 1)
  /\ \A n \in DOMAIN h : \A x \in Statics[h[n].at].in \cap Slots : FromClosest(h[n].at, x, h[n].given[x])

LEMMA ClosestNext ==
  ASSUME binding' = binding, ClosestOf(once', base', at', stopped', ran')
  PROVE  Closest'
<1>1. /\ Slots' = Slots /\ Statics' = Statics
      /\ \A x, i, v : FromClosest(i, x, v)' = FromClosest(i, x, v)
  BY BindingSame, HeldSame
<1>2. \A j, x, v : IsFrom(j, x, v)' = IsFrom(j, x, v)
  BY BindingSame DEF IsFrom, Made, Zero
<1> QED
  BY <1>1, BindingSame DEF Closest, ClosestOf, Held, Made, FromClosest, Above, IsFrom, Zero

LEMMA ClosestStep ==
  ASSUME LiteralsAreFirst, IInv, Closest, [Next]_vars
  PROVE  Closest'
<1>1. binding \in Bindings /\ base \in [Slots -> Vals]
  BY DEF IInv, TypeOK
<1>2. Len(Statics) \in Nat /\ Included \subseteq 1 .. Len(Statics)
  BY <1>1, BindingType
<1>3. CASE UNCHANGED <<binding, base, once, at, stopped, ran>>
  <2>1. ClosestOf(once', base', at', stopped', ran')
    BY <1>3 DEF Closest, ClosestOf
  <2> QED
    BY <1>3, <2>1, ClosestNext
<1>4. ASSUME NEW t \in Threads, EnterOnce(t) PROVE Closest'
  <2>1. /\ once' = "running" /\ base' = Put(base, InitIn, InitInput) /\ at' \in NextIn(1)
        /\ binding' = binding /\ ran' = ran /\ stopped' = stopped /\ once = "new"
    BY <1>4 DEF EnterOnce
  <2>2. Held(base', 1)
    BY <1>1, <2>1, HeldAfterInit DEF Closest
  <2>3. 1 \in 1 .. Len(Statics) + 1
    BY <1>2
  <2>4. PICK n : n = at'
    OBVIOUS
  <2>5. PICK b : b = base'
    OBVIOUS
  <2>6. Held(b, n)
    BY <1>1, <2>1, <2>2, <2>3, <2>4, <2>5, HeldFurther
  <2>7. ClosestOf(once', base', at', stopped', ran')
    BY <2>1, <2>4, <2>5, <2>6 DEF Closest, ClosestOf
  <2> QED
    BY <2>1, <2>7, ClosestNext
<1>5. ASSUME NEW t \in Threads, RunStatic(t) PROVE Closest'
  <2>1. /\ Meets(t, {"static", "fallible"}) /\ Execute /\ binding' = binding
        /\ base' = Hand(base, at, Zero) /\ at' \in NextIn(at + 1)
        /\ once' = once /\ stopped' = stopped
    BY <1>5 DEF RunStatic
  <2>2. once = "running" /\ at \in Included /\ at + 1 \in 1 .. Len(Statics) + 1
    BY <2>1, MeetsFacts
  <2>3. Held(base, at) /\ Statics[at].class # "literal"
    BY <2>1, <2>2 DEF Closest, Meets
  <2>4. Held(Hand(base, at, Zero), at + 1)
    BY <1>1, <2>2, <2>3, HeldAfterRun
  <2>5. PICK n : n = at'
    OBVIOUS
  <2>6. PICK b : b = Hand(base, at, Zero)
    OBVIOUS
  <2>7. Held(b, n)
    BY <1>1, <2>1, <2>2, <2>4, <2>5, <2>6, HeldFurther
  <2>8. ClosestOf(once', base', at', stopped', ran')
    BY <2>1, <2>2, <2>5, <2>6, <2>7, GivenClosest DEF ClosestOf
  <2> QED
    BY <2>1, <2>8, ClosestNext
<1>6. ASSUME NEW t \in Threads, FailStatic(t) \/ PanicStatic(t) PROVE Closest'
  <2>1. /\ Meets(t, {"static", "fallible"}) /\ Execute /\ binding' = binding
        /\ once' = "done" /\ stopped'.how # "no"
    BY <1>6 DEF FailStatic, PanicStatic, Leave, Meets
  <2>2. ClosestOf(once', base', at', stopped', ran')
    BY <2>1, GivenClosest DEF ClosestOf
  <2> QED
    BY <2>1, <2>2, ClosestNext
<1>7. ASSUME NEW t \in Threads, FinishChain(t) PROVE Closest'
  <2>1. /\ pc[t] = "chain" /\ at > Len(Statics) /\ once' = "done"
        /\ UNCHANGED <<binding, base, ran>>
    BY <1>7 DEF FinishChain, Leave
  <2>2. once = "running" /\ at = Len(Statics) + 1
    BY <1>2, <2>1 DEF IInv, TypeOK, OneRunner
  <2>3. ClosestOf(once', base', at', stopped', ran')
    BY <2>1, <2>2 DEF Closest, ClosestOf
  <2> QED
    BY <2>1, <2>3, ClosestNext
<1>8. CASE UNCHANGED vars
  BY <1>8, <1>3 DEF vars
<1>9. ASSUME NEW t \in Threads, \/ SkipOnce(t) \/ ReadBase(t) \/ \E k \in {"init", "invoke"} : Call(t, k)
      PROVE Closest'
  BY <1>9, <1>3 DEF SkipOnce, ReadBase, Call
<1> QED
  BY <1>4, <1>5, <1>6, <1>7, <1>8, <1>9 DEF Next, Step

(* Every static provider is given the values of the closest included       *)
(* providers above it, and an invocation after a complete static chain     *)
(* finds those of the closest ones above the run set (bind.go:299-410,     *)
(* generate.go:189-262).                                                   *)
THEOREM ClosestProviders == LiteralsAreFirst => (Spec => []ClosestProvider)
<1> SUFFICES ASSUME LiteralsAreFirst PROVE Spec => []ClosestProvider
  OBVIOUS
<1>1. Init => Closest
  <2> SUFFICES ASSUME Init PROVE Closest
    OBVIOUS
  <2>1. Held(Bound, 1)
    BY HeldAtFirst DEF Init
  <2> QED
    BY <2>1 DEF Init, Closest
<1>2. IInv /\ Closest => ClosestProvider
  <2> SUFFICES ASSUME IInv, Closest PROVE ClosestProvider
    OBVIOUS
  <2>1. ASSUME stopped.how = "no", NEW r \in results, NEW x \in Slots
        PROVE  FromClosest(Len(Statics) + 1, x, r.base[x])
    <3>1. once = "done" /\ r.base = Read(base) /\ Held(base, Len(Statics) + 1)
      BY <2>1 DEF IInv, ReadersLate, Closest
    <3> QED
      BY <3>1, HeldIsRead DEF IInv, TypeOK
  <2> QED
    BY <2>1 DEF Closest, ClosestProvider
<1>3. IInv /\ Closest /\ [Next]_vars => Closest'
  BY ClosestStep
<1> QED
  BY <1>1, <1>2, <1>3, StaticInvariance, PTL DEF Spec

-----------------------------------------------------------------------------
(* The error of the provider that ended the chain is in its slot. *)
ErrorKept == stopped.how = "error" /\ "error" \in Slots => base["error"] = Error(stopped.at)

LEMMA ErrorStep ==
  ASSUME ErrorsAreLast, IInv, ErrorKept, [Next]_vars
  PROVE  ErrorKept'
<1>1. binding \in Bindings /\ base \in [Slots -> Vals]
  BY DEF IInv, TypeOK
<1>2. CASE UNCHANGED <<binding, base, stopped>>
  BY <1>2, BindingSame DEF ErrorKept, Error
<1>3. ASSUME NEW t \in Threads, FailStatic(t) PROVE ErrorKept'
  <2>1. /\ Meets(t, {"static", "fallible"}) /\ Execute /\ binding' = binding
        /\ base' = Put(Hand(base, at, Error(at)), MustZeroIfRemainderSkipped(at), Zero)
        /\ stopped'.at = at /\ Statics[at].class = "fallible"
    BY <1>3 DEF FailStatic, Leave, Meets
  <2>2. at \in Positions /\ Positions = 1 .. Len(Statics) /\ Len(Statics) \in Nat
    BY <1>1, <2>1, MeetsFacts, BindingType
  <2>3. \A j \in Positions : j >= at + 1 => "error" \notin Statics[j].out
    <3>1. \A j \in Positions : at < j => "error" \notin Statics[j].out
      BY <1>1, <2>1, <2>2 DEF ErrorsAreLast, Positions, Statics
    <3> QED
      BY <2>2, <3>1
  <2>4. "error" \notin MustZeroIfRemainderSkipped(at)
    BY <2>3 DEF MustZeroIfRemainderSkipped, Mapped
  <2>5. "error" \in Slots => base'["error"] = Error(at)
    BY <2>1, <2>4 DEF Put, Hand, Terminal
  <2> QED
    BY <2>1, <2>5, BindingSame DEF ErrorKept, Error
<1>4. ASSUME NEW t \in Threads, EnterOnce(t) \/ RunStatic(t) PROVE ErrorKept'
  <2>1. pc'[t] = "chain" /\ stopped' = stopped /\ (once = "new" \/ pc[t] = "chain")
    BY <1>4 DEF EnterOnce, RunStatic, Meets, IInv, TypeOK
  <2>2. stopped.how # "error"
    BY <2>1 DEF IInv, OneRunner, Zeroed
  <2> QED
    BY <2>1, <2>2 DEF ErrorKept
<1>5. ASSUME NEW t \in Threads, PanicStatic(t) \/ FinishChain(t) PROVE ErrorKept'
  BY <1>5 DEF PanicStatic, FinishChain, Leave, ErrorKept
<1>6. ASSUME NEW t \in Threads, \/ SkipOnce(t) \/ ReadBase(t) \/ \E k \in {"init", "invoke"} : Call(t, k)
      PROVE ErrorKept'
  BY <1>6, <1>2 DEF SkipOnce, ReadBase, Call
<1>7. CASE UNCHANGED vars
  BY <1>7, <1>2 DEF vars
<1> QED
  BY <1>3, <1>4, <1>5, <1>6, <1>7 DEF Next, Step

(* The error that ended the static chain is what init returns              *)
(* (bind.go:331-376, generate.go:341-380).                                 *)
THEOREM ErrorsReported == ErrorsAreLast => (Spec => []ErrorReported)
<1> SUFFICES ASSUME ErrorsAreLast PROVE Spec => []ErrorReported
  OBVIOUS
<1>1. Init => ErrorKept
  BY DEF Init, ErrorKept, NotStopped
<1>2. IInv /\ ErrorKept => ErrorReported
  <2> SUFFICES ASSUME IInv, ErrorKept, stopped.how = "error", "error" \in InitOut, NEW r \in results
               PROVE  r.base["error"] = Error(stopped.at)
    BY DEF ErrorReported
  <2>1. "error" \in Slots /\ r.base = Read(base)
    BY BindingType DEF IInv, TypeOK, ReadersLate
  <2>2. base["error"] = Error(stopped.at) /\ Error(stopped.at) # Unset
    BY <2>1 DEF ErrorKept, Error, Unset
  <2> QED
    BY <2>1, <2>2 DEF Read, IInv, TypeOK
<1>3. IInv /\ ErrorKept /\ [Next]_vars => ErrorKept'
  BY ErrorStep
<1> QED
  BY <1>1, <1>2, <1>3, StaticInvariance, PTL DEF Spec
=============================================================================
