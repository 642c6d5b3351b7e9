-------------------------- MODULE DebugLock_proofs --------------------------
(***************************************************************************)
(* Proofs about DebugLock.tla, for any goroutines, collections, nesting of *)
(* Binds in ReplaceSelf functions, and number of calls.                    *)
(***************************************************************************)
EXTENDS DebugLock, FiniteSetTheorems, TLAPS

(* Calls that others are nested in are in ReplaceSelf.                     *)
Nesting ==
  \A t \in Threads : \A i \in DOMAIN stack[t] : i < Depth(t) => stack[t][i].at = "replace"

(* A capture has announced itself as a writer, or holds the lock.          *)
Announced(f) == ~f.real /\ f.at # "lock"
Writing(f) == ~f.real /\ f.at \in {"doBind", "replace", "after"}

(* One call at most is between Announce and Unlock, the one pending names. *)
OneWriter ==
  /\ \A t \in Threads : \A i \in DOMAIN stack[t] : Announced(stack[t][i]) => pending = t
  /\ \A t \in Threads : \A i, j \in DOMAIN stack[t] :
       Announced(stack[t][i]) /\ Announced(stack[t][j]) => i = j
  /\ pending # None => \E i \in DOMAIN stack[pending] : Announced(stack[pending][i])

(* It holds the lock, and has set debug, when it is past Lock.             *)
WriterHolds ==
  /\ \A t \in Threads : \A i \in DOMAIN stack[t] : Writing(stack[t][i]) => writer = t
  /\ writer # None => \E i \in DOMAIN stack[writer] : Writing(stack[writer][i])
  /\ debug <=> writer # None

(* Nobody reads while somebody writes.                                     *)
Excluded == writer # None => \A t \in Threads : readers[t] = 0

(* The read locks of a goroutine are those of its calls.                   *)
ReadingOf(s) == {i \in DOMAIN s : Reading(s[i])}
Counted == \A t \in Threads : readers[t] = Cardinality(ReadingOf(stack[t]))

IInv == TypeOK /\ Nesting /\ OneWriter /\ WriterHolds /\ Excluded /\ Counted

-----------------------------------------------------------------------------
(* The innermost call exists, and is a frame.                              *)
LEMMA TopFrame ==
  ASSUME TypeOK, NEW t \in Threads, stack[t] # <<>>
  PROVE  /\ Depth(t) \in DOMAIN stack[t] /\ Depth(t) \in Nat \ {0}
         /\ DOMAIN stack[t] = 1 .. Depth(t)
         /\ Top(t) \in Frames /\ Top(t) = stack[t][Depth(t)]
<1>1. stack[t] \in Seq(Frames)
  BY DEF TypeOK
<1>2. Len(stack[t]) \in Nat /\ Len(stack[t]) # 0 /\ DOMAIN stack[t] = 1 .. Len(stack[t])
  BY <1>1
<1>3. stack[t][Len(stack[t])] \in Frames
  BY <1>1, <1>2
<1> QED
  BY <1>2, <1>3 DEF Depth, Top

(* Moving the innermost call to another stage.                             *)
LEMMA GotoStack ==
  ASSUME TypeOK, NEW t \in Threads, stack[t] # <<>>, NEW at \in Stages
  PROVE  /\ Goto(t, at) \in [Threads -> Seq(Frames)]
         /\ \A r \in Threads \ {t} : Goto(t, at)[r] = stack[r]
         /\ Len(Goto(t, at)[t]) = Depth(t) /\ DOMAIN Goto(t, at)[t] = 1 .. Depth(t)
         /\ \A i \in 1 .. Depth(t) : i < Depth(t) => Goto(t, at)[t][i] = stack[t][i]
         /\ Goto(t, at)[t][Depth(t)] = [Top(t) EXCEPT !.at = at]
<1>1. stack \in [Threads -> Seq(Frames)] /\ stack[t] \in Seq(Frames)
  BY DEF TypeOK
<1>2. Depth(t) \in DOMAIN stack[t] /\ DOMAIN stack[t] = 1 .. Depth(t) /\ Top(t) \in Frames
  BY TopFrame
<1>3. [Top(t) EXCEPT !.at = at] \in Frames
  BY <1>2 DEF Frames
<1> DEFINE s == [stack[t] EXCEPT ![Depth(t)] = [Top(t) EXCEPT !.at = at]]
<1>4. Goto(t, at) = [stack EXCEPT ![t] = s]
  BY DEF Goto, Top
<1>5. s \in Seq(Frames) /\ Len(s) = Depth(t) /\ DOMAIN s = 1 .. Depth(t)
  BY <1>1, <1>2, <1>3 DEF Depth
<1> HIDE DEF s
<1>6. Goto(t, at)[t] = s /\ Goto(t, at) \in [Threads -> Seq(Frames)]
  BY <1>1, <1>4, <1>5
<1>7. \A r \in Threads \ {t} : Goto(t, at)[r] = stack[r]
  BY <1>1, <1>4
<1>8. s[Depth(t)] = [Top(t) EXCEPT !.at = at]
  BY <1>1, <1>2 DEF s
<1>9. \A i \in 1 .. Depth(t) : i < Depth(t) => s[i] = stack[t][i]
  BY <1>1, <1>2 DEF s
<1> QED
  BY <1>5, <1>6, <1>7, <1>8, <1>9

(* Returning from the innermost call.                                      *)
LEMMA PopStack ==
  ASSUME TypeOK, NEW t \in Threads, stack[t] # <<>>
  PROVE  /\ Pop(t) \in [Threads -> Seq(Frames)]
         /\ \A r \in Threads \ {t} : Pop(t)[r] = stack[r]
         /\ Len(Pop(t)[t]) = Depth(t) - 1 /\ DOMAIN Pop(t)[t] = 1 .. Depth(t) - 1
         /\ \A i \in 1 .. Depth(t) - 1 : Pop(t)[t][i] = stack[t][i]
<1>1. stack \in [Threads -> Seq(Frames)] /\ stack[t] \in Seq(Frames)
  BY DEF TypeOK
<1>2. Depth(t) \in Nat \ {0} /\ DOMAIN stack[t] = 1 .. Depth(t) /\ Len(stack[t]) = Depth(t)
  BY TopFrame DEF Depth
<1> DEFINE s == SubSeq(stack[t], 1, Depth(t) - 1)
<1>3. s \in Seq(Frames) /\ Len(s) = Depth(t) - 1 /\ DOMAIN s = 1 .. Depth(t) - 1
  BY <1>1, <1>2
<1>4. \A i \in 1 .. Depth(t) - 1 : s[i] = stack[t][i]
  BY <1>1, <1>2
<1> HIDE DEF s
<1>5. Pop(t) = [stack EXCEPT ![t] = s]
  BY DEF Pop, s
<1> QED
  BY <1>1, <1>3, <1>4, <1>5

(* Calling Bind, or a capture.                                             *)
LEMMA PushStack ==
  ASSUME NEW S \in [Threads -> Seq(Frames)], NEW t \in Threads, NEW f \in Frames
  PROVE  LET P == [S EXCEPT ![t] = Append(@, f)] IN
         /\ P \in [Threads -> Seq(Frames)]
         /\ \A r \in Threads \ {t} : P[r] = S[r]
         /\ Len(P[t]) = Len(S[t]) + 1 /\ DOMAIN P[t] = 1 .. Len(S[t]) + 1
         /\ \A i \in 1 .. Len(S[t]) : P[t][i] = S[t][i]
         /\ P[t][Len(S[t]) + 1] = f
<1>1. S[t] \in Seq(Frames) /\ Len(S[t]) \in Nat
  OBVIOUS
<1> DEFINE s == Append(S[t], f)
<1>2. s \in Seq(Frames) /\ Len(s) = Len(S[t]) + 1 /\ DOMAIN s = 1 .. Len(S[t]) + 1
  BY <1>1
<1>3. (\A i \in 1 .. Len(S[t]) : s[i] = S[t][i]) /\ s[Len(S[t]) + 1] = f
  BY <1>1
<1> HIDE DEF s
<1>4. [S EXCEPT ![t] = Append(@, f)] = [S EXCEPT ![t] = s]
  BY DEF s
<1> QED
  BY <1>2, <1>3, <1>4

(* The calls of a goroutine that hold read locks are finitely many.        *)
LEMMA ReadingFinite ==
  ASSUME NEW s \in Seq(Frames)
  PROVE  IsFiniteSet(ReadingOf(s)) /\ ReadingOf(s) \subseteq 1 .. Len(s)
<1>1. DOMAIN s = 1 .. Len(s) /\ Len(s) \in Nat
  OBVIOUS
<1>2. IsFiniteSet(1 .. Len(s))
  BY <1>1, FS_Interval
<1>3. ReadingOf(s) \subseteq 1 .. Len(s)
  BY <1>1 DEF ReadingOf
<1> QED
  BY <1>2, <1>3, FS_Subset

(* Nothing has happened before the first call.                             *)
LEMMA InitInv == Init => IInv
<1> SUFFICES ASSUME Init PROVE IInv
  OBVIOUS
<1>1. \A t \in Threads : stack[t] = <<>> /\ DOMAIN stack[t] = {}
  BY DEF Init
<1>2. TypeOK
  <2>1. <<>> \in Seq(Frames)
    OBVIOUS
  <2>2. stack \in [Threads -> Seq(Frames)]
    BY <2>1 DEF Init
  <2>3. starts \in 0 .. MaxStarts
    BY DebugLockAssumption DEF Init
  <2> QED
    BY <2>2, <2>3 DEF Init, TypeOK
<1>3. Nesting /\ OneWriter /\ WriterHolds /\ Excluded
  BY <1>1 DEF Init, Nesting, OneWriter, WriterHolds, Excluded
<1>4. Counted
  <2>1. \A t \in Threads : ReadingOf(stack[t]) = {}
    BY <1>1 DEF ReadingOf
  <2> QED
    BY <2>1, FS_EmptySet DEF Counted, Init
<1> QED
  BY <1>2, <1>3, <1>4 DEF IInv

(* A step that neither takes nor releases debugLock: the calls under way   *)
(* keep what they hold, and the new ones hold nothing yet.                 *)
LEMMA HoldingsKept ==
  ASSUME IInv, NEW t \in Threads,
         stack' \in [Threads -> Seq(Frames)],
         \A r \in Threads \ {t} : stack'[r] = stack[r],
         DOMAIN stack[t] \subseteq DOMAIN stack'[t],
         \A i \in DOMAIN stack[t] :
           /\ Announced(stack'[t][i]) <=> Announced(stack[t][i])
           /\ Writing(stack'[t][i]) <=> Writing(stack[t][i])
           /\ Reading(stack'[t][i]) <=> Reading(stack[t][i]),
         \A i \in DOMAIN stack'[t] \ DOMAIN stack[t] :
           ~Announced(stack'[t][i]) /\ ~Writing(stack'[t][i]) /\ ~Reading(stack'[t][i]),
         \A i \in DOMAIN stack'[t] : i < Len(stack'[t]) => stack'[t][i].at = "replace",
         UNCHANGED <<readers, pending, writer, debug>>
  PROVE  Nesting' /\ OneWriter' /\ WriterHolds' /\ Excluded' /\ Counted'
<1>1. Nesting'
  BY DEF IInv, Nesting, Depth
<1>2. \A r \in Threads : \A i \in DOMAIN stack'[r] :
        /\ Announced(stack'[r][i]) => i \in DOMAIN stack[r] /\ Announced(stack[r][i])
        /\ Writing(stack'[r][i]) => i \in DOMAIN stack[r] /\ Writing(stack[r][i])
  OBVIOUS
<1>3. \A r \in Threads : \A i \in DOMAIN stack[r] :
        /\ i \in DOMAIN stack'[r]
        /\ Announced(stack[r][i]) => Announced(stack'[r][i])
        /\ Writing(stack[r][i]) => Writing(stack'[r][i])
  OBVIOUS
<1>4. OneWriter'
  BY <1>2, <1>3 DEF IInv, TypeOK, OneWriter
<1>5. WriterHolds'
  BY <1>2, <1>3 DEF IInv, TypeOK, WriterHolds
<1>6. Excluded'
  BY DEF IInv, Excluded
<1>7. Counted'
  <2>1. \A r \in Threads : ReadingOf(stack'[r]) = ReadingOf(stack[r])
    BY DEF ReadingOf
  <2> QED
    BY <2>1 DEF IInv, Counted
<1> QED
  BY <1>1, <1>4, <1>5, <1>6, <1>7

(* Bind and a request for debugging begin a call that holds nothing.       *)
LEMMA StartInv ==
  ASSUME IInv, NEW t \in Threads, NEW c \in Collections,
         Bind(t, c) \/ AskForDebugging(t, c)
  PROVE  IInv'
<1>1. TypeOK /\ stack[t] = <<>> /\ starts < MaxStarts /\ starts' = starts + 1
  BY DEF IInv, Bind, AskForDebugging
<1>2. UNCHANGED <<readers, pending, writer, debug, replaced, asked>>
  BY DEF Bind, AskForDebugging
<1>3. PICK f \in {Frame(c, TRUE, "rlock"), Frame(c, FALSE, "lock")} :
        stack' = stack \/ stack' = [stack EXCEPT ![t] = <<f>>]
  BY DEF Bind, AskForDebugging
<1>4. f \in Frames /\ ~Announced(f) /\ ~Writing(f) /\ ~Reading(f)
  <2>1. CASE f = Frame(c, TRUE, "rlock")
    <3>1. f = [coll |-> c, real |-> TRUE, at |-> "rlock"]
      BY <2>1 DEF Frame
    <3>2. f \in Frames /\ f.real = TRUE /\ f.at = "rlock"
      BY <3>1 DEF Frames, Stages
    <3> QED
      BY <3>2 DEF Announced, Writing, Reading
  <2>2. CASE f = Frame(c, FALSE, "lock")
    <3>1. f = [coll |-> c, real |-> FALSE, at |-> "lock"]
      BY <2>2 DEF Frame
    <3>2. f \in Frames /\ f.real = FALSE /\ f.at = "lock"
      BY <3>1 DEF Frames, Stages
    <3> QED
      BY <3>2 DEF Announced, Writing, Reading
  <2> QED
    BY <2>1, <2>2
<1>5. <<f>> \in Seq(Frames) /\ DOMAIN <<f>> = {1} /\ Len(<<f>>) = 1 /\ <<f>>[1] = f
  BY <1>4
<1>6. stack' \in [Threads -> Seq(Frames)] /\ \A r \in Threads \ {t} : stack'[r] = stack[r]
  BY <1>1, <1>3, <1>5 DEF TypeOK
<1>7. stack'[t] = <<>> \/ stack'[t] = <<f>>
  BY <1>1, <1>3, <1>5 DEF TypeOK
<1>8. TypeOK'
  BY <1>1, <1>2, <1>6, DebugLockAssumption DEF TypeOK
<1>9. DOMAIN stack[t] = {}
  BY <1>1
<1>10. \A i \in DOMAIN stack'[t] :
         /\ ~Announced(stack'[t][i]) /\ ~Writing(stack'[t][i]) /\ ~Reading(stack'[t][i])
         /\ ~(i < Len(stack'[t]))
  <2>1. CASE stack'[t] = <<>>
    BY <2>1
  <2>2. CASE stack'[t] = <<f>>
    <3>1. DOMAIN stack'[t] = {1} /\ Len(stack'[t]) = 1 /\ stack'[t][1] = f
      BY <1>5, <2>2
    <3> QED
      BY <1>4, <3>1
  <2> QED
    BY <1>7, <2>1, <2>2
<1>11. Nesting' /\ OneWriter' /\ WriterHolds' /\ Excluded' /\ Counted'
  BY <1>2, <1>6, <1>9, <1>10, HoldingsKept
<1> QED
  BY <1>8, <1>11 DEF IInv

(* Inside doBind a call keeps its lock, whatever it does with ReplaceSelf. *)
LEMMA StageMoved ==
  ASSUME TypeOK, NEW t \in Threads, stack[t] # <<>>,
         Top(t).at \in {"doBind", "replace"}, NEW at \in {"replace", "after"}
  PROVE  \A i \in 1 .. Depth(t) :
           /\ Announced(Goto(t, at)[t][i]) <=> Announced(stack[t][i])
           /\ Writing(Goto(t, at)[t][i]) <=> Writing(stack[t][i])
           /\ Reading(Goto(t, at)[t][i]) <=> Reading(stack[t][i])
<1>1. at \in Stages
  BY DEF Stages
<1>2. Depth(t) \in Nat /\ Top(t) \in Frames /\ Top(t) = stack[t][Depth(t)]
  BY TopFrame
<1>3. [Top(t) EXCEPT !.at = at].real = Top(t).real /\ [Top(t) EXCEPT !.at = at].at = at
  BY <1>2 DEF Frames
<1>4. /\ Goto(t, at)[t][Depth(t)] = [Top(t) EXCEPT !.at = at]
      /\ \A i \in 1 .. Depth(t) : i < Depth(t) => Goto(t, at)[t][i] = stack[t][i]
  BY <1>1, GotoStack
<1>5. SUFFICES ASSUME NEW i \in 1 .. Depth(t)
               PROVE  /\ Announced(Goto(t, at)[t][i]) <=> Announced(stack[t][i])
                      /\ Writing(Goto(t, at)[t][i]) <=> Writing(stack[t][i])
                      /\ Reading(Goto(t, at)[t][i]) <=> Reading(stack[t][i])
  OBVIOUS
<1>6. CASE i < Depth(t)
  BY <1>4, <1>6
<1>7. CASE i = Depth(t)
  <2>1. Goto(t, at)[t][i].real = stack[t][i].real /\ Goto(t, at)[t][i].at = at
    BY <1>2, <1>3, <1>4, <1>7
  <2>2. stack[t][i].at \in {"doBind", "replace"}
    BY <1>2, <1>7
  <2> QED
    BY <2>1, <2>2 DEF Announced, Writing, Reading
<1> QED
  BY <1>2, <1>6, <1>7

(* So does one whose ReplaceSelf is called, with or without a Bind in it.  *)
LEMMA CallReplaceSelfInv ==
  ASSUME IInv, NEW t \in Threads, CallReplaceSelf(t)
  PROVE  IInv'
<1> DEFINE c == Top(t).coll
           G == Goto(t, "replace")
           f == Frame(Inner[c], TRUE, "rlock")
<1>1. /\ TypeOK /\ stack[t] # <<>> /\ Top(t).at = "doBind" /\ c \in Generated
      /\ asked' = [asked EXCEPT ![c] = @ + 1]
      /\ UNCHANGED <<readers, pending, writer, debug, replaced, starts>>
  BY DEF IInv, CallReplaceSelf, InDoBind, At
<1>2. stack' = G \/ (Inner[c] # None /\ stack' = [G EXCEPT ![t] = Append(@, f)])
  BY DEF CallReplaceSelf
<1> HIDE DEF c
<1>3. Depth(t) \in Nat \ {0} /\ DOMAIN stack[t] = 1 .. Depth(t) /\ Top(t) \in Frames
  BY <1>1, TopFrame
<1>4. /\ G \in [Threads -> Seq(Frames)] /\ \A r \in Threads \ {t} : G[r] = stack[r]
      /\ Len(G[t]) = Depth(t) /\ DOMAIN G[t] = 1 .. Depth(t)
      /\ \A i \in 1 .. Depth(t) : i < Depth(t) => G[t][i] = stack[t][i]
      /\ G[t][Depth(t)] = [Top(t) EXCEPT !.at = "replace"]
  BY <1>1, GotoStack DEF Stages
<1>5. G[t][Depth(t)].at = "replace"
  BY <1>3, <1>4 DEF Frames
<1>6. \A i \in 1 .. Depth(t) : G[t][i].at = "replace"
  BY <1>3, <1>4, <1>5 DEF IInv, Nesting
<1>7. \A i \in 1 .. Depth(t) :
        /\ Announced(G[t][i]) <=> Announced(stack[t][i])
        /\ Writing(G[t][i]) <=> Writing(stack[t][i])
        /\ Reading(G[t][i]) <=> Reading(stack[t][i])
  BY <1>1, StageMoved
<1> HIDE DEF G
<1>8. CASE stack' = G
  <2>1. TypeOK'
    BY <1>1, <1>4, <1>8 DEF TypeOK
  <2>2. \A i \in DOMAIN stack'[t] : i < Len(stack'[t]) => stack'[t][i].at = "replace"
    BY <1>4, <1>6, <1>8
  <2>3. DOMAIN stack'[t] = DOMAIN stack[t]
    BY <1>3, <1>4, <1>8
  <2>4. Nesting' /\ OneWriter' /\ WriterHolds' /\ Excluded' /\ Counted'
    BY <1>1, <1>3, <1>4, <1>7, <1>8, <2>2, <2>3, HoldingsKept
  <2> QED
    BY <2>1, <2>4 DEF IInv
<1>9. CASE Inner[c] # None /\ stack' = [G EXCEPT ![t] = Append(@, f)]
  <2>1. Inner[c] \in Collections
    BY <1>1, <1>9, DebugLockAssumption
  <2>2. f = [coll |-> Inner[c], real |-> TRUE, at |-> "rlock"]
    BY DEF Frame
  <2> HIDE DEF f
  <2>3. f \in Frames /\ f.real = TRUE /\ f.at = "rlock"
    BY <2>1, <2>2 DEF Frames, Stages
  <2>4. ~Announced(f) /\ ~Writing(f) /\ ~Reading(f)
    BY <2>3 DEF Announced, Writing, Reading
  <2>5. /\ stack' \in [Threads -> Seq(Frames)]
        /\ \A r \in Threads \ {t} : stack'[r] = stack[r]
        /\ Len(stack'[t]) = Depth(t) + 1 /\ DOMAIN stack'[t] = 1 .. Depth(t) + 1
        /\ \A i \in 1 .. Depth(t) : stack'[t][i] = G[t][i]
        /\ stack'[t][Depth(t) + 1] = f
    BY <1>4, <1>9, <2>3, PushStack
  <2>6. TypeOK'
    BY <1>1, <2>5 DEF TypeOK
  <2>7. \A i \in DOMAIN stack'[t] : i < Len(stack'[t]) => stack'[t][i].at = "replace"
    BY <1>3, <1>6, <2>5
  <2>8. DOMAIN stack[t] \subseteq DOMAIN stack'[t]
    BY <1>3, <2>5
  <2>9. \A i \in DOMAIN stack'[t] \ DOMAIN stack[t] : stack'[t][i] = f
    BY <1>3, <2>5
  <2>10. \A i \in DOMAIN stack[t] :
           /\ Announced(stack'[t][i]) <=> Announced(stack[t][i])
           /\ Writing(stack'[t][i]) <=> Writing(stack[t][i])
           /\ Reading(stack'[t][i]) <=> Reading(stack[t][i])
    BY <1>3, <1>7, <2>5
  <2>11. UNCHANGED <<readers, pending, writer, debug>>
    BY <1>1
  <2>12. Nesting' /\ OneWriter' /\ WriterHolds' /\ Excluded' /\ Counted'
    BY <2>4, <2>5, <2>7, <2>8, <2>9, <2>10, <2>11, HoldingsKept
  <2> QED
    BY <2>6, <2>12 DEF IInv
<1> QED
  BY <1>2, <1>8, <1>9

(* And one that finishes doBind.                                           *)
LEMMA DoBindInv ==
  ASSUME IInv, NEW t \in Threads, Substitute(t) \/ NothingToReplace(t)
  PROVE  IInv'
<1> DEFINE G == Goto(t, "after")
<1>1. /\ TypeOK /\ stack[t] # <<>> /\ Top(t).at \in {"doBind", "replace"} /\ stack' = G
      /\ UNCHANGED <<readers, pending, writer, debug, asked, starts>>
  BY DEF IInv, Substitute, NothingToReplace, InDoBind, At
<1>2. Depth(t) \in Nat \ {0} /\ DOMAIN stack[t] = 1 .. Depth(t) /\ Top(t) \in Frames
  BY <1>1, TopFrame
<1>3. replaced' \subseteq Collections
  BY <1>1, <1>2, DebugLockAssumption DEF TypeOK, Frames, Substitute, NothingToReplace
<1>4. /\ G \in [Threads -> Seq(Frames)] /\ \A r \in Threads \ {t} : G[r] = stack[r]
      /\ Len(G[t]) = Depth(t) /\ DOMAIN G[t] = 1 .. Depth(t)
      /\ \A i \in 1 .. Depth(t) : i < Depth(t) => G[t][i] = stack[t][i]
  BY <1>1, GotoStack DEF Stages
<1>5. \A i \in 1 .. Depth(t) :
        /\ Announced(G[t][i]) <=> Announced(stack[t][i])
        /\ Writing(G[t][i]) <=> Writing(stack[t][i])
        /\ Reading(G[t][i]) <=> Reading(stack[t][i])
  BY <1>1, StageMoved
<1> HIDE DEF G
<1>6. TypeOK'
  BY <1>1, <1>3, <1>4 DEF TypeOK
<1>7. \A i \in DOMAIN stack'[t] : i < Len(stack'[t]) => stack'[t][i].at = "replace"
  BY <1>1, <1>2, <1>4 DEF IInv, Nesting
<1>8. DOMAIN stack'[t] = DOMAIN stack[t]
  BY <1>1, <1>2, <1>4
<1>9. Nesting' /\ OneWriter' /\ WriterHolds' /\ Excluded' /\ Counted'
  BY <1>1, <1>2, <1>4, <1>5, <1>7, <1>8, HoldingsKept
<1> QED
  BY <1>6, <1>9 DEF IInv

(* The innermost call moves on, the others stay.                           *)
LEMMA TopMoved ==
  ASSUME IInv, NEW t \in Threads, stack[t] # <<>>, NEW at \in Stages, stack' = Goto(t, at)
  PROVE  /\ stack' \in [Threads -> Seq(Frames)] /\ Nesting'
         /\ Depth(t) \in 1 .. Depth(t) /\ DOMAIN stack[t] = 1 .. Depth(t)
         /\ stack[t][Depth(t)] = Top(t)
         /\ \A r \in Threads : DOMAIN stack'[r] = DOMAIN stack[r]
         /\ \A r \in Threads : \A i \in DOMAIN stack[r] :
              ~(r = t /\ i = Depth(t)) => stack'[r][i] = stack[r][i]
         /\ stack'[t][Depth(t)].at = at /\ stack'[t][Depth(t)].real = Top(t).real
<1>1. TypeOK
  BY DEF IInv
<1>2. Depth(t) \in Nat \ {0} /\ DOMAIN stack[t] = 1 .. Depth(t)
      /\ Top(t) \in Frames /\ Top(t) = stack[t][Depth(t)]
  BY <1>1, TopFrame
<1>3. /\ stack' \in [Threads -> Seq(Frames)] /\ \A r \in Threads \ {t} : stack'[r] = stack[r]
      /\ Len(stack'[t]) = Depth(t) /\ DOMAIN stack'[t] = 1 .. Depth(t)
      /\ \A i \in 1 .. Depth(t) : i < Depth(t) => stack'[t][i] = stack[t][i]
      /\ stack'[t][Depth(t)] = [Top(t) EXCEPT !.at = at]
  BY <1>1, GotoStack
<1>4. stack'[t][Depth(t)].at = at /\ stack'[t][Depth(t)].real = Top(t).real
  BY <1>2, <1>3 DEF Frames
<1>5. Nesting'
  BY <1>2, <1>3 DEF IInv, Nesting, Depth
<1> QED
  BY <1>2, <1>3, <1>4, <1>5

(* Bind takes debugLock for reading when no writer holds or awaits it.     *)
LEMMA RLockInv ==
  ASSUME IInv, NEW t \in Threads, RLock(t)
  PROVE  IInv'
<1> DEFINE d == Depth(t)
<1>1. /\ TypeOK /\ stack[t] # <<>> /\ Top(t).real /\ Top(t).at = "rlock"
      /\ pending = None /\ readers' = [readers EXCEPT ![t] = @ + 1]
      /\ stack' = Goto(t, "doBind")
      /\ UNCHANGED <<pending, writer, debug, replaced, asked, starts>>
  BY DEF IInv, RLock, At
<1>2. "doBind" \in Stages
  BY DEF Stages
<1>3. /\ stack' \in [Threads -> Seq(Frames)] /\ Nesting'
      /\ d \in 1 .. d /\ DOMAIN stack[t] = 1 .. d /\ stack[t][d] = Top(t)
      /\ \A r \in Threads : DOMAIN stack'[r] = DOMAIN stack[r]
      /\ \A r \in Threads : \A i \in DOMAIN stack[r] :
           ~(r = t /\ i = d) => stack'[r][i] = stack[r][i]
      /\ stack'[t][d].at = "doBind" /\ stack'[t][d].real = Top(t).real
  BY <1>1, <1>2, TopMoved
<1> HIDE DEF d
<1>4. TypeOK'
  BY <1>1, <1>3 DEF TypeOK
<1>5. \A r \in Threads : \A i \in DOMAIN stack[r] :
        /\ Announced(stack'[r][i]) <=> Announced(stack[r][i])
        /\ Writing(stack'[r][i]) <=> Writing(stack[r][i])
  BY <1>1, <1>3 DEF Announced, Writing
<1>6. OneWriter'
  BY <1>1, <1>3, <1>5 DEF IInv, OneWriter
<1>7. writer = None
  <2>1. SUFFICES ASSUME writer # None PROVE FALSE
    OBVIOUS
  <2>2. PICK i \in DOMAIN stack[writer] : Writing(stack[writer][i])
    BY <2>1 DEF IInv, WriterHolds
  <2>3. Announced(stack[writer][i]) /\ writer \in Threads
    BY <1>1, <2>1, <2>2 DEF Writing, Announced, TypeOK
  <2> QED
    BY <1>1, <2>3, DebugLockAssumption DEF IInv, OneWriter
<1>8. WriterHolds' /\ Excluded'
  BY <1>1, <1>3, <1>5, <1>7 DEF IInv, WriterHolds, Excluded
<1>9. Counted'
  <2>1. \A r \in Threads \ {t} : ReadingOf(stack'[r]) = ReadingOf(stack[r])
    BY <1>3 DEF ReadingOf
  <2>2. d \notin ReadingOf(stack[t])
    BY <1>1, <1>3 DEF ReadingOf, Reading
  <2>3. ReadingOf(stack'[t]) = ReadingOf(stack[t]) \cup {d}
    BY <1>1, <1>3 DEF ReadingOf, Reading
  <2>4. IsFiniteSet(ReadingOf(stack[t]))
    BY <1>1, ReadingFinite DEF TypeOK
  <2>5. Cardinality(ReadingOf(stack'[t])) = Cardinality(ReadingOf(stack[t])) + 1
    BY <2>2, <2>3, <2>4, FS_AddElement
  <2>6. readers'[t] = readers[t] + 1 /\ \A r \in Threads \ {t} : readers'[r] = readers[r]
    BY <1>1 DEF TypeOK
  <2> QED
    BY <2>1, <2>5, <2>6 DEF IInv, Counted
<1> QED
  BY <1>3, <1>4, <1>6, <1>8, <1>9 DEF IInv

(* A capture announces itself when no writer has.                          *)
LEMMA AnnounceInv ==
  ASSUME IInv, NEW t \in Threads, Announce(t)
  PROVE  IInv'
<1> DEFINE d == Depth(t)
<1>1. /\ TypeOK /\ stack[t] # <<>> /\ ~Top(t).real /\ Top(t).at = "lock"
      /\ pending = None /\ pending' = t /\ stack' = Goto(t, "drain")
      /\ UNCHANGED <<readers, writer, debug, replaced, asked, starts>>
  BY DEF IInv, Announce, At
<1>2. "drain" \in Stages
  BY DEF Stages
<1>3. /\ stack' \in [Threads -> Seq(Frames)] /\ Nesting'
      /\ d \in 1 .. d /\ DOMAIN stack[t] = 1 .. d /\ stack[t][d] = Top(t)
      /\ \A r \in Threads : DOMAIN stack'[r] = DOMAIN stack[r]
      /\ \A r \in Threads : \A i \in DOMAIN stack[r] :
           ~(r = t /\ i = d) => stack'[r][i] = stack[r][i]
      /\ stack'[t][d].at = "drain" /\ stack'[t][d].real = Top(t).real
  BY <1>1, <1>2, TopMoved
<1> HIDE DEF d
<1>4. TypeOK'
  BY <1>1, <1>3 DEF TypeOK
<1>5. \A r \in Threads : \A i \in DOMAIN stack[r] :
        /\ Writing(stack'[r][i]) <=> Writing(stack[r][i])
        /\ Reading(stack'[r][i]) <=> Reading(stack[r][i])
  BY <1>1, <1>3 DEF Reading, Writing
<1>6. OneWriter'
  <2>1. \A r \in Threads : \A i \in DOMAIN stack[r] : ~Announced(stack[r][i])
    BY <1>1, DebugLockAssumption DEF IInv, OneWriter
  <2>2. \A r \in Threads : \A i \in DOMAIN stack'[r] :
          Announced(stack'[r][i]) => r = t /\ i = d
    BY <1>3, <2>1
  <2>3. Announced(stack'[t][d])
    BY <1>1, <1>3 DEF Announced
  <2>4. d \in DOMAIN stack'[t]
    BY <1>3
  <2> QED
    BY <1>1, <2>2, <2>3, <2>4 DEF OneWriter
<1>7. WriterHolds' /\ Excluded'
  BY <1>1, <1>3, <1>5 DEF IInv, TypeOK, WriterHolds, Excluded
<1>8. Counted'
  <2>1. \A r \in Threads : ReadingOf(stack'[r]) = ReadingOf(stack[r])
    BY <1>3, <1>5 DEF ReadingOf
  <2> QED
    BY <1>1, <2>1 DEF IInv, Counted
<1> QED
  BY <1>3, <1>4, <1>6, <1>7, <1>8 DEF IInv

(* When the readers have left, it finds debug clear, and sets it.          *)
LEMMA LockInv ==
  ASSUME IInv, NEW t \in Threads, Lock(t)
  PROVE  IInv'
<1> DEFINE d == Depth(t)
<1>1. /\ TypeOK /\ stack[t] # <<>> /\ ~Top(t).real /\ Top(t).at = "drain"
      /\ \A r \in Threads : readers[r] = 0
      /\ writer' = t /\ debug' = TRUE
      /\ stack' = IF debug THEN Pop(t) ELSE Goto(t, "doBind")
      /\ UNCHANGED <<readers, pending, replaced, asked, starts>>
  BY DEF IInv, Lock, At
<1>2. d \in DOMAIN stack[t] /\ stack[t][d] = Top(t)
  BY <1>1, TopFrame
<1>3. Announced(stack[t][d]) /\ ~Writing(stack[t][d])
  BY <1>1, <1>2 DEF Announced, Writing
<1>4. pending = t
  BY <1>2, <1>3 DEF IInv, OneWriter
<1>5. writer = None /\ ~debug
  <2>1. SUFFICES ASSUME writer # None PROVE FALSE
    BY DEF IInv, WriterHolds
  <2>2. PICK i \in DOMAIN stack[writer] : Writing(stack[writer][i])
    BY <2>1 DEF IInv, WriterHolds
  <2>3. Announced(stack[writer][i]) /\ writer \in Threads
    BY <1>1, <2>1, <2>2 DEF Writing, Announced, TypeOK
  <2>4. writer = t
    BY <1>4, <2>2, <2>3 DEF IInv, OneWriter
  <2>5. i = d
    BY <1>2, <1>3, <2>2, <2>3, <2>4 DEF IInv, OneWriter
  <2> QED
    BY <1>3, <2>2, <2>4, <2>5
<1>6. stack' = Goto(t, "doBind") /\ "doBind" \in Stages
  BY <1>1, <1>5 DEF Stages
<1>7. /\ stack' \in [Threads -> Seq(Frames)] /\ Nesting'
      /\ d \in 1 .. d /\ DOMAIN stack[t] = 1 .. d
      /\ \A r \in Threads : DOMAIN stack'[r] = DOMAIN stack[r]
      /\ \A r \in Threads : \A i \in DOMAIN stack[r] :
           ~(r = t /\ i = d) => stack'[r][i] = stack[r][i]
      /\ stack'[t][d].at = "doBind" /\ stack'[t][d].real = Top(t).real
  BY <1>1, <1>6, TopMoved
<1> HIDE DEF d
<1>8. TypeOK'
  BY <1>1, <1>7 DEF TypeOK
<1>9. \A r \in Threads : \A i \in DOMAIN stack[r] :
        /\ Announced(stack'[r][i]) <=> Announced(stack[r][i])
        /\ Reading(stack'[r][i]) <=> Reading(stack[r][i])
  BY <1>1, <1>2, <1>7 DEF Announced, Reading
<1>10. OneWriter'
  BY <1>1, <1>4, <1>7, <1>9 DEF IInv, OneWriter
<1>11. WriterHolds'
  <2>1. \A r \in Threads : \A i \in DOMAIN stack[r] : ~Writing(stack[r][i])
    BY <1>5, DebugLockAssumption DEF IInv, WriterHolds
  <2>2. \A r \in Threads : \A i \in DOMAIN stack'[r] : Writing(stack'[r][i]) => r = t
    BY <1>7, <2>1
  <2>3. Writing(stack'[t][d]) /\ d \in DOMAIN stack'[t]
    BY <1>1, <1>7 DEF Writing
  <2>4. writer' # None
    BY <1>1, DebugLockAssumption
  <2> QED
    BY <1>1, <2>2, <2>3, <2>4 DEF WriterHolds
<1>12. Excluded'
  BY <1>1 DEF Excluded
<1>13. Counted'
  <2>1. \A r \in Threads : ReadingOf(stack'[r]) = ReadingOf(stack[r])
    BY <1>7, <1>9 DEF ReadingOf
  <2> QED
    BY <1>1, <2>1 DEF IInv, Counted
<1> QED
  BY <1>7, <1>8, <1>10, <1>11, <1>12, <1>13 DEF IInv

(* The only writer leaves, with the lock and the flag.                     *)
LEMMA UnlockInv ==
  ASSUME IInv, NEW t \in Threads, Unlock(t)
  PROVE  IInv'
<1> DEFINE d == Depth(t)
<1>1. /\ TypeOK /\ stack[t] # <<>> /\ ~Top(t).real /\ Top(t).at = "after"
      /\ debug' = FALSE /\ writer' = None /\ pending' = None /\ stack' = Pop(t)
      /\ UNCHANGED <<readers, replaced, asked, starts>>
  BY DEF IInv, Unlock, At
<1>2. d \in Nat \ {0} /\ DOMAIN stack[t] = 1 .. d /\ stack[t][d] = Top(t)
  BY <1>1, TopFrame
<1>3. /\ stack' \in [Threads -> Seq(Frames)]
      /\ \A r \in Threads \ {t} : stack'[r] = stack[r]
      /\ Len(stack'[t]) = d - 1 /\ DOMAIN stack'[t] = 1 .. d - 1
      /\ \A i \in 1 .. d - 1 : stack'[t][i] = stack[t][i]
  BY <1>1, PopStack
<1>4. Announced(stack[t][d]) /\ ~Reading(stack[t][d])
  BY <1>1, <1>2 DEF Announced, Reading
<1> HIDE DEF d
<1>5. TypeOK'
  BY <1>1, <1>3 DEF TypeOK
<1>6. Nesting'
  BY <1>2, <1>3 DEF IInv, Nesting, Depth, d
<1>7. \A r \in Threads : \A i \in DOMAIN stack'[r] :
        i \in DOMAIN stack[r] /\ stack'[r][i] = stack[r][i] /\ ~(r = t /\ i = d)
  BY <1>2, <1>3
<1>8. \A r \in Threads : \A i \in DOMAIN stack[r] :
        Announced(stack[r][i]) => r = t /\ i = d
  BY <1>2, <1>4 DEF IInv, OneWriter
<1>9. \A r \in Threads : \A i \in DOMAIN stack'[r] : ~Announced(stack'[r][i])
  BY <1>7, <1>8
<1>10. \A r \in Threads : \A i \in DOMAIN stack'[r] : ~Writing(stack'[r][i])
  BY <1>9 DEF Announced, Writing
<1>11. OneWriter' /\ WriterHolds' /\ Excluded'
  BY <1>1, <1>9, <1>10 DEF OneWriter, WriterHolds, Excluded
<1>12. Counted'
  <2>1. \A r \in Threads : ReadingOf(stack'[r]) = ReadingOf(stack[r])
    BY <1>2, <1>3, <1>4 DEF ReadingOf
  <2> QED
    BY <1>1, <2>1 DEF IInv, Counted
<1> QED
  BY <1>5, <1>6, <1>11, <1>12 DEF IInv

(* A Bind leaves with its read lock; one that failed begins a capture.     *)
LEMMA RUnlockInv ==
  ASSUME IInv, NEW t \in Threads, RUnlock(t)
  PROVE  IInv'
<1> DEFINE d == Depth(t)
           f == Frame(Top(t).coll, FALSE, "lock")
<1>1. /\ TypeOK /\ stack[t] # <<>> /\ Top(t).real /\ Top(t).at = "after"
      /\ readers' = [readers EXCEPT ![t] = @ - 1]
      /\ stack' = Pop(t) \/ stack' = [Pop(t) EXCEPT ![t] = Append(@, f)]
      /\ UNCHANGED <<pending, writer, debug, replaced, asked, starts>>
  BY DEF IInv, RUnlock, At
<1>2. d \in Nat \ {0} /\ DOMAIN stack[t] = 1 .. d /\ stack[t][d] = Top(t) /\ Top(t) \in Frames
  BY <1>1, TopFrame
<1>3. f = [coll |-> Top(t).coll, real |-> FALSE, at |-> "lock"]
  BY DEF Frame
<1> HIDE DEF f
<1>4. f \in Frames /\ f.real = FALSE /\ f.at = "lock"
  BY <1>2, <1>3 DEF Frames, Stages
<1>5. ~Announced(f) /\ ~Writing(f) /\ ~Reading(f)
  BY <1>4 DEF Announced, Writing, Reading
<1>6. Reading(stack[t][d]) /\ ~Announced(stack[t][d]) /\ ~Writing(stack[t][d])
  BY <1>1, <1>2 DEF Announced, Writing, Reading
<1>7. /\ Pop(t) \in [Threads -> Seq(Frames)]
      /\ \A r \in Threads \ {t} : Pop(t)[r] = stack[r]
      /\ Len(Pop(t)[t]) = d - 1 /\ DOMAIN Pop(t)[t] = 1 .. d - 1
      /\ \A i \in 1 .. d - 1 : Pop(t)[t][i] = stack[t][i]
  BY <1>1, PopStack
<1> HIDE DEF d
<1>8. /\ stack' \in [Threads -> Seq(Frames)]
      /\ \A r \in Threads \ {t} : stack'[r] = stack[r]
      /\ \A i \in 1 .. d - 1 : stack'[t][i] = stack[t][i]
      /\ \/ Len(stack'[t]) = d - 1 /\ DOMAIN stack'[t] = 1 .. d - 1
         \/ Len(stack'[t]) = d /\ DOMAIN stack'[t] = 1 .. d /\ stack'[t][d] = f
  <2>1. CASE stack' = Pop(t)
    BY <1>7, <2>1
  <2>2. CASE stack' = [Pop(t) EXCEPT ![t] = Append(@, f)]
    <3>1. /\ stack' \in [Threads -> Seq(Frames)]
          /\ \A r \in Threads \ {t} : stack'[r] = Pop(t)[r]
          /\ Len(stack'[t]) = d - 1 + 1 /\ DOMAIN stack'[t] = 1 .. d - 1 + 1
          /\ \A i \in 1 .. d - 1 : stack'[t][i] = Pop(t)[t][i]
          /\ stack'[t][d - 1 + 1] = f
      BY <1>4, <1>7, <2>2, PushStack
    <3>2. d - 1 + 1 = d
      BY <1>2
    <3> QED
      BY <1>7, <3>1, <3>2
  <2> QED
    BY <1>1, <2>1, <2>2
<1>9. /\ \A r \in Threads : \A i \in DOMAIN stack'[r] :
           ~(r = t /\ i = d) => i \in DOMAIN stack[r] /\ stack'[r][i] = stack[r][i]
      /\ \A r \in Threads : \A i \in DOMAIN stack[r] :
           ~(r = t /\ i = d) => i \in DOMAIN stack'[r] /\ stack'[r][i] = stack[r][i]
      /\ d \in DOMAIN stack'[t] => stack'[t][d] = f
  BY <1>2, <1>8
<1>10. readers[t] # 0
  <2>1. d \in ReadingOf(stack[t])
    BY <1>2, <1>6 DEF ReadingOf
  <2>2. IsFiniteSet(ReadingOf(stack[t]))
    BY <1>1, ReadingFinite DEF TypeOK
  <2>3. Cardinality(ReadingOf(stack[t])) # 0
    BY <2>1, <2>2, FS_EmptySet
  <2> QED
    BY <2>3 DEF IInv, Counted
<1>11. TypeOK'
  <2>1. readers[t] - 1 \in Nat
    BY <1>1, <1>10 DEF TypeOK
  <2>2. readers' \in [Threads -> Nat]
    BY <1>1, <2>1 DEF TypeOK
  <2> QED
    BY <1>1, <1>8, <2>2 DEF TypeOK
<1>12. Nesting'
  BY <1>2, <1>8 DEF IInv, Nesting, Depth, d
<1>13. writer = None
  BY <1>10 DEF IInv, Excluded
<1>14. OneWriter'
  <2>1. \A r \in Threads : \A i \in DOMAIN stack'[r] :
          Announced(stack'[r][i]) =>
            i \in DOMAIN stack[r] /\ Announced(stack[r][i]) /\ stack'[r][i] = stack[r][i]
    BY <1>5, <1>9
  <2>2. \A r \in Threads : \A i \in DOMAIN stack[r] :
          Announced(stack[r][i]) => i \in DOMAIN stack'[r] /\ Announced(stack'[r][i])
    BY <1>6, <1>9
  <2> QED
    BY <1>1, <2>1, <2>2 DEF IInv, TypeOK, OneWriter
<1>15. WriterHolds' /\ Excluded'
  <2>1. \A r \in Threads : \A i \in DOMAIN stack'[r] : ~Writing(stack'[r][i])
    BY <1>5, <1>9, <1>13, DebugLockAssumption DEF IInv, WriterHolds
  <2> QED
    BY <1>1, <1>13, <2>1 DEF IInv, WriterHolds, Excluded
<1>16. Counted'
  <2>1. \A r \in Threads \ {t} : ReadingOf(stack'[r]) = ReadingOf(stack[r])
    BY <1>8 DEF ReadingOf
  <2>2. ReadingOf(stack'[t]) = ReadingOf(stack[t]) \ {d}
    BY <1>5, <1>9 DEF ReadingOf
  <2>3. d \in ReadingOf(stack[t])
    BY <1>2, <1>6 DEF ReadingOf
  <2>4. IsFiniteSet(ReadingOf(stack[t]))
    BY <1>1, ReadingFinite DEF TypeOK
  <2>5. Cardinality(ReadingOf(stack'[t])) = Cardinality(ReadingOf(stack[t])) - 1
    BY <2>2, <2>3, <2>4, FS_RemoveElement
  <2>6. readers'[t] = readers[t] - 1 /\ \A r \in Threads \ {t} : readers'[r] = readers[r]
    BY <1>1 DEF TypeOK
  <2> QED
    BY <2>1, <2>5, <2>6 DEF IInv, Counted
<1> QED
  BY <1>11, <1>12, <1>14, <1>15, <1>16 DEF IInv

(* No step of a goroutine disturbs the invariant.                          *)
LEMMA NextInv == IInv /\ [Next]_vars => IInv'
<1> SUFFICES ASSUME IInv, [Next]_vars PROVE IInv'
  OBVIOUS
<1>1. CASE UNCHANGED vars
  BY <1>1 DEF vars, IInv, TypeOK, Nesting, OneWriter, WriterHolds, Excluded, Counted, Depth
<1>2. ASSUME NEW t \in Threads, Step(t) PROVE IInv'
  <2>1. CASE RLock(t)
    BY <2>1, RLockInv
  <2>2. CASE CallReplaceSelf(t)
    BY <2>2, CallReplaceSelfInv
  <2>3. CASE Substitute(t) \/ NothingToReplace(t)
    BY <2>3, DoBindInv
  <2>4. CASE RUnlock(t)
    BY <2>4, RUnlockInv
  <2>5. CASE Announce(t)
    BY <2>5, AnnounceInv
  <2>6. CASE Lock(t)
    BY <2>6, LockInv
  <2>7. CASE Unlock(t)
    BY <2>7, UnlockInv
  <2> QED
    BY <1>2, <2>1, <2>2, <2>3, <2>4, <2>5, <2>6, <2>7 DEF Step
<1>3. ASSUME NEW t \in Threads, NEW c \in Collections, Bind(t, c) \/ AskForDebugging(t, c)
      PROVE IInv'
  BY <1>3, StartInv
<1> QED
  BY <1>1, <1>2, <1>3 DEF Next

(* Captures and Binds exclude each other (debug.go:55-80, api.go:445-472): *)
(* the inductive invariant holds in every behaviour.                       *)
THEOREM CaptureInvariant == Spec => []IInv
<1>1. Init => IInv
  BY InitInv
<1>2. IInv /\ [Next]_vars => IInv'
  BY NextInv
<1> QED
  BY <1>1, <1>2, PTL DEF Spec

(* While debug is set one goroutine captures, the writer, and no Bind is   *)
(* under way: what doBind traces then belongs to one collection            *)
(* (debug.go:55-80).                                                       *)
THEOREM CapturesAlone == Spec => []CaptureAlone
<1>1. IInv => CaptureAlone
  <2> SUFFICES ASSUME IInv PROVE CaptureAlone
    OBVIOUS
  <2>1. \A t \in Threads : Capturing(t) <=> \E i \in DOMAIN stack[t] : Writing(stack[t][i])
    BY DEF Capturing, Writing
  <2>2. \A t \in Threads : Capturing(t) => writer = t
    BY <2>1 DEF IInv, WriterHolds
  <2>3. writer # None => writer \in Threads /\ Capturing(writer)
    BY <2>1 DEF IInv, TypeOK, WriterHolds
  <2>4. debug <=> writer # None
    BY DEF IInv, WriterHolds
  <2>5. debug <=> \E t \in Threads : Capturing(t)
    BY <2>2, <2>3, <2>4, DebugLockAssumption
  <2>6. debug => \A t \in Threads : readers[t] = 0
    BY <2>4 DEF IInv, Excluded
  <2>7. debug => \A t \in Threads : Capturing(t) <=> writer = t
    BY <2>2, <2>3, <2>4
  <2> QED
    BY <2>5, <2>6, <2>7 DEF CaptureAlone
<1> QED
  BY <1>1, CaptureInvariant, PTL

(* Every path out of Bind and of a capture releases what it took of        *)
(* debugLock, the nested ones and the failed ones too (api.go:445-472,     *)
(* debug.go:55-80).                                                        *)
THEOREM LocksReleased == Spec => []LockBalanced
<1>1. IInv => LockBalanced
  <2> SUFFICES ASSUME IInv PROVE LockBalanced
    OBVIOUS
  <2>1. \A t \in Threads :
          readers[t] = Cardinality({i \in DOMAIN stack[t] : Reading(stack[t][i])})
    BY DEF IInv, Counted, ReadingOf
  <2>2. ASSUME pending # None PROVE stack[pending] # <<>>
    <3>1. PICK i \in DOMAIN stack[pending] : Announced(stack[pending][i])
      BY <2>2 DEF IInv, OneWriter
    <3>2. DOMAIN <<>> = {}
      OBVIOUS
    <3> QED
      BY <3>1, <3>2
  <2>3. writer # None => Capturing(writer)
    BY DEF IInv, WriterHolds, Writing, Capturing
  <2> QED
    BY <2>1, <2>2, <2>3 DEF LockBalanced
<1> QED
  BY <1>1, CaptureInvariant, PTL
=============================================================================
