------------------------------ MODULE Replace ------------------------------
(***************************************************************************)
(* ReplaceNamed, InsertBeforeNamed and InsertAfterNamed (replace.go): the  *)
(* providers of a collection are threaded on a doubly linked list, and a   *)
(* cursor walks the list and carries out each directive it meets.  A       *)
(* provider is its place in the collection, with the name it was given and *)
(* the directive it carries.                                               *)
(***************************************************************************)
EXTENDS Naturals, Sequences

CONSTANTS
  Inputs,   \* the collections to edit
  Names,    \* names given with Provide
  None      \* no name; also Go's nil

Ops == {"none", "replace", "before", "after", "several"}
ProviderRecords == [origin : Names \cup {None}, op : Ops, target : Names \cup {None}]

ASSUME ReplaceAssumption ==
  /\ Inputs \subseteq Seq(ProviderRecords) /\ None \notin Names \cup Nat
  /\ \A in \in Inputs : \A i \in DOMAIN in : in[i].op \notin {"none", "several"} => in[i].target \in Names

VARIABLES
  input,      \* c.contents
  next, prev, \* the links of the nodes
  processed,  \* nodes that were moved or removed
  names,      \* the name index
  n,          \* the cursor
  stage,      \* "walk", then how it ended: "done", "error", "crash"
  contents    \* c.contents afterwards, as places of input

editVars == <<input, next, prev, processed, names, n, stage, contents>>

ListHead == 0
ListTail == Len(input) + 1
Positions == DOMAIN input
TailOf(in) == Len(in) + 1

(* Step 2, the name index: runs of adjacent providers of one name.  A name *)
(* with several runs is duplicated and cannot be a target.                 *)
RunStarts(in, x) == {i \in DOMAIN in : in[i].origin = x /\ (i = 1 \/ in[i - 1].origin # x)}
RunEnd(in, x, i) ==
  CHOOSE j \in i .. Len(in) : /\ \A k \in i .. j : in[k].origin = x
                              /\ j = Len(in) \/ in[j + 1].origin # x
Missing == [first |-> None, last |-> None]
Index(in, x) ==
  LET starts == RunStarts(in, x) IN
  IF \E i \in starts : starts = {i}
  THEN LET i == CHOOSE i \in starts : TRUE IN [first |-> i, last |-> RunEnd(in, x, i)]
  ELSE Missing

(* The back links: that of the tail is left nil. *)
BackLinks(in) == [i \in 0 .. TailOf(in) |-> IF i \in {0, TailOf(in)} THEN None ELSE i - 1]

(* Step 1, the list. *)
EditInit ==
  /\ input \in Inputs
  /\ next = [i \in 0 .. TailOf(input) |-> IF i = TailOf(input) THEN None ELSE i + 1]
  /\ prev = BackLinks(input)
  /\ processed = {}
  /\ names = [x \in Names |-> Index(input, x)]
  /\ n = 1
  /\ stage = IF \E i \in Positions : input[i].op = "several" THEN "error"
             ELSE IF \A i \in Positions : input[i].op = "none" THEN "done" ELSE "walk"
  /\ contents = [i \in Positions |-> i]

-----------------------------------------------------------------------------
(* Links: a record of the two functions, so that the edits compose. *)
Links == [next |-> next, prev |-> prev]

(* The nodes met from start on along the list, as long as they are in S;   *)
(* the last one is repeated.                                               *)
RunPast(L, start, S) ==   \* mutant: the node after the run belongs to it
  LET step == [e \in Positions |-> IF L.next[e] # ListTail /\ e \in S THEN L.next[e] ELSE e]
      walk[k \in 0 .. Len(input)] == IF k = 0 THEN start ELSE step[walk[k - 1]]
  IN walk
Run(L, start, S) ==
  LET step == [e \in Positions |-> IF L.next[e] \in S THEN L.next[e] ELSE e]
      walk[k \in 0 .. Len(input)] == IF k = 0 THEN start ELSE step[walk[k - 1]]
  IN walk
SnipEnd(run) == run[Len(input)]
SnipSet(run) == {run[k] : k \in DOMAIN run}

(* snip: the run start .. end is taken out of the list. *)
Snip(L, start, end) ==
  [next |-> [L.next EXCEPT ![L.prev[start]] = L.next[end]],
   prev |-> [L.prev EXCEPT ![L.next[end]] = L.prev[start]]]

(* insertBefore: the run start .. end is put in front of target, the       *)
(* assignments in the order of the code.                                   *)
InsertBeforeOpen(L, target, start, end) ==   \* mutant: end keeps its old next node
  LET p == L.prev[target] IN
  [next |-> [L.next EXCEPT ![p] = start],
   prev |-> [[L.prev EXCEPT ![start] = p] EXCEPT ![target] = end]]
InsertBefore(L, target, start, end) ==
  LET p == L.prev[target] IN
  [next |-> [[L.next EXCEPT ![p] = start] EXCEPT ![end] = target],
   prev |-> [[L.prev EXCEPT ![start] = p] EXCEPT ![target] = end]]

Op(x) == input[x].op
Target(x) == input[x].target
At(ops) == stage = "walk" /\ n \in Positions /\ n \notin processed /\ Op(n) \in ops
End(how, c) == stage' = how /\ contents' = c

(* getTarget fails: no provider has the name, or several runs of them do. *)
NoTarget ==
  /\ At({"replace", "before", "after"})
  /\ names[Target(n)] = Missing
  /\ End("error", contents)
  /\ UNCHANGED <<input, next, prev, processed, names, n>>

(* The links become those of L after the run from start to end is put in   *)
(* front of target, and the cursor goes on after where it was.             *)
Move(L, target, start, end, after, moved) ==
  IF L.prev[target] = None
  THEN End("crash", contents) /\ UNCHANGED <<next, prev, processed, n>>
  ELSE \E M \in {InsertBefore(L, target, start, end)} :
       /\ next' = M.next
       /\ prev' = M.prev
       /\ processed' = processed \cup moved
       /\ n' = M.next[M.prev[after]]
       /\ UNCHANGED <<stage, contents>>

SameDirective == {e \in Positions : Op(e) = Op(n) /\ Target(e) = Target(n)}
Named(x) == {e \in Positions : input[e].origin = x}

(* The target's providers are cut out, then the run of replacements is cut *)
(* out and put where they were.  (A variable bound to one value, \E x \in  *)
(* {e}, is evaluated once by TLC.)                                         *)
DoReplace ==
  /\ At({"replace"})
  /\ names[Target(n)] # Missing
  /\ \E snipped \in {Run(Links, names[Target(n)].first, Named(Target(n)))} :
     \E L1 \in {Snip(Links, snipped[0], SnipEnd(snipped))} :
     \E moved \in {Run(L1, n, SameDirective)} :
     \E L2 \in {Snip(L1, n, SnipEnd(moved))} :
       LET lastSnip == SnipEnd(snipped)
           lastMove == SnipEnd(moved)
           L3 == IF L2.next[lastSnip] = n
                 THEN [L2 EXCEPT !.next[lastSnip] = L2.next[lastMove]] ELSE L2
       IN Move(L3, L3.next[lastSnip], n, lastMove, L3.next[lastMove],
               SnipSet(snipped) \cup SnipSet(moved))
  /\ names' = [names EXCEPT ![Target(n)] = Missing]
  /\ UNCHANGED input

PlaceAfterFirst(L, t) ==   \* mutant: after the target's first provider
  IF Op(n) = "before" THEN t.first ELSE L.next[t.first]
Place(L, t) == IF Op(n) = "before" THEN t.first ELSE L.next[t.last]

(* The run of insertions is cut out and put before or after the target. *)
DoInsert ==
  /\ At({"before", "after"})
  /\ names[Target(n)] # Missing
  /\ \E moved \in {Run(Links, n, SameDirective)} :
     \E L1 \in {Snip(Links, n, SnipEnd(moved))} :
       Move(L1, Place(L1, names[Target(n)]), n, SnipEnd(moved), L1.next[SnipEnd(moved)],
            SnipSet(moved))
  /\ UNCHANGED <<input, names>>

(* A processed node, or one without a directive. *)
PassOver ==
  /\ stage = "walk" /\ n \in Positions
  /\ n \in processed \/ Op(n) = "none"
  /\ n' = next[n]
  /\ UNCHANGED <<input, next, prev, processed, names, stage, contents>>

(* Step 4: the list is read back.  A list that ends in a circle never is. *)
ReadFrom(i) ==
  LET step == [e \in 0 .. ListTail |-> IF e = ListTail THEN e ELSE next[e]]
      path[k \in 1 .. Len(input)] == IF k = 1 THEN i ELSE step[path[k - 1]]
  IN [k \in {k \in DOMAIN path : path[k] # ListTail} |-> path[k]]
Walked == ReadFrom(next[ListHead])
ReadBack ==
  /\ stage = "walk" /\ n \in {ListTail, None}
  /\ End("done", Walked)
  /\ UNCHANGED <<input, next, prev, processed, names, n>>

EditNext == NoTarget \/ DoReplace \/ DoInsert \/ PassOver \/ ReadBack

EditSpec == EditInit /\ [][EditNext]_editVars /\ WF_editVars(EditNext)

-----------------------------------------------------------------------------
(* Values have their types (replace.go:85-160). *)
ListNodes == 0 .. ListTail
EditTypeOK ==
  /\ input \in Seq(ProviderRecords)
  /\ next \in [ListNodes -> ListNodes \cup {None}] /\ prev \in [ListNodes -> ListNodes \cup {None}]
  /\ processed \subseteq Positions
  /\ names \in [Names -> [first : Positions \cup {None}, last : Positions \cup {None}]]
  /\ n \in ListNodes \cup {None}
  /\ stage \in {"walk", "done", "error", "crash"}
  /\ contents \in Seq(Positions)

Edits == stage = "done"
Replaced ==
  {i \in Positions : \E j \in Positions : Op(j) = "replace" /\ Target(j) = input[i].origin}
Where(i) == CHOOSE k \in DOMAIN contents : contents[k] = i

(* What the edit is good for: no provider with a directive is a target,    *)
(* and the replacements for one target are on one side of it.              *)
PlainTargets(in) ==
  \A i, j \in DOMAIN in :
    in[i].op \in {"replace", "before", "after"} /\ in[i].target = in[j].origin => in[j].op = "none"
SameSide(in) ==
  \A i, j, k \in DOMAIN in :
    i < k /\ k < j /\ in[i].op = "replace" /\ in[j].op = "replace" /\ in[i].target = in[j].target
      => in[k].origin # in[i].target

(* "replacing target injector ... with the injector provided here"         *)
(* (replace.go:7-9): the edited collection has each provider once, except  *)
(* for those that were replaced, and providers without a directive stay in *)
(* their order.                                                            *)
Plain == {i \in Positions \ Replaced : Op(i) = "none"}
NothingLost ==
  Edits => /\ {contents[k] : k \in DOMAIN contents} = Positions \ Replaced
           /\ \A j, k \in DOMAIN contents : contents[j] = contents[k] => j = k
           /\ \A j, k \in DOMAIN contents :
                contents[j] \in Plain /\ contents[k] \in Plain /\ j < k => contents[j] < contents[k]

(* A directive's provider ends up where it asked to be: nothing but other  *)
(* providers with directives stands between it and its target, or what     *)
(* stood around the providers it replaces now stands around it.            *)
PlainBetween(i, j) == \E p \in Plain : Where(i) < Where(p) /\ Where(p) < Where(j)
PlacedAsAsked ==
  Edits =>
    \A d \in Positions \ Replaced :
      LET t == Index(input, Target(d)) IN
      CASE Op(d) = "before" /\ t.first \notin Replaced ->
             Where(d) < Where(t.first) /\ ~PlainBetween(d, t.first)
        [] Op(d) = "after" /\ t.last \notin Replaced ->
             Where(t.last) < Where(d) /\ ~PlainBetween(t.last, d)
        [] Op(d) = "replace" ->
             \A p \in Plain : /\ p < t.first => Where(p) < Where(d)
                              /\ p > t.last => Where(d) < Where(p)
        [] OTHER -> TRUE

(* The walk along the list, whose links it changes as it goes, comes to    *)
(* its end with a list or with an error, not with a nil dereference:       *)
(* "Bind() and Run() will return error rather than panic" (doc.go:301).    *)
Ends == <>(stage \in {"done", "error"})
=============================================================================
