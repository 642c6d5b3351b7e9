------------------------------- MODULE Filler -------------------------------
(***************************************************************************)
(* MakeStructBuilder (filler.go, filler_api.go): the walk along the fields *)
(* of a struct, which collects what the struct is filled from and what is  *)
(* called with its fields afterwards, and the cluster of providers that it *)
(* makes, when that runs.  A field is known by its path, as for            *)
(* reflect.Value.FieldByIndex.                                             *)
(***************************************************************************)
EXTENDS Naturals, FiniteSetsExt, SequencesExt

CONSTANTS
  Builders,    \* what MakeStructBuilder may be called with
  Types,       \* the types of fields and of parameters
  PointerTo,   \* reflect.PointerTo, of the fields' types
  FuncTypes,   \* those that are functions
  Assignable, Convertible,  \* <<t, u>>: a t can be assigned, converted to u
  MethodsOf    \* of the interfaces: the number of methods

Reserved == {"whole", "blob", "fields", "field", "-", "skip", "nofill", "fill"}
NotMatched == 1000000  \* bad
Fields == [name : STRING, type : Types, struct : BOOLEAN, exported : BOOLEAN, words : Seq(STRING)]
Actions == [id : STRING, params : Seq(Types), fillSet : BOOLEAN, fill : BOOLEAN, toAny : BOOLEAN]

(* The fields of a struct are numbered from 1, those of a field that is a  *)
(* struct are under its path.                                              *)
FieldPaths(fields) ==
  \A p \in DOMAIN fields :
    /\ p \in Seq(Nat \ {0}) \ {<<>>}
    /\ \A k \in DOMAIN p : \A n \in 1 .. p[k] : Append(SubSeq(p, 1, k - 1), n) \in DOMAIN fields
    /\ \A k \in 1 .. Len(p) - 1 : fields[SubSeq(p, 1, k)].struct

(* fields: from paths; words: the struct tag; byTag, byName: from the      *)
(* words and names that were given; has: the methods of the struct.        *)
ASSUME FillerAssumption ==
  /\ PointerTo \in [DOMAIN PointerTo -> Types] /\ FuncTypes \subseteq Types
  /\ Assignable \cup Convertible \subseteq Types \X Types
  /\ MethodsOf \in [DOMAIN MethodsOf -> Nat] /\ DOMAIN MethodsOf \subseteq Types
  /\ \A m \in Builders :
       /\ {m.pointer, m.create} \subseteq BOOLEAN
       /\ \A p \in DOMAIN m.fields : m.fields[p] \in Fields /\ m.fields[p].type \in DOMAIN PointerTo
       /\ FieldPaths(m.fields)
       /\ {m.byTag[w] : w \in DOMAIN m.byTag} \cup {m.byName[w] : w \in DOMAIN m.byName} \subseteq Actions
       /\ m.byType \in Seq(Actions) /\ m.methods \in Seq(STRING)

VARIABLES
  b,            \* the model and the options
  phase,        \* "start", "field", "steps", "next", "chain", "run", "done", "error"
  at,           \* np, the path of the field at hand
  pending,      \* what is left to do for it, see StepsOf
  flags,        \* skip, noSkip, whole, hardSkip
  inputs,       \* f.inputs
  reflectives,  \* additionalReflectives
  chain,        \* what the builder is made of
  held,         \* the struct when the chain runs, by the path of its leaves
  ran           \* what has run

vars == <<b, phase, at, pending, flags, inputs, reflectives, chain, held, ran>>
walkVars == <<at, pending, flags, inputs, reflectives>>

NoFlags == [skip |-> FALSE, noSkip |-> FALSE, whole |-> FALSE, hardSkip |-> FALSE]
FieldAt(p) == b.fields[p]
Leaves == {p \in DOMAIN b.fields : Append(p, 1) \notin DOMAIN b.fields}

-----------------------------------------------------------------------------
(* addFieldFiller: which parameter takes the field, or its address.  The   *)
(* lowest score wins, the first of equal ones: the type itself, then the   *)
(* interface with the fewest methods, another assignable type, conversion. *)
Score(t, in) ==
  CASE t = in -> 0
    [] t # in /\ <<t, in>> \in Assignable -> IF in \in DOMAIN MethodsOf THEN 1 + MethodsOf[in] ELSE 500000
    [] t # in /\ <<t, in>> \notin Assignable /\ <<t, in>> \in Convertible -> 750000
    [] OTHER -> NotMatched
Taken(f, pointer) == IF pointer = 1 THEN PointerTo[f.type] ELSE f.type
Match(action, f) ==
  LET Candidates == (DOMAIN action.params) \X {0, 1}
      ScoreOf(c) == Score(Taken(f, c[2]), action.params[c[1]])
      best == CHOOSE c \in Candidates : \A d \in Candidates :
                \/ ScoreOf(c) < ScoreOf(d)
                \/ ScoreOf(c) = ScoreOf(d) /\ (c[1] < d[1] \/ (c[1] = d[1] /\ c[2] <= d[2]))
  IN IF Candidates = {} THEN [score |-> NotMatched, pointer |-> FALSE]
     ELSE [score |-> ScoreOf(best), pointer |-> best[2] = 1]
(* MatchToOpenInterface leaves the score as it was, so it never matches.   *)
Fails(action, f) ==
  \/ action.toAny
  \/ Match(action, f).score = NotMatched
  \/ Match(action, f).score = 750000 /\ Match(action, f).pointer

(* What is done for a field: the words of its tag in order, the action by  *)
(* name, the actions by type.                                              *)
WordStep(m, w) ==
  IF w \in DOMAIN m.byTag THEN [by |-> "tag", word |-> w, action |-> m.byTag[w]]
  ELSE [by |-> IF w \in Reserved \ {"field"} THEN "word" ELSE "unknown", word |-> w]
InOrder(K) == CHOOSE s \in [1 .. Cardinality(K) -> K] : \A i, j \in DOMAIN s : i < j => s[i] < s[j]
StepsIn(m, f) ==
  LET Of(t) == {k \in DOMAIN m.byType : m.byType[k].params[1] = t}
      First(t) == [j \in 1 .. Cardinality(Of(t)) |->
                     [by |-> "type", word |-> "", action |-> m.byType[InOrder(Of(t))[j]]]]
  IN [k \in DOMAIN f.words |-> WordStep(m, f.words[k])]
     \o (IF f.name \in DOMAIN m.byName
         THEN <<[by |-> "name", word |-> "", action |-> m.byName[f.name]]>> ELSE <<>>)
     \o (IF m.pointer THEN First(PointerTo[f.type]) ELSE <<>>) \o First(f.type)
StepsOf(f) == StepsIn(b, f)

-----------------------------------------------------------------------------
Init ==
  /\ b \in Builders
  /\ phase = "start" /\ at = <<>> /\ pending = <<>> /\ flags = NoFlags
  /\ inputs = <<>> /\ reflectives = <<>> /\ chain = <<>>
  /\ held = [p \in Leaves |-> [from |-> IF b.create THEN "zero" ELSE "old"]]
  /\ ran = <<>>

Fail == phase' = "error" /\ UNCHANGED <<b, walkVars, chain, held, ran>>

(* Options that cannot be, a struct that cannot be changed in place. *)
BadOptions ==
  \/ DOMAIN b.byTag \cap Reserved # {}
  \/ \E k \in DOMAIN b.byType : b.byType[k].params = <<>>
  \/ ~b.create /\ ~b.pointer
Refuse == phase = "start" /\ BadOptions /\ Fail

(* The struct to fill is the first input, or one that keeps a function     *)
(* from being the first.                                                   *)
AddIgnore == b.create /\ <<1>> \in DOMAIN b.fields /\ FieldAt(<<1>>).type \in FuncTypes
Start ==
  /\ phase = "start" /\ ~BadOptions
  /\ inputs' = CASE ~b.create -> <<[type |-> "model", mapping |-> <<>>]>>
                 [] AddIgnore -> <<[type |-> "ignore", mapping |-> <<>>]>>
                 [] OTHER -> <<>>
  /\ at' = <<1>>
  /\ phase' = IF <<1>> \in DOMAIN b.fields THEN "field" ELSE "chain"
  /\ UNCHANGED <<b, pending, flags, reflectives, chain, held, ran>>

(* mapStruct comes to a field. *)
EnterField ==
  /\ phase = "field"
  /\ phase' = IF FieldAt(at).exported THEN "steps" ELSE "next"
  /\ pending' = IF FieldAt(at).exported THEN StepsOf(FieldAt(at)) ELSE <<>>
  /\ flags' = NoFlags
  /\ UNCHANGED <<b, at, inputs, reflectives, chain, held, ran>>

Head1 == Head(pending)
At(by) == phase = "steps" /\ pending # <<>> /\ Head1.by \in by

BadWord ==
  /\ At({"word", "unknown"})
  /\ Head1.by = "unknown" \/ (Head1.word \in {"whole", "blob", "fields"} /\ ~FieldAt(at).struct)
  /\ Fail

ReadWord ==
  /\ At({"word"})
  /\ Head1.word \in {"whole", "blob", "fields"} => FieldAt(at).struct
  /\ flags' = CASE Head1.word = "nofill" -> [flags EXCEPT !.skip = TRUE]
                [] Head1.word = "fill" -> [flags EXCEPT !.skip = FALSE, !.noSkip = TRUE]
                [] Head1.word \in {"-", "skip"} -> [flags EXCEPT !.skip = TRUE, !.hardSkip = TRUE]
                [] Head1.word \in {"whole", "blob"} -> [flags EXCEPT !.whole = TRUE]
                [] Head1.word = "fields" -> [flags EXCEPT !.whole = FALSE]
  /\ pending' = Tail(pending)
  /\ UNCHANGED <<b, phase, at, inputs, reflectives, chain, held, ran>>

(* handleFieldFiller *)
ActionSteps == {"tag", "name", "type"}
BadAction ==
  /\ At(ActionSteps) /\ ~flags.hardSkip
  /\ Fails(Head1.action, FieldAt(at))
  /\ Fail
PassAction ==
  /\ At(ActionSteps) /\ flags.hardSkip
  /\ pending' = Tail(pending)
  /\ UNCHANGED <<b, phase, at, flags, inputs, reflectives, chain, held, ran>>

SkipAfterFirst(action, pointer) ==   \* mutant: WithFill does not bring a field back
  flags.skip \/ (~flags.noSkip /\ IF action.fillSet THEN ~action.fill ELSE pointer)
SkipAfter(action, pointer) ==
  IF flags.noSkip THEN flags.skip
  ELSE IF action.fillSet THEN ~action.fill
  ELSE flags.skip \/ pointer
AddAction ==
  /\ At(ActionSteps) /\ ~flags.hardSkip
  /\ ~Fails(Head1.action, FieldAt(at))
  /\ LET pointer == Match(Head1.action, FieldAt(at)).pointer IN
     /\ flags' = [flags EXCEPT !.skip = SkipAfter(Head1.action, pointer)]
     /\ reflectives' = Append(reflectives,
          [kind |-> "act", path |-> at, by |-> Head1.by, id |-> Head1.action.id, pointer |-> pointer])
  /\ pending' = Tail(pending)
  /\ UNCHANGED <<b, phase, at, inputs, chain, held, ran>>

Skip ==
  /\ phase = "steps" /\ pending = <<>> /\ flags.skip
  /\ phase' = "next"
  /\ UNCHANGED <<b, walkVars, chain, held, ran>>
Descend ==
  /\ phase = "steps" /\ pending = <<>> /\ ~flags.skip
  /\ FieldAt(at).struct /\ ~flags.whole
  /\ IF Append(at, 1) \in DOMAIN b.fields
     THEN at' = Append(at, 1) /\ phase' = "field" ELSE phase' = "next" /\ UNCHANGED at
  /\ UNCHANGED <<b, pending, flags, inputs, reflectives, chain, held, ran>>
TakeInput ==
  /\ phase = "steps" /\ pending = <<>> /\ ~flags.skip
  /\ FieldAt(at).struct => flags.whole
  /\ inputs' = Append(inputs, [type |-> FieldAt(at).type, mapping |-> at])
  /\ phase' = "next"
  /\ UNCHANGED <<b, at, pending, flags, reflectives, chain, held, ran>>

(* To the next field of this struct, or back to the one it is a field of.  *)
MoveOn ==
  /\ phase = "next"
  /\ LET sibling == [at EXCEPT ![Len(at)] = @ + 1] IN
     CASE sibling \in DOMAIN b.fields -> at' = sibling /\ phase' = "field"
       [] sibling \notin DOMAIN b.fields /\ Len(at) > 1 -> at' = Front(at) /\ UNCHANGED phase
       [] OTHER -> phase' = "chain" /\ UNCHANGED at
  /\ UNCHANGED <<b, pending, flags, inputs, reflectives, chain, held, ran>>

-----------------------------------------------------------------------------
NoMethod == phase = "chain" /\ ToSet(b.methods) \ b.has # {} /\ Fail
Methods == [k \in DOMAIN b.methods |-> [kind |-> "method", id |-> b.methods[k]]]
Filling == <<[kind |-> "fill"]>>
AssembledLate == Methods \o Filling \o reflectives   \* mutant: methods before actions
Assembled == Filling \o reflectives \o Methods
Assemble ==
  /\ phase = "chain" /\ ToSet(b.methods) \subseteq b.has
  /\ phase' = "run"
  /\ chain' = (IF AddIgnore THEN <<[kind |-> "ignore"]>> ELSE <<>>) \o Assembled
  /\ UNCHANGED <<b, walkVars, held, ran>>

(* The cluster runs: filler.Call stores each input along its mapping, an   *)
(* action may change what it got the address of.                           *)
Under(p) == {leaf \in Leaves : IsPrefix(p, leaf)}
Call ==
  [leaf \in Leaves |->
     LET I == {k \in DOMAIN inputs : inputs[k].mapping # <<>> /\ leaf \in Under(inputs[k].mapping)} IN
     IF I = {} THEN held[leaf] ELSE [from |-> "chain", type |-> inputs[Max(I)].type]]
RunNext ==
  /\ phase = "run" /\ Len(ran) < Len(chain)
  /\ LET x == chain[Len(ran) + 1] IN
     /\ held' = CASE x.kind = "fill" -> Call
                  [] x.kind = "act" ->
                       [leaf \in Leaves |-> IF x.pointer /\ leaf \in Under(x.path)
                                            THEN [from |-> x.id] ELSE held[leaf]]
                  [] OTHER -> held
     /\ ran' = Append(ran, x)
  /\ UNCHANGED <<b, phase, walkVars, chain>>
Finish ==
  /\ phase = "run" /\ ran = chain
  /\ phase' = "done"
  /\ UNCHANGED <<b, walkVars, chain, held, ran>>

Next ==
  \/ Refuse \/ Start \/ EnterField \/ BadWord \/ ReadWord \/ BadAction \/ PassAction \/ AddAction
  \/ Skip \/ Descend \/ TakeInput \/ MoveOn \/ NoMethod \/ Assemble \/ RunNext \/ Finish

Spec == Init /\ [][Next]_vars

-----------------------------------------------------------------------------
(* What the tag of a field and the actions for it ask for.                 *)
IsWord(s, words) == s.by = "word" /\ s.word \in words
FillWords == {"fill", "nofill", "-", "skip"}

(* "'-' & 'skip': the field should not be filled and it should ignore      *)
(* PostActionByType and PostActionByName matches. PostActionByTag would    *)
(* still apply" (filler.go:124-126).                                       *)
Applied(p) ==
  LET s == StepsOf(FieldAt(p)) IN
  {k \in DOMAIN s : \/ s[k].by = "tag"
                    \/ s[k].by \in {"name", "type"} /\ \A l \in 1 .. k : ~IsWord(s[l], {"-", "skip"})}
Pointed(p, k) == Match(StepsOf(FieldAt(p))[k].action, FieldAt(p)).pointer

(* "nofill" and "fill" override "other behaviors including defaults set    *)
(* with post-actions" (filler.go:128-135): the last word decides.  Without *)
(* one, WithFill overrides "if there is a post-action that receives a      *)
(* pointer to the field, then the field will not be filled from the        *)
(* injection chain" (filler_api.go:182-185), and the last action decides.  *)
Fills(p) ==
  LET s == StepsOf(FieldAt(p))
      words == {k \in DOMAIN s : IsWord(s[k], FillWords)}
      defaults == {k \in Applied(p) : s[k].action.fillSet \/ Pointed(p, k)}
      last == s[Max(defaults)].action
  IN IF words # {} THEN IsWord(s[Max(words)], {"fill"})
     ELSE defaults # {} => last.fillSet /\ last.fill

(* Where the code does as documented: an action by tag is not after "-" or *)
(* "skip" (handleFieldFiller passes it over), and none with                *)
(* WithFill(true) is after "nofill" (it undoes that).                      *)
SkipLast(m) ==
  \A p \in DOMAIN m.fields :
    LET s == StepsIn(m, m.fields[p]) IN
    \A k, l \in DOMAIN s : k < l /\ IsWord(s[k], {"-", "skip"}) => s[l].by # "tag"
NofillStands(m) ==
  \A p \in DOMAIN m.fields :
    LET s == StepsIn(m, m.fields[p]) IN
    \A k, l \in DOMAIN s :
      k < l /\ IsWord(s[k], {"nofill"}) /\ s[l].by \in ActionSteps /\ s[l].action.fillSet /\ s[l].action.fill
        => \E j \in DOMAIN s : IsWord(s[j], FillWords \ {"nofill"})

Whole(p) ==
  LET s == StepsOf(FieldAt(p))
      words == {k \in DOMAIN s : IsWord(s[k], {"whole", "blob", "fields"})}
  IN words # {} /\ s[Max(words)].word # "fields"
Opened(p) == FieldAt(p).exported /\ FieldAt(p).struct /\ Fills(p) /\ ~Whole(p)
Above(p) == {SubSeq(p, 1, k) : k \in 1 .. Len(p)}
Reached(p) == FieldAt(p).exported /\ \A q \in Above(p) \ {p} : Opened(q)

(* Unexported fields are ignored and whole structs are filled as one       *)
(* (filler.go:108, 118-119): in the end each part of the struct has what   *)
(* the last action left that got its address, or the value for the type of *)
(* its own field if that is to be filled, or what it had.                  *)
StructAsAsked ==
  phase = "done" =>
    \A leaf \in Leaves :
      LET reached == {p \in Above(leaf) : Reached(p)}
          filled == {p \in reached : Fills(p) /\ ~Opened(p)}
          pointed == UNION {{<<Len(p), k>> : k \in {l \in Applied(p) : Pointed(p, l)}} : p \in reached}
          last == CHOOSE x \in pointed : \A y \in pointed : y[1] < x[1] \/ (y[1] = x[1] /\ y[2] <= x[2])
      IN held[leaf] =
           IF pointed # {} THEN [from |-> StepsOf(FieldAt(SubSeq(leaf, 1, last[1])))[last[2]].action.id]
           ELSE IF filled # {} THEN [from |-> "chain", type |-> FieldAt(CHOOSE p \in filled : TRUE).type]
           ELSE [from |-> IF b.create THEN "zero" ELSE "old"]

(* "PostActionByName happens before PostActionByType and after             *)
(* PostActionByTag calls", for a field, and all of them after the struct   *)
(* is filled and before WithMethodCall invocations (filler_api.go:126-129, *)
(* 151-154, 168-170); whoever is to be called for a field is called once.  *)
Rank(by) == CASE by = "tag" -> 1 [] by = "name" -> 2 [] by = "type" -> 3
ActionsInOrder ==
  phase = "done" =>
    LET acts == {k \in DOMAIN ran : ran[k].kind = "act"}
        Of(p) == {k \in acts : ran[k].path = p}
    IN /\ \A k \in acts : /\ \E l \in 1 .. k : ran[l].kind = "fill"
                          /\ \A l \in 1 .. k : ran[l].kind # "method"
       /\ \A p \in DOMAIN b.fields :
            /\ \A k, l \in Of(p) : k < l => Rank(ran[k].by) <= Rank(ran[l].by)
            /\ Cardinality(Of(p)) = IF Reached(p) THEN Cardinality(Applied(p)) ELSE 0
       /\ SubSeq(ran, Len(ran) - Len(Methods) + 1, Len(ran)) = Methods
       /\ \A k \in DOMAIN ran : ran[k].kind = "method" => k > Len(ran) - Len(Methods)
=============================================================================
