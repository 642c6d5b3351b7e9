------------------------------ MODULE MCFiller ------------------------------
(* Instances of Filler.tla for TLC: a struct of a field, a struct with two *)
(* fields and a last field, with various tags and actions.                 *)
EXTENDS Filler

CONSTANTS t, pt, rec, prec, f, pf, any, strange, lost

Pointers == (t :> pt) @@ (rec :> prec) @@ (f :> pf)
IsAssignable == {t, pt, rec, prec, f, pf} \X {any}
IsConvertible == {<<t, strange>>}
MethodCounts == (any :> 0)

Field(name, type, words) ==
  [name |-> name, type |-> type, struct |-> type = rec, exported |-> TRUE, words |-> words]
Hidden(field) == [field EXCEPT !.exported = FALSE]
Action(id, params) == [id |-> id, params |-> params, fillSet |-> FALSE, fill |-> FALSE, toAny |-> FALSE]
WithFill(action, yes) == [action EXCEPT !.fillSet = TRUE, !.fill = yes]

WordsFirst == {<<>>, <<"fill">>, <<"nofill">>, <<"-">>, <<"act">>, <<"act", "fill">>, <<"fill", "act">>,
               <<"act", "skip">>, <<"skip", "fill">>, <<"act", "nofill">>, <<"whole">>, <<"bogus">>}
WordsStruct == {<<>>, <<"whole">>, <<"blob", "fields">>, <<"nofill">>, <<"fill", "sact">>, <<"sact">>}
WordsInner == {<<>>, <<"nofill">>, <<"act">>, <<"skip">>}
Struct(first, whole, inner) ==
  (<<1>> :> Field("A", t, first)) @@ (<<2>> :> Field("B", rec, whole))
    @@ (<<2, 1>> :> Field("A", t, inner)) @@ (<<2, 2>> :> Hidden(Field("c", t, <<"bogus">>)))
    @@ (<<3>> :> Field("D", t, <<>>))

Kinds == {[pointer |-> TRUE, create |-> TRUE], [pointer |-> FALSE, create |-> TRUE],
          [pointer |-> TRUE, create |-> FALSE]}
TagActions == {Action("tagged", <<pt>>), Action("tagged", <<any, pt>>),
               WithFill(Action("tagged", <<pt>>), TRUE), WithFill(Action("tagged", <<t>>), FALSE)}
NameActions == {<<>>, [A |-> WithFill(Action("named", <<t>>), TRUE)], [A |-> Action("named", <<pt>>)]}
TypeActions == {<<>>, <<Action("typed", <<t>>), Action("pointed", <<pt, any>>)>>,
                <<WithFill(Action("pointed", <<prec>>), TRUE)>>}
Builder(fields, kind, tag, name, type, methods) ==
  [fields |-> fields, pointer |-> kind.pointer, create |-> kind.create,
   byTag |-> ("act" :> tag @@ "sact" :> Action("struct", <<strange, prec>>)), byName |-> name,
   byType |-> type, methods |-> methods, has |-> {"m1", "m2"}]

Usual ==
  {Builder(Struct(w1, w2, w3), k, tag, name, type, <<"m1", "m2">>) :
     w1 \in WordsFirst, w2 \in WordsStruct, w3 \in WordsInner, k \in Kinds,
     tag \in TagActions, name \in NameActions, type \in TypeActions}
(* A function first, no fields, and calls that are refused. *)
Few == Struct(<<"act">>, <<>>, <<>>)
FuncFirst == (<<1>> :> Field("F", f, <<>>)) @@ (<<2>> :> Field("A", t, <<"nofill">>)) @@ (<<3>> :> Field("E", rec, <<>>))
Bogus(action) == {[Builder(Few, k, action, <<>>, <<>>, <<>>) EXCEPT !.has = {}] : k \in Kinds}
Unusual ==
  {Builder(Struct(<<>>, <<"field">>, <<>>), k, Action("tagged", <<pt>>), <<>>, <<>>, <<>>) : k \in Kinds}
    \cup {Builder(FuncFirst, k, Action("tagged", <<pt>>), name, <<>>, <<"m1">>) :
            k \in Kinds, name \in NameActions}
    \cup UNION {Bogus(x) : x \in {Action("tagged", <<>>), Action("tagged", <<lost>>), Action("tagged", <<strange>>),
                                  [Action("tagged", <<any>>) EXCEPT !.toAny = TRUE]}}
    \cup {Builder(<<>>, k, Action("tagged", <<pt>>), <<>>, type, methods) :
            k \in Kinds \cup {[pointer |-> FALSE, create |-> FALSE]},
            type \in TypeActions \cup {<<Action("typed", <<>>)>>}, methods \in {<<>>, <<"m3">>}}
(* Those for which the code does as its documentation says. *)
MCBuilders == {m \in Usual \cup Unusual : SkipLast(m) /\ NofillStands(m)}
=============================================================================
