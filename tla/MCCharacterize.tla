--------------------------- MODULE MCCharacterize ---------------------------
(* Instances of Characterize.tla for TLC: collections of up to four        *)
(* providers.                                                              *)
EXTENDS Characterize

CONSTANTS a, b, list, channel, any, record, outer, secret, deep

(* Types: a basic one and an interface that may hold most of the others,   *)
(* structs with an interface among their fields, one in another, and one   *)
(* with an interface that is not exported.                                 *)
Declare(kind, parts) == [kind |-> kind, parts |-> parts]
Field(type) == [type |-> type, exported |-> TRUE]
Hidden(type) == [type |-> type, exported |-> FALSE]
MCDecl ==
  [t \in Types |->
     CASE t = list -> Declare("slice", <<Field(a)>>)
       [] t = channel -> Declare("chan", <<Field(a)>>)
       [] t = any -> Declare("interface", <<Field(a), Field(list), Field(channel)>>)
       [] t = record -> Declare("struct", <<Field(any), Hidden(a), Field(any)>>)
       [] t = outer -> Declare("struct", <<Field(record), Hidden(a)>>)
       [] t = secret -> Declare("struct", <<Hidden(any)>>)
       [] t = deep -> Declare("interface", <<Field(secret)>>)
       [] OTHER -> Declare("basic", <<>>)]

Plain == [kind |-> "func", in |-> {}, out |-> {}, terminal |-> FALSE, annotations |-> {}]
Func(in, out) == [Plain EXCEPT !.in = in, !.out = out]
Fallible(p) == [p EXCEPT !.terminal = TRUE]
Of(kind, in, out) == [Func(in, out) EXCEPT !.kind = kind]
With(S, choices) == {[p EXCEPT !.annotations = c] : p \in S, c \in choices}

(* The annotations one at a time, and in the pairs that meet in a test.    *)
(* Reorder does not meet the annotations that ask for the STATIC set.      *)
Single == {{"MustCache"}, {"Cacheable"}, {"Singleton"}, {"Memoize"}}
AnnotationSets ==
  {{}, {"NotCacheable"}, {"Reorder"}, {"NonFinal"}} \cup Single
    \cup {c \cup {"NotCacheable"} : c \in Single} \cup {c \cup {"Memoize"} : c \in Single}
Funcs == {Func({}, {}), Func({}, {a}), Func({a}, {b}), Fallible(Func({}, {})), Fallible(Func({a}, {b}))}
Keyed == {{"Memoize"}, {"Memoize", "MustCache"}, {"Memoize", "NotCacheable"}, {"Singleton"}}
Unkeyed == With({Func({list}, {b}), Fallible(Func({list}, {b})), Func({channel}, {b})}, Keyed)
Checkable == With({Func({t}, {b}) : t \in {any, record, outer, secret, deep}} \cup {Fallible(Func({any, outer}, {b}))}, Keyed)
Annotated == With(Funcs, AnnotationSets) \cup Unkeyed
Unusual ==
  {Of("value", {}, {a}), Of("inner", {}, {a}), Of("inner", {b}, {}), Of("untyped", {}, {a}),
   Of("invoker", {}, {}), Of("foreign", {}, {})}
    \cup With({Of("value", {}, {a}), Of("inner", {}, {a})}, {{"MustCache"}, {"Memoize"}, {"NonFinal"}})
Generator == Of("generated", {}, {})
Few ==
  With({Func({a}, {b}), Func({b}, {a})}, {{}, {"Cacheable"}, {"MustCache", "NonFinal"}})
    \cup {Of("inner", {}, {a}), Of("value", {}, {b}), Generator, Func({b}, {}),
          [Plain EXCEPT !.annotations = {"NonFinal"}], [Generator EXCEPT !.annotations = {"NonFinal"}]}

(* What an annotated provider gets depends on who provides its inputs.     *)
Sources == With({Func({}, {a})}, {{}, {"Cacheable"}}) \cup {Of("inner", {}, {a}), Of("value", {}, {a})}
MCCollections ==
  {<<p, q, Plain>> : p \in Sources, q \in Annotated \cup Checkable \cup Unusual}
    \cup {<<p, q, r, Plain>> : p \in Sources, q \in Annotated, r \in With({Func({b}, {a})}, AnnotationSets)}
    \cup {<<p, q>> : p \in Annotated \cup Unusual, q \in Annotated \cup Unusual}
    \cup UNION {[1 .. k -> Few] : k \in 1 .. 4}
(* One substitute, or several of which the first is a regular provider.    *)
MCSubstitutes ==
  {<<[Plain EXCEPT !.annotations = {"NonFinal"}]>>, <<Func({a}, {b})>>, <<Of("inner", {b}, {a}), Func({b}, {})>>}
MCHanded == {{}, {a}}
=============================================================================
