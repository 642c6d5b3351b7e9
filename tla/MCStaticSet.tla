---------------------------- MODULE MCStaticSet ----------------------------
(* Instances of StaticSet.tla for TLC. *)
EXTENDS StaticSet

P(class, include, in, out) == [class |-> class, include |-> include, in |-> in, out |-> out]

(* A literal, a provider that uses it, a fallible one that provides "a"    *)
(* again and a last one that uses and provides both.                       *)
PlainStatics ==
  <<P("literal", TRUE, {}, {"lit"}),
    P("static", TRUE, {"lit"}, {"a"}),
    P("fallible", TRUE, {"a"}, {"b", "error"}),
    P("static", TRUE, {"a", "b"}, {"a", "c"})>>

(* Two fallible ones. *)
TwoFallibles ==
  <<P("fallible", TRUE, {"in"}, {"a", "error"}),
    P("fallible", TRUE, {"a"}, {"b", "error"})>>

(* A literal between two uses of another type. *)
LateLiteral ==
  <<P("static", TRUE, {}, {"a"}),
    P("static", TRUE, {"a"}, {"b"}),
    P("literal", TRUE, {}, {"d"}),
    P("static", TRUE, {"a", "d"}, {"c"})>>

B(statics, hasInit, initIn, initOut) ==
  [statics |-> statics, hasInit |-> hasInit, initIn |-> initIn, initOut |-> initOut,
   laterTypes |-> {"a", "b", "c", "d"}]
Usual == {B(PlainStatics, FALSE, {}, {}), B(PlainStatics, TRUE, {"in"}, {"b", "error"}),
          B(LateLiteral, FALSE, {}, {}), B(LateLiteral, TRUE, {"in"}, {"c"})}
OnlyTwoFallibles == {B(TwoFallibles, TRUE, {"in"}, {"b", "error"})}
=============================================================================
