----------------------------- MODULE MCReorder -----------------------------
(* Instances of Reorder.tla for TLC: an invoke function, up to three       *)
(* providers from a menu, and a final function.                            *)
EXTENDS Reorder

CONSTANTS a, b, e, ifc

Plain == [group |-> "run", init |-> FALSE, reorder |-> FALSE, in |-> {}, out |-> {},
          recv |-> {}, ret |-> {}, optional |-> {}, loose |-> {}]
Inject(in, out) == [Plain EXCEPT !.in = in, !.out = out]
Wrap(in, out, recv, ret) == [Plain EXCEPT !.in = in, !.out = out, !.recv = recv, !.ret = ret]
Static(in, out) == [Inject(in, out) EXCEPT !.group = "static"]
Invoke(out, recv) == [Wrap({}, out, recv, {}) EXCEPT !.group = "invoke"]
Final(in, ret) == [Wrap(in, {}, {}, ret) EXCEPT !.group = "final"]
InitF(out) == [Inject({}, out) EXCEPT !.group = "invoke", !.init = TRUE]
Reordered(S) == {[p EXCEPT !.reorder = TRUE] : p \in S}
Loosely(p) == [p EXCEPT !.loose = {ifc}]
Optionally(p) == [p EXCEPT !.optional = p.ret]
RankOf == [t \in Types |-> 1]
AImplementsI == {<<a, ifc>>}

Literally(p) == [p EXCEPT !.group = "literal"]

Debugging == Static({}, {})
Firsts == {<<Invoke({b}, {e})>>, <<InitF({a}), Static({a}, {b}), Invoke({}, {b, e})>>}
Lasts == {Final({a}, {b}), Final({ifc}, {})}
Between(n, menu) ==
  {<<Debugging>> \o first \o m \o <<last>> : first \in Firsts, m \in [1 .. n -> menu], last \in Lasts}

(* Injectors, one of which is Loose about the interface ifc, an injector   *)
(* that may end the chain with an error, wrappers (one with a return that  *)
(* is ConsumptionOptional, for PanicOnWeakType), a literal.                *)
Either == {Inject({a}, {b}), Inject({a}, {a}), Loosely(Inject({b}, {a})),
           Wrap({}, {}, {a}, {b}), Wrap({a}, {a}, {}, {e})}
AlwaysFixed == {Inject({}, {a}), Optionally(Wrap({}, {}, {}, {e}))}
NeverFixed == {Inject({a, b}, {a}), Wrap({}, {}, {b}, {b}), Wrap({}, {}, {e}, {e}),
               Inject({ifc}, {b}), Literally(Inject({}, {a}))}
MCChains == Between(3, Either \cup AlwaysFixed \cup Reordered(Either \cup NeverFixed))
=============================================================================
