----------------------------- MODULE MCBind -----------------------------
(* Instances of Include.tla, Wire.tla and Condense.tla for TLC.            *)
EXTENDS Condense

CONSTANTS a, b, e, ifc, u, debugging, terminal, bypass

(* For Include: an invoke function, up to three providers from a menu, and *)
(* a final function.                                                       *)

Inject(in, out) == [Plain EXCEPT !.in = in, !.out = out]
Wrap(in, out, recv, ret) ==
  [Plain EXCEPT !.class = "wrap", !.in = in, !.out = out, !.recv = recv, !.ret = ret]
Invoke(out, recv) ==
  [Plain EXCEPT !.class = "invoke", !.out = out, !.recv = recv, !.required = TRUE]
Final(in, ret) ==
  [Plain EXCEPT !.class = "final", !.in = in, !.ret = ret, !.required = TRUE]
InitF(out, in) ==
  [Plain EXCEPT !.class = "init", !.out = out, !.in = in, !.required = TRUE]

Desiring(S) == {[p EXCEPT !.desired = TRUE] : p \in S}
Requiring(S) == {[p EXCEPT !.required = TRUE] : p \in S}
Shunning(S) == {[p EXCEPT !.shun = TRUE] : p \in S}
Clustered(S) == {[p EXCEPT !.cluster = 1] : p \in S}
Consuming(S) == {[p EXCEPT !.must = p.out] : p \in S}

RankOf == [t \in Types |-> 1]

Middles(menu) == UNION {[1 .. n -> menu] : n \in 0 .. 3}
Between(firsts, menu, lasts) ==
  {first \o m \o <<last>> : first \in firsts, m \in Middles(menu), last \in lasts}
Plainly(out, recv) == {<<Invoke(out, recv)>>}

(* Down: injectors with every annotation, below an init function that      *)
(* hands down e, or below an invoke function alone.                        *)
DownPlain == {Inject({}, {a}), Inject({a}, {b}), Inject({b}, {a}), Inject({a}, {a})}
DownMenu == DownPlain \cup {Inject({a}, {})}
            \cup Shunning({Inject({}, {a})}) \cup {Inject({}, {b})}
            \cup Consuming({Inject({}, {a}), Inject({a}, {b})})
            \cup Desiring({Inject({a}, {b}), Inject({b}, {a})})
            \cup Requiring({Inject({a}, {b})})
DownChains == Between(Plainly({}, {}), DownMenu, {Final({b}, {})})

InitMenu == {Inject({}, {a}), Inject({e}, {a}), Inject({e}, {b}), Inject({a}, {b}), Inject({a}, {u})}
InitChains ==
  {<<InitF({e}, {a})>> \o s \o <<Invoke({}, {})>> \o r \o <<Final({b}, {})>> :
     s \in [1 .. 2 -> InitMenu], r \in [1 .. 1 -> InitMenu]}

(* Up: wrappers, injectors that may end the chain with an error, and what  *)
(* the caller of the invoke function receives.                             *)
Erring(in, out) == [Inject(in, out) EXCEPT !.ret = {e}]
UpPlain == {Wrap({}, {a}, {}, {}), Wrap({}, {a}, {b}, {b}), Wrap({}, {a}, {e}, {e, b})}
UpMenu == UpPlain \cup {Erring({}, {a}), Erring({a}, {}), Wrap({a}, {}, {e}, {}),
                        [Wrap({}, {a}, {}, {b}) EXCEPT !.optional = {b}]}
          \cup Desiring({Wrap({}, {a}, {}, {b})}) \cup Shunning({Erring({}, {a})})
UpChains == Between(Plainly({}, {e}), UpMenu, {Final({a}, {b}), Final({a}, {e})})
            \cup Between(Plainly({}, {b, e}), UpPlain \cup {Erring({}, {a})}, {Final({a}, {}), Final({a}, {b})})

(* A cluster, of any of the three, that takes nothing from outside.        *)
ClosedMenu == {Inject({a}, {b}), Inject({a}, {}), Inject({}, {b})}
              \cup Clustered({Inject({}, {a}), Inject({a}, {}), Inject({a}, {b}), Inject({}, {b})})
ClosedChains == Between(Plainly({}, {}), ClosedMenu, {Final({b}, {}), Final({}, {})})

(* Loose: some providers of a may be matched with the interface ifc.       *)
Loosely(S) == {[p EXCEPT !.loose = {ifc}] : p \in S}
LooseMenu == {Inject({}, {a}), Inject({ifc}, {b}), Inject({b}, {a})}
             \cup Loosely({Inject({}, {a}), Inject({b}, {a})})
LooseChains == Between(Plainly({}, {}), LooseMenu, {Final({ifc}, {}), Final({b}, {})})
AImplementsI == {<<a, ifc>>}

(* For Wire: chains as doBind assembles them, with literals, static        *)
(* providers and an init function.  The providers of a are all Loose, or   *)
(* none is; no type has a literal and a static provider.                   *)
Literal(t) == [Plain EXCEPT !.class = "literal", !.out = {t}]
Static(in, out) == [Plain EXCEPT !.class = "static", !.in = in, !.out = out]
UpTo(menu, n) == UNION {[1 .. m -> menu] : m \in 0 .. n}
StaticMenu == {Literal(a), Static({}, {a}), Static({a}, {b}), Static({e}, {b})}
RunMenu == {Inject({}, {a}), Inject({a}, {b}), Inject({u, a}, {b})}
OneStaticSource(s) == \A n, m \in DOMAIN s : a \in s[n].out \cap s[m].out => n = m
LooseIn(s) == [n \in DOMAIN s |-> IF a \in s[n].out THEN [s[n] EXCEPT !.loose = {ifc}] ELSE s[n]]
DownWired(finals) ==
  {Assembled(<<>>, s, v, m \o <<f>>) :
     s \in {s \in UpTo(StaticMenu, 2) : OneStaticSource(s)},
     v \in {Invoke({}, {}), Invoke({a}, {})}, m \in UpTo(RunMenu, 1), f \in finals}
InitWired ==
  {Assembled(<<InitF({e}, {r})>>, s, Invoke({}, {}), m \o <<f>>) :
     r \in {a, b}, s \in {s \in UpTo(StaticMenu, 2) : OneStaticSource(s)},
     m \in UpTo({Inject({a}, {b})}, 1), f \in {Final({b}, {})}}
WrapMenu == {Wrap({}, {}, {}, {b}), Wrap({}, {}, {b}, {b}), Wrap({}, {}, {u}, {}), Erring({}, {}),
             Wrap({}, {}, {e}, {e}), [Wrap({}, {}, {}, {b}) EXCEPT !.shadow = {b}],
             Wrap({}, {}, {ifc}, {}), [Wrap({}, {}, {}, {a}) EXCEPT !.loose = {ifc}]}
UpWired ==
  {Assembled(<<>>, <<>>, v, m \o <<f>>) :
     v \in {Invoke({}, {u}), Invoke({}, {e, b})}, m \in UpTo(WrapMenu, 2),
     f \in {Final({}, {b}), Final({u}, {a, e}), [Final({}, {a}) EXCEPT !.loose = {ifc}], Final({}, {b, e})}}
WireChains ==
  DownWired({Final({b}, {}), Final({a, debugging}, {})})
    \cup {LooseIn(c) : c \in DownWired({Final({ifc}, {}), Final({ifc, a}, {})})}
    \cup InitWired \cup UpWired

MCChains == DownChains \cup InitChains \cup UpChains \cup ClosedChains \cup LooseChains \cup WireChains

(* Values are read as they were matched in all chains of which Wireable    *)
(* holds; nineteen out of twenty are such.                                 *)
ASSUME WireableAssumption ==
  20 * Cardinality({c \in MCChains : ~Wireable(c)}) < Cardinality(MCChains)

(* For Condense: up to two providers and a last one.                       *)
Value(t) == [Func({}, {t}) EXCEPT !.shape = "value"]
Wrapper(in, handed, received, out) ==
  [Func(in, out) EXCEPT !.shape = "wrapper", !.handed = handed, !.received = received]
Caching(s) == [s EXCEPT !.cacheable = TRUE]
LooseFunc(s) == [s EXCEPT !.loose = {ifc}]
FuncMenu ==
  {Value(a), Func({}, {a}), Func({a}, {b}), Func({b}, {a}), Func({a}, {a}), Func({a}, {terminal}),
   Func({b}, {b, terminal}), Func({ifc}, {b}), LooseFunc(Func({}, {a})), Func({debugging}, {}),
   Caching(Func({}, {a})), Caching(Func({a}, {b})),
   Wrapper({a}, {b}, {}, {}), Wrapper({}, {a}, {}, {e}), Wrapper({}, {b}, {}, {b})}
LastMenu == {Func({b}, {}), Func({a}, {b}), Func({ifc}, {e}), Func({a, b}, {b, e}), Value(a), Wrapper({}, {}, {}, {})}
MCCollections == {m \o <<l>> : m \in UpTo(FuncMenu, 2), l \in LastMenu}
(* Wrappers that receive an error and return it, as middleware does. *)
Middleware == Wrapper({}, {}, {e}, {e})
MiddlewareCollections ==
  {<<Middleware>> \o m \o <<l>> : m \in UpTo({Func({a}, {terminal}), Func({}, {a})}, 2),
                                  l \in {Func({a}, {}), Func({a}, {e})}}
=============================================================================
