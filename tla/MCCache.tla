------------------------------ MODULE MCCache ------------------------------
(* Instances of Cache.tla for TLC. *)
EXTENDS Cache, TLC

CONSTANTS t1, t2, c1, c2, c3, c4, p1, p2, p3, a, b, nil, empty, arr, slice

(* A memoized provider p1 in two chains, a singleton p2 and a memoized one *)
(* p3 that has more inputs than any key.  In chain c1 the provider is      *)
(* static and checked, in c2 it is not, and it is called with every kind   *)
(* of argument.  Providers may run each other's chains.                    *)
MCProviderOf == c1 :> p1 @@ c2 :> p1 @@ c3 :> p2 @@ c4 :> p3
MCArguments ==
  p1 :> {<<a>>, <<nil>>, <<slice>>, <<arr>>} @@ p2 :> {<<a>>, <<b>>} @@ p3 :> {[i \in 1 .. 91 |-> a]}
MCNested == {<<p1, p2>>, <<p1, p3>>, <<p3, p1>>}

=============================================================================
