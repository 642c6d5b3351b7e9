---------------------------- MODULE MCRunChain ----------------------------
(* Instances of RunChain.tla for TLC. *)
EXTENDS RunChain

P(class, in, out, recv, ret, parallel) ==
  [class |-> class, in |-> in, out |-> out, recv |-> recv, ret |-> ret, parallel |-> parallel]

(* A wrapper that may retry, a fallible injector and a final function.     *)
RetryChain ==
  <<P("wrapper", {"req"}, {"a"}, {"res", "error"}, {"res", "error"}, FALSE),
    P("fallible", {"a"}, {"b"}, {}, {"error"}, FALSE),
    P("final", {"b", "lit"}, {}, {}, {"res", "error"}, FALSE)>>

(* A Parallel wrapper above an ordinary one. *)
ParallelChain ==
  <<P("injector", {"req"}, {"a"}, {}, {}, FALSE),
    P("wrapper", {"a"}, {"b"}, {}, {}, TRUE),
    P("wrapper", {"b"}, {"a"}, {"res"}, {}, FALSE),
    P("final", {"a", "b", "lit"}, {}, {}, {"res"}, FALSE)>>

(* One wrapper that may retry inside another; what they return differs,    *)
(* and the inner one's type is replaced below it.                          *)
NestedChain ==
  <<P("wrapper", {"req"}, {"a"}, {"error"}, {"error"}, FALSE),
    P("injector", {"a"}, {"b"}, {}, {}, FALSE),
    P("wrapper", {"b"}, {"b"}, {"res"}, {"res"}, FALSE),
    P("fallible", {"b"}, {}, {}, {"error"}, FALSE),
    P("final", {"a", "b", "lit"}, {}, {}, {"res"}, FALSE)>>

Bind(chain) == [chain |-> chain, invokeOut |-> {"req"}, baseOut |-> {"lit"}]
Three == {Bind(RetryChain), Bind(ParallelChain), Bind(NestedChain)}

(* Two invocations of the first chain overlap; in the second the calls of  *)
(* inner() overlap within one, and in the third they nest.                 *)
InvokesOf(bd) == IF bd.chain = RetryChain THEN 2 ELSE 1
=============================================================================
