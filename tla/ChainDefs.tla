----------------------------- MODULE ChainDefs -----------------------------
(***************************************************************************)
(* The RUN chain of one bound collection: the run-group providers followed *)
(* by the final one, after inclusion and type matching, and the value      *)
(* slots that Bind assigns to types (bind.go:140-177).  A provider is a    *)
(* record with its class and the types that it takes (in), hands down      *)
(* (out), receives from inner() (recv) and returns (ret).                  *)
(***************************************************************************)
EXTENDS Naturals, Sequences

CONSTANT Bindings  \* the bound collections, see ChainAssumption

VARIABLE binding   \* the one that is run

Chain == binding.chain          \* the run-group providers, the final one last
InvokeOut == binding.invokeOut  \* types of the parameters of the invoke function
BaseOut == binding.baseOut      \* types provided by literals and static injectors

Providers == DOMAIN Chain
Classes == {"injector", "fallible", "wrapper", "final"}
TypesOf(chain) ==
  UNION {chain[i].in \cup chain[i].out \cup chain[i].recv \cup chain[i].ret : i \in DOMAIN chain}

(* Types with a slot: downVmap has what some run provider takes and all    *)
(* that the static set provides; upVmap has what some run provider         *)
(* returns.  What is mapped to -1 in the code has no slot here.            *)
DownTypes == BaseOut \cup UNION {Chain[i].in : i \in Providers}
UpTypes == UNION {Chain[i].ret : i \in Providers}

(* vmapMapped(upVmap) when the loop of bind.go:171-177 is at provider i. *)
MustZeroIfInnerNotCalled(i) == UNION {Chain[j].ret : j \in i .. Len(Chain)}

(* A value is named by the provider that made it, the task it ran in and   *)
(* which of its calls made it.  Unset is the invalid reflect.Value of a    *)
(* slot never written, which input mappers read as the zero value.         *)
Made(i, k, n) == <<i, k, n>>
Zero == <<0, 0, 0>>
Unset == <<0, 0, 1>>
Static == <<0, 0, 2>>
Input(k) == <<0, k, 0>>
Vals == Nat \X Nat \X Nat
Read(x) == IF x = Unset THEN Zero ELSE x

Envs == [DownTypes -> Vals]
Ups == [UpTypes -> Vals]
AllZero == [t \in UpTypes |-> Zero]

(* f with the types in S set to x; types without a slot are skipped. *)
Put(f, S, x) == [t \in DOMAIN f |-> IF t \in S THEN x ELSE f[t]]

BaseEnv == [t \in DownTypes |-> IF t \in BaseOut THEN Static ELSE Unset]

ChainRecords(T) ==
  [class : Classes, in : SUBSET T, out : SUBSET T, recv : SUBSET T, ret : SUBSET T,
   parallel : BOOLEAN]
ASSUME ChainAssumption ==
  \A bd \in Bindings :
    /\ bd.chain \in Seq(ChainRecords(TypesOf(bd.chain)))
    /\ Len(bd.chain) > 0
    /\ \A i \in DOMAIN bd.chain :
         /\ bd.chain[i].class = "final" <=> i = Len(bd.chain)
         /\ bd.chain[i].class = "fallible" => bd.chain[i].ret = {"error"}
         /\ bd.chain[i].class = "injector" => bd.chain[i].ret = {}
=============================================================================
