------------------------------- MODULE MapKey -------------------------------
(***************************************************************************)
(* Which functions can be memoized: whether the types of the inputs can be *)
(* part of a map key, and, where the type does not say, whether the values *)
(* of a call can (cache.go, characterize.go).  Go panics when it hashes a  *)
(* value that is not comparable.                                           *)
(***************************************************************************)
EXTENDS Sequences, Functions

CONSTANTS
  Types,  \* the types of parameters, and those that they are made of
  Decl    \* how each of them is declared

(* An array has the part of its elements; what values an interface may     *)
(* hold has one of its parts as type.                                      *)
TypeKinds == {"basic", "pointer", "chan", "slice", "array", "struct", "interface"}
Declarations == [kind : TypeKinds, parts : Seq([type : Types, exported : BOOLEAN])]

ASSUME MapKeyAssumption == Decl \in [Types -> Declarations]

Kind(t) == Decl[t].kind
Parts(t) == Decl[t].parts
PartTypes(t) == {part.type : part \in Range(Parts(t))}

(* mappable, of one input; "slice" stands for maps and functions too.      *)
Mappable[t \in Types] ==
  CASE Kind(t) = "slice" -> FALSE
    [] Kind(t) \in {"array", "struct"} -> \A part \in PartTypes(t) : Mappable[part]
    [] OTHER -> TRUE

CanSimpleTypeBeMapKey(t) == Kind(t) \in {"basic", "array", "pointer"}

(* canBeMapKey, of one input: some types cannot, some must be checked, by  *)
(* a function that cannot see the fields that are not exported.            *)
MustCheck[t \in Types] ==
  CASE Kind(t) = "interface" -> TRUE
    [] Kind(t) = "struct" -> \E part \in PartTypes(t) : MustCheck[part]
    [] OTHER -> FALSE
CanBeMapKey[t \in Types] ==
  CASE Kind(t) = "interface" -> TRUE
    [] Kind(t) = "struct" ->
         \A part \in Range(Parts(t)) : CanBeMapKey[part.type] /\ (MustCheck[part.type] => part.exported)
    [] OTHER -> CanSimpleTypeBeMapKey(t)

-----------------------------------------------------------------------------
(* The values of a type: a pointer, chan, slice or number has one, an      *)
(* interface is nil or holds a value.                                      *)
ValuesOf[t \in Types] ==
  CASE Kind(t) = "interface" ->
         {[type |-> t, parts |-> <<>>]}
           \cup {[type |-> t, parts |-> <<v>>] : v \in UNION {ValuesOf[d] : d \in PartTypes(t)}}
    [] Kind(t) \in {"struct", "array"} ->
         {[type |-> t, parts |-> vs] :
            vs \in {vs \in [DOMAIN Parts(t) -> UNION {ValuesOf[d] : d \in PartTypes(t)}] :
                      \A i \in DOMAIN vs : vs[i].type = Parts(t)[i].type}}
    [] OTHER -> {[type |-> t, parts |-> <<>>]}
Values == UNION {ValuesOf[t] : t \in Types}

(* canValueBeMapKey; open: the value was not reached through a field that  *)
(* is not exported, so that CanInterface holds.                            *)
CanValueBeMapKey[v \in Values, recurseOkay \in BOOLEAN, open \in BOOLEAN] ==
  CASE Kind(v.type) = "interface" ->
         v.parts = <<>> \/ (recurseOkay /\ open /\ CanValueBeMapKey[v.parts[1], FALSE, TRUE])
    [] Kind(v.type) = "struct" ->
         \A i \in DOMAIN v.parts :
           CanValueBeMapKey[v.parts[i], TRUE, open /\ Parts(v.type)[i].exported]
    [] OTHER -> CanSimpleTypeBeMapKey(v.type)

(* The checkers of canBeMapKey, on the value of one input: they descend    *)
(* along the declared type and ask canValueBeMapKey at interfaces.         *)
Checked[v \in Values] ==
  CASE Kind(v.type) = "interface" -> CanValueBeMapKey[v, TRUE, TRUE]
    [] Kind(v.type) = "struct" -> \A i \in DOMAIN v.parts : Checked[v.parts[i]]
    [] OTHER -> TRUE

(* A memoized function's inputs pass: the call goes to the map.            *)
RemembersAny(args) == \E v \in Range(args) : Checked[v]   \* mutant: the first checker that passes decides
Remembers(args) == \A v \in Range(args) : Checked[v]

(* What Go can hash.                                                       *)
Hashable[v \in Values] ==
  Kind(v.type) # "slice" /\ \A i \in DOMAIN v.parts : Hashable[v.parts[i]]
=============================================================================
