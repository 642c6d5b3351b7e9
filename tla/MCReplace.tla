----------------------------- MODULE MCReplace -----------------------------
(* Instances of Replace.tla for TLC: collections of up to MaxLen providers, *)
(* those whose directives have names of their own of up to MaxNamed.       *)
EXTENDS Replace

CONSTANTS MaxLen, MaxNamed, x, y

Plains == [origin : Names \cup {None}, op : {"none"}, target : {None}]
Directives(origins) == [origin : origins, op : {"replace", "before", "after"}, target : {x, y}]
Collections(max, S) == UNION {[1 .. k -> S] : k \in 1 .. max}
HasDirective(in) == \E i \in DOMAIN in : in[i].op # "none"
Edited ==
  {in \in Collections(MaxLen, Plains \cup Directives({None}))
            \cup Collections(MaxNamed, Plains \cup Directives(Names \cup {None})) : HasDirective(in)}

(* Those that the edit handles: the last provider of a chain is not the    *)
(* target of an insertion made from above it either.                       *)
NotAfterLast(in) ==
  \A i, j \in DOMAIN in :
    i < j /\ in[i].op = "after" => ~(j = Len(in) /\ in[j].origin = in[i].target)
UsualInputs == {in \in Edited : PlainTargets(in) /\ SameSide(in) /\ NotAfterLast(in)}

=============================================================================
