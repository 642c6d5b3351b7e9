------------------------------ MODULE Condense ------------------------------
(***************************************************************************)
(* DownFlows and UpFlows of a collection (flows.go) and Condense, which    *)
(* makes one provider of a collection (condense.go): it binds the          *)
(* collection with an invoke function that hands down the net inputs and   *)
(* receives the net returns.  That Bind is the one of Wire.tla; stage      *)
(* "direct" is a Bind that the program asks for itself.                    *)
(***************************************************************************)
EXTENDS Wire

CONSTANTS
  Collections,    \* the collections to condense
  TerminalError,  \* nject.TerminalError
  BypassDebug     \* the type under which the outer *Debugging comes in

(* What a collection holds: values, functions, and wrappers with what they *)
(* hand to inner() and receive from it.                                    *)
Signatures ==
  [shape : {"value", "func", "wrapper"}, in : SUBSET Types, out : SUBSET Types,
   handed : SUBSET Types, received : SUBSET Types, loose : SUBSET Types, cacheable : BOOLEAN]
Func(in, out) ==
  [shape |-> "func", in |-> in, out |-> out, handed |-> {}, received |-> {},
   loose |-> {}, cacheable |-> FALSE]

ASSUME CondenseAssumption == \A c \in Collections : c \in Seq(Signatures) /\ c # <<>>

VARIABLES
  collection,  \* its contents
  stage,       \* see Stages
  listed,      \* the contents, each with its characterization
  k,           \* the provider that netFlows has come to
  seenIn,      \* types that netFlows found unresolved
  seenOut,     \* types that netFlows found to be provided
  nets,        \* what netFlows returned, by stage
  condensed    \* the provider that Condense returns

condenseVars == <<collection, stage, listed, k, seenIn, seenOut, nets, condensed>>
allVars == <<vars, wireVars, condenseVars>>

(* The program may ask for the flows of the collection as it is; Condense  *)
(* asks when it has characterized it.                                      *)
Asking == {"askDown", "askUp"}
Walks == Asking \cup {"down", "up"}
Stages == Walks \cup {"direct", "begin", "bind", "binding", "condensed", "refused"}

-----------------------------------------------------------------------------
(* The class of each provider: static if it is annotated so and takes      *)
(* nothing that the invoke function or a run-time provider hands down.     *)
ClassOf(s, last, nonStatic) ==
  CASE last -> "final"
    [] s.shape = "value" -> "literal"
    [] s.shape = "wrapper" -> "wrap"
    [] s.shape = "func" /\ s.cacheable /\ s.out \ {Unused} # {} /\ s.in \cap nonStatic = {} -> "static"
    [] OTHER -> "inject"

Redacted(types) == types \ {TerminalError}
Remade(types) == IF TerminalError \in types THEN Redacted(types) \cup {Error} ELSE types
Characterized(s, class) ==
  [Plain EXCEPT
     !.class = class, !.in = s.in, !.loose = s.loose, !.required = (class = "final"),
     !.out = CASE class = "wrap" -> s.handed [] class = "final" -> {}
               [] class = "static" -> Remade(s.out) [] OTHER -> Redacted(s.out),
     !.recv = IF class = "wrap" THEN s.received ELSE {},
     !.ret = CASE class \in {"wrap", "final"} -> s.out
               [] class = "inject" /\ TerminalError \in s.out -> {Error} [] OTHER -> {}]

(* characterizeAndFlatten: static ones and literals first.                 *)
InOrder(all, places) == [m \in 1 .. Cardinality(places) |-> all[Ascending(places)[m]]]
Flattened(sigs, nonStatic) ==
  LET n == Len(sigs)
      At(i, types) == Characterized(sigs[i], ClassOf(sigs[i], i = n, types))
      nonStaticTypes[i \in 0 .. n] ==
        IF i = 0 THEN nonStatic
        ELSE LET before == nonStaticTypes[i - 1]
                 p == At(i, before)
             IN IF p.class \in {"inject", "wrap"} THEN before \cup p.out ELSE before
      all == [i \in 1 .. n |-> [sig |-> sigs[i], provider |-> At(i, nonStaticTypes[i - 1])]]
      early == {i \in 1 .. n : all[i].provider.class \in {"literal", "static"}}
  IN [before |-> InOrder(all, early), after |-> InOrder(all, (1 .. n) \ early)]
Project(s) == [i \in DOMAIN s |-> s[i].provider]

-----------------------------------------------------------------------------
(* DownFlows and UpFlows of a provider that has not been characterized,    *)
(* with effectiveOutputs and effectiveReturns, and of those that have.     *)
Flow(in, out, loose) == [in |-> in, out |-> out, loose |-> loose]
AskedDown(s) ==
  Flow(s.in, IF s.shape = "wrapper" THEN s.handed ELSE Redacted(s.out), s.loose)
AskedUp(s) ==
  Flow(s.received, IF s.shape = "wrapper" THEN s.out ELSE {Error : x \in s.out \cap {TerminalError}}, s.loose)
Flows(walk) ==
  CASE walk = "askDown" -> [i \in DOMAIN collection |-> AskedDown(collection[i])]
    [] walk = "askUp" -> [i \in DOMAIN collection |-> AskedUp(collection[i])]
    [] walk = "down" -> [i \in DOMAIN listed |->
         LET p == listed[i].provider IN Flow(p.in, p.out, p.loose)]
    [] walk = "up" -> [i \in DOMAIN listed |->
         LET p == listed[i].provider IN Flow(p.recv, p.ret, p.loose)]

(* available.bestMatch: an input goes by the type that it is matched with. *)
Available(flows, i, t) == {j \in DOMAIN flows : j < i /\ t \in flows[j].out}
MatchedFreely(flows, i, t) ==   \* mutant: whether the provider is Loose is not asked
  LET candidates == {v \in Types : <<v, t>> \in Implements /\ Available(flows, i, v) # {}}
  IN IF Available(flows, i, t) # {} \/ candidates = {} THEN t ELSE CHOOSE v \in candidates : TRUE
Matched(flows, i, t) ==
  LET candidates == {v \in Types : <<v, t>> \in Implements /\ Available(flows, i, v) # {}}
      Met(v) == Min(Available(flows, i, v))
      best == CHOOSE v \in candidates : \A w \in candidates \ {v} :
                Met(v) > Met(w) \/ (Met(v) = Met(w) /\ Rank[v] > Rank[w])
  IN IF Available(flows, i, t) # {} \/ candidates = {} THEN t
     ELSE IF \E j \in Available(flows, i, best) : t \in flows[j].loose THEN best ELSE t
MatchedIn(flows, i) == {Matched(flows, i, t) : t \in flows[i].in}

(* netFlows, one provider. *)
NetFlowsForget ==   \* mutant: what a provider takes is not kept apart from what it gives
  LET flows == Flows(stage) IN
  /\ stage \in Walks /\ k \in DOMAIN flows
  /\ seenIn' = seenIn \cup (MatchedIn(flows, k) \ seenOut)
  /\ seenOut' = seenOut \cup flows[k].out
  /\ k' = k + 1
  /\ UNCHANGED <<vars, wireVars, collection, stage, listed, nets, condensed>>
NetFlows ==
  LET flows == Flows(stage)
      taken == MatchedIn(flows, k) IN
  /\ stage \in Walks /\ k \in DOMAIN flows
  /\ seenIn' = seenIn \cup (taken \ seenOut)
  /\ seenOut' = seenOut \cup (flows[k].out \ (taken \cup seenIn'))
  /\ k' = k + 1
  /\ UNCHANGED <<vars, wireVars, collection, stage, listed, nets, condensed>>

After(walk) ==
  CASE walk = "askDown" -> "askUp" [] walk = "askUp" -> "begin" [] walk = "down" -> "up" [] walk = "up" -> "bind"
EndNetFlows ==
  /\ stage \in Walks /\ k \notin DOMAIN Flows(stage)
  /\ nets' = [nets EXCEPT ![stage] = [in |-> seenIn, out |-> seenOut]]
  /\ stage' = After(stage)
  /\ k' = 1 /\ seenIn' = {} /\ seenOut' = {}
  /\ UNCHANGED <<vars, wireVars, collection, listed, condensed>>

-----------------------------------------------------------------------------
LastOf(c) == c[Len(c)]

(* The last one is a wrapper, or matches no prototype.                     *)
RefuseLast ==
  /\ stage = "begin" /\ LastOf(collection).shape # "func"
  /\ stage' = "refused"
  /\ UNCHANGED <<vars, wireVars, collection, listed, k, seenIn, seenOut, nets, condensed>>

CharacterizeAll ==
  /\ stage = "begin" /\ LastOf(collection).shape = "func"
  /\ LET flat == Flattened(collection, {}) IN listed' = flat.before \o flat.after
  /\ stage' = "down"
  /\ UNCHANGED <<vars, wireVars, collection, k, seenIn, seenOut, nets, condensed>>

(* The outer *Debugging comes in under a type of its own.                  *)
Debugged == Debugging \in nets["down"].in
DownIn == IF Debugged THEN (nets["down"].in \ {Debugging}) \cup {BypassDebug} ELSE nets["down"].in
UpOut == nets["up"].out
Bridge == Func({Debugging, BypassDebug}, {})

BindInner ==
  LET sigs == [i \in DOMAIN listed |-> listed[i].sig]
      flat == Flattened(IF Debugged THEN <<Bridge>> \o sigs ELSE sigs, DownIn)
      invoke == [Plain EXCEPT !.class = "invoke", !.out = DownIn, !.recv = UpOut, !.required = TRUE]
  IN
  /\ stage = "bind"
  /\ stage' = "binding"
  /\ funcs' = Assembled(<<>>, Project(flat.before), invoke, Project(flat.after))
  /\ phase' = "first" /\ usesDetail' = ProvidesReturns(Places)'
  /\ include' = Places' /\ todo' = Places'
  /\ wanted' = {i \in Places' : AutoWanted(funcs', i)}
  /\ UNCHANGED <<excluded, cannot, without, possible, proposals, wireVars,
                 collection, listed, k, seenIn, seenOut, nets, condensed>>

(* treatErrorAsTerminal is up to the caller.                               *)
Terminal(types) == IF Error \in types THEN (types \ {Error}) \cup {TerminalError} ELSE types
Return ==
  /\ stage = "binding" /\ wiring = "wired"
  /\ stage' = "condensed"
  /\ \E treatErrorAsTerminal \in BOOLEAN :
       LET bound == Func(DownIn, IF treatErrorAsTerminal THEN Terminal(UpOut) ELSE UpOut) IN
       condensed' = IF Debugged THEN <<Func({Debugging}, {BypassDebug}), bound>> ELSE <<bound>>
  /\ UNCHANGED <<vars, wireVars, collection, listed, k, seenIn, seenOut, nets>>
RefuseBound ==
  /\ stage = "binding"
  /\ phase \in {"invalid", "internal"} \/ wiring \in {"shadowed", "initless"}
  /\ stage' = "refused"
  /\ UNCHANGED <<vars, wireVars, collection, listed, k, seenIn, seenOut, nets, condensed>>

NoFlows == [walk \in Walks |-> [in |-> {}, out |-> {}]]
InitDirect == BindInit /\ stage = "direct" /\ collection = <<>>
InitCondense ==
  /\ collection \in Collections /\ stage = "askDown"
  /\ funcs = <<>> /\ phase = "idle" /\ usesDetail = ProvidesReturns({})
  /\ include = {} /\ todo = {} /\ wanted = {}
  /\ excluded = {} /\ cannot = {} /\ without = {} /\ possible = {} /\ proposals = <<>>
  /\ WireInit
CondenseInit ==
  /\ InitDirect \/ InitCondense
  /\ listed = <<>> /\ k = 1 /\ seenIn = {} /\ seenOut = {} /\ nets = NoFlows /\ condensed = <<>>
CondenseNext ==
  \/ BindNext /\ UNCHANGED condenseVars
  \/ NetFlows \/ EndNetFlows \/ RefuseLast \/ CharacterizeAll \/ BindInner \/ Return \/ RefuseBound
CondenseSpec == CondenseInit /\ [][CondenseNext]_allVars /\ WF_allVars(CondenseNext)

-----------------------------------------------------------------------------
(* "DownFlows provides the net unresolved flows down the injection chain.  *)
(* If a type is used both as input and as output for the same provider,    *)
(* then that type counts as an input only" (flows.go:110-112): the inputs  *)
(* are those that nothing before them can be matched with, in whatever     *)
(* order types were met, and every other type that anyone provides is an   *)
(* output.                                                                 *)
Provided(flows) == UNION {flows[i].out : i \in DOMAIN flows}
Lacked(flows, i) == {t \in flows[i].in : Matched(flows, i, t) = t /\ Available(flows, i, t) = {}}
Unresolved(flows) == UNION {Lacked(flows, i) : i \in DOMAIN flows}
Ended ==
  CASE stage = "askUp" -> {"askDown"} [] stage \in {"begin", "down"} -> Asking
    [] stage = "up" -> Asking \cup {"down"} [] stage = "bind" -> Walks [] OTHER -> {}
NetFlowsAreNet ==
  \A walk \in Ended :
    /\ nets[walk].in = Unresolved(Flows(walk))
    /\ nets[walk].out = Provided(Flows(walk)) \ Unresolved(Flows(walk))

(* "The inputs to the provider are what's required for the last function   *)
(* in the Collection to be invoked given the rest of the Collection"       *)
(* (condense.go:11-13): whatever is put together of functions and of       *)
(* wrappers that receive nothing can be condensed, unless two of them      *)
(* return one type.  With the net flows Bind has all inputs, although it   *)
(* matches types in its own way, has other static providers and another    *)
(* order than netFlows went by, and a receiver for every return.           *)
Condensable ==
  stage = "refused" /\ LastOf(collection).shape = "func" =>
    \/ wiring = "shadowed"
    \/ \E i \in DOMAIN collection : collection[i].received # {}

(* The search for a chain, and with it Bind and Condense, comes to an end. *)
BindReturns ==
  <>(\/ stage \in {"condensed", "refused"}
     \/ stage = "direct" /\ (phase \in {"invalid", "internal"} \/ wiring # "open"))

(* "All types returned by the last function in the collection or           *)
(* returned by wrap functions are returned by the condensed provider"      *)
(* (condense.go:20-22).                                                    *)
AllReturned ==
  stage = "condensed" =>
    \A s \in {collection[i] : i \in DOMAIN collection} :
      s = LastOf(collection) \/ s.shape = "wrapper" =>
        s.out \subseteq UpOut
=============================================================================
