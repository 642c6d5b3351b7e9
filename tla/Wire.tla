-------------------------------- MODULE Wire --------------------------------
(***************************************************************************)
(* The rest of doBind (bind.go): the chain that it puts together before    *)
(* computeDependenciesAndInclusion and, after it, the check for returns    *)
(* that override each other (shadowing.go) and the choice of a slot of the *)
(* value collection for each type.  How the closures then use the slots is *)
(* in RunChain and StaticSet; here it is whether they hold, for those that *)
(* Include keeps, what Include matched.                                    *)
(***************************************************************************)
EXTENDS Include

CONSTANTS Debugging, Error   \* the types *Debugging and error

VARIABLES
  wiring,    \* see Outcomes
  downVmap,  \* the types with a slot for values that go down the chain
  upVmap     \* the types with a slot for returned values

Outcomes == {"open", "shadowed", "initless", "wired"}
wireVars == <<wiring, downVmap, upVmap>>

-----------------------------------------------------------------------------
(* The providers that doBind adds.                                         *)
DebuggingProvider == [Plain EXCEPT !.class = "static", !.out = {Debugging}]
UnusedInput == [Plain EXCEPT !.class = "literal", !.out = {Unused}, !.optional = {Unused}, !.shun = TRUE]
UnusedReturns == [Plain EXCEPT !.class = "wrap", !.ret = {Unused}, !.optional = {Unused}, !.shun = TRUE]

(* before: what characterizeAndFlatten lists as literal and static, after: *)
(* the rest; init: no init function or one.                                *)
Assembled(init, before, invoke, after) ==
  LET listed == <<DebuggingProvider>> \o init \o before \o <<invoke>> \o after
      consumed == UNION {listed[i].in : i \in DOMAIN listed}
      received == UNION {listed[i].recv : i \in DOMAIN listed}
      headed == IF Unused \in consumed THEN <<UnusedInput>> \o listed ELSE listed
      n == Len(headed)
  IN IF Unused \in received
     THEN SubSeq(headed, 1, n - 1) \o <<UnusedReturns, headed[n]>> ELSE headed

(* invokeIndex is taken before UnusedInput is put at the head, and points  *)
(* at the provider before the invoke function then.                        *)
InvokeIndex ==
  LET invoke == CHOOSE i \in Places : funcs[i].class = "invoke" IN
  IF funcs[1] = UnusedInput THEN invoke - 1 ELSE invoke

-----------------------------------------------------------------------------
(* checkForShadowing: i returns a type that it does not receive and that   *)
(* was returned further down, by an excluded provider perhaps.             *)
Own(i) == funcs[i].ret \ funcs[i].recv
ShadowingExemptAll(i, t) == t = Error \/ t \in funcs[i].shadow   \* mutant: errors of wrappers too
ShadowingExempt(i, t) == (funcs[i].class = "inject" /\ t = Error) \/ t \in funcs[i].shadow
Shadowing == {i \in Places : \E t \in Own(i) :
                ~ShadowingExempt(i, t) /\ \E j \in Places : j > i /\ t \in Own(j)}

CheckForShadowing ==
  /\ phase = "done" /\ wiring = "open" /\ Shadowing # {}
  /\ wiring' = "shadowed"
  /\ UNCHANGED <<vars, downVmap, upVmap>>

(* downRmap and upRmap: what the last calculation of flows found, which    *)
(* the excluded take no part in, or else the first.                        *)
Rmap(dir, i, t) ==
  LET left == IF i \in excluded THEN Places ELSE Places \ excluded IN
  CASE BestMatch(left, dir, i, t) # {} -> BestType(left, dir, i, t)
    [] BestMatch(left, dir, i, t) = {} /\ BestMatch(Places, dir, i, t) # {} -> BestType(Places, dir, i, t)
    [] OTHER -> t
(* addToVmap: a type that i also takes is mapped as the one it was matched *)
(* with.  What the init function returns is remapped by bypassRmap, which  *)
(* addToVmap is not given.                                                 *)
RemappedNot(dir, i, S) == S   \* mutant: the type that was asked for gets the slot
Remapped(dir, i, S) ==
  {IF t \in Needs(dir, i) /\ funcs[i].class # "init" THEN Rmap(dir, i, t) ELSE t : t \in S}
Flowing == UNION {funcs[i].in \cup funcs[i].out \cup funcs[i].recv \cup funcs[i].ret : i \in include}

StaticMapped == (UNION {Remapped("down", i, funcs[i].out) : i \in 1 .. InvokeIndex - 1}) \cap Flowing
RunPlaces == InvokeIndex .. Len(funcs)
DownMapped == StaticMapped \cup ((UNION {Remapped("down", i, funcs[i].in) : i \in RunPlaces}) \cap Flowing)
UpMapped == (UNION {Remapped("up", i, funcs[i].ret) : i \in RunPlaces}) \cap Flowing

MapTypes ==
  /\ phase = "done" /\ wiring = "open" /\ Shadowing = {}
  /\ downVmap' = DownMapped /\ upVmap' = UpMapped
  /\ wiring' = IF \E i \in Places : funcs[i].class = "init" /\ ~(funcs[i].in \subseteq StaticMapped)
               THEN "initless" ELSE "wired"
  /\ UNCHANGED vars

WireInit == wiring = "open" /\ downVmap = {} /\ upVmap = {}
BindInit == Init /\ WireInit
BindNext == (Next /\ UNCHANGED wireVars) \/ CheckForShadowing \/ MapTypes
BindSpec == BindInit /\ [][BindNext]_<<vars, wireVars>> /\ WF_<<vars, wireVars>>(BindNext)

-----------------------------------------------------------------------------
(* Who has put a value into a slot, last, when i reads it: literals are    *)
(* stored first, then come the parameters of the init function, the static *)
(* chain, the parameters of the invoke function and the run chain; on the  *)
(* way up the providers below i.                                           *)
Stage(p) == CASE p.class = "literal" -> 0 [] p.class = "init" -> 1 [] p.class = "static" -> 2 [] OTHER -> 3
Turn(i) == Stage(funcs[i]) * Len(funcs) + i
Writers(dir, i, t) ==
  {j \in include : IF dir = "down" THEN t \in funcs[j].out \cap downVmap /\ Turn(j) < Turn(Seat(i))
                                   ELSE t \in funcs[j].ret \cap upVmap /\ j > i}
LastWriter(dir, W) ==
  CHOOSE j \in W : \A k \in W : IF dir = "down" THEN Turn(k) <= Turn(j) ELSE j <= k

(* What has to be said of a chain c for values to be read as matched: the  *)
(* order of turns is that of places among those that write one slot or     *)
(* read what the others write;                                             *)
Fitting(p) ==
  IF p.class = "init" THEN {} ELSE p.in \cup {u \in Types : \E t \in p.in : <<u, t>> \in Implements}
StoredInOrder(c) ==
  \A j, k \in DOMAIN c :
    k < j /\ Stage(c[j]) < Stage(c[k]) =>
      c[j].out \cap (c[k].out \cup Fitting(c[k])) = {} /\ c[k].out \cap Fitting(c[j]) = {}
(* the providers of a type are all Loose about an interface or none is;    *)
LooseAlike(c) ==
  \A i, j \in DOMAIN c : \A t \in c[i].loose \ c[j].loose : \A u \in Types :
    <<u, t>> \in Implements => u \notin (c[i].out \cap c[j].out) \cup (c[i].ret \cap c[j].ret)
(* nobody is Loose about a type that is passed on, or that the init        *)
(* function returns;                                                       *)
PassedOnAsSuch(c) ==
  \A i, j \in DOMAIN c :
    /\ c[j].loose \cap ((c[i].in \cap c[i].out) \cup (c[i].recv \cap c[i].ret)) = {}
    /\ c[i].class = "init" => c[j].loose \cap c[i].in = {}
(* what is before the invoke function receives no returns, what is after   *)
(* it is of the RUN set; and with an init function nobody takes Unused.    *)
InvokeInPlace(c) ==
  \A i, j \in DOMAIN c :
    /\ i < j /\ c[i].class = "invoke" => c[j].class \notin {"literal", "init", "static"}
    /\ i < j /\ c[j].class = "invoke" => c[i].recv = {}
    /\ c[i].class = "init" => c[i].required /\ c[1] # UnusedInput
Wireable(c) == StoredInOrder(c) /\ LooseAlike(c) /\ PassedOnAsSuch(c) /\ InvokeInPlace(c)

(* Whoever is included gets each of its inputs, and each value it          *)
(* receives, from a provider that Include says it depends on, and of those *)
(* the closest: "When there are multiple providers of a type, Bind() tries *)
(* to get it from the closest provider" (doc.go:350-351); no slot is read  *)
(* that nobody wrote; and what the init function returns has a slot if     *)
(* inclusion found it: "Type required by init func ... not provided by any *)
(* static group injectors" (bind.go:166) is then not true.                 *)
ValuesAsMatched ==
  /\ wiring # "initless"
  /\ wiring = "wired" =>
    \A dir \in Directions : \A i \in include : \A t \in Needs(dir, i) :
      LET W == Writers(dir, i, Rmap(dir, i, t))
          S == Sources(dir, i, t) \cap include IN
      /\ W # {}
      /\ LastWriter(dir, W) = IF dir = "down" THEN Max(S) ELSE Min(S)

(* "A wrapper that returns a type overrides the value for that type that   *)
(* was returned from further down the chain.  To preserve the value ...    *)
(* the wrapper must recevie the value", "nject rejects chains with         *)
(* shadowing" (api.go:388-409): in a chain that was bound, a returned      *)
(* value is overridden only by who receives it, was allowed to, or ends    *)
(* the chain with an error before anything below it ran.                   *)
NothingOverridden ==
  wiring = "wired" =>
    \A i, j \in include : \A t \in funcs[i].ret \cap funcs[j].ret :
      i < j => \/ t \in funcs[i].recv \cup funcs[i].shadow
               \/ funcs[i].class = "inject" /\ t = Error
=============================================================================
