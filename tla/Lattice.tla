------------------------------- MODULE Lattice -------------------------------
(***************************************************************************)
(* The capability lattice of the inputs (capability-matchmaker): every     *)
(* required capability is bound to one provider, and the bindings may not  *)
(* go in a circle. detectCycle keeps a stack of its own; a turn of one of  *)
(* its loops is a step here.                                               *)
(***************************************************************************)
EXTENDS Integers, Sequences, FiniteSets, SequencesExt

CONSTANTS
    Matchings,         \* what may be matched: inputs [name, provides, requires] and
                       \* the choices of the operator, capability -> provider
    SubstrateProvides, \* capabilities the platform has
    Substrate, NoNode

VARIABLES
    decls, overrides,  \* what is matched
    links,             \* bindings [consumer, capability, provider]
    stack, visit, parent, \* of the search
    node, at,          \* whose edges are gone through, and the last link that was
    path,              \* the circle, as far as it has been climbed
    verdict            \* "matching", "searching", "climbing", "ok" or the code of the error
latVars == <<decls, overrides, links, stack, visit, parent, node, at, path, verdict>>

Nodes(d) == {d[i].name : i \in DOMAIN d} \cup {Substrate}

ASSUME LatticeAssumption ==
    /\ NoNode # Substrate
    /\ \A m \in Matchings :
          /\ m.inputs \in Seq(ToSet(m.inputs))
          /\ \A i \in ToSet(m.inputs) : i.name # NoNode /\ i.requires \in Seq(ToSet(i.requires))

LatInit ==
    /\ \E m \in Matchings : decls = m.inputs /\ overrides = m.overrides
    /\ links = <<>> /\ stack = <<>> /\ node = NoNode /\ at = 0 /\ path = <<>> /\ verdict = "matching"
    /\ visit = [n \in Nodes(decls) |-> "unvisited"]
    /\ parent = [n \in Nodes(decls) |-> NoNode]

\* Who provides a capability: the platform and the inputs that list it.
CollectProviders(d, cap) ==
    (IF cap \in SubstrateProvides THEN {Substrate} ELSE {})
        \cup {d[i].name : i \in {j \in DOMAIN d : cap \in d[j].provides}}

\* Mutant: any of several providers is taken.
ResolveToAny(d, o, input, cap) ==
    LET others == CollectProviders(d, cap) \ {input.name}
    IN  IF others = {} THEN [error |-> "unsatisfied", provider |-> NoNode]
        ELSE [error |-> "none", provider |-> CHOOSE n \in others : TRUE]

\* What becomes of one requirement: a provider, or the code of an error.
ResolveRequire(d, o, input, cap) ==
    LET candidates == CollectProviders(d, cap)
        others == candidates \ {input.name}
        chosen == IF cap \in DOMAIN o THEN o[cap] ELSE NoNode
        Error(code) == [error |-> code, provider |-> NoNode]
        Bound(n) == [error |-> "none", provider |-> n]
    IN  CASE candidates = {} -> Error("unsatisfied")
          [] candidates # {} /\ others = {} -> Error("self-provided")
          [] \E n \in others : others = {n} -> Bound(CHOOSE n \in others : TRUE)
          [] OTHER -> CASE chosen = NoNode -> Error("ambiguous")
                        [] chosen # NoNode /\ chosen \notin others -> Error("bad-override")
                        [] OTHER -> Bound(chosen)

\* Every requirement in the order of its declaration.
Requirements(d) ==
    FlattenSeq([i \in DOMAIN d |->
        [k \in DOMAIN d[i].requires |-> [input |-> d[i], cap |-> d[i].requires[k]]]])

\* The first error ends it, else there is a binding for each requirement.
ResolveRequires ==
    LET rs == Requirements(decls)
        out == [k \in DOMAIN rs |-> ResolveRequire(decls, overrides, rs[k].input, rs[k].cap)]
        errors == {k \in DOMAIN rs : out[k].error # "none"}
    IN  /\ verdict = "matching"
        /\ UNCHANGED <<decls, overrides, stack, visit, parent, node, at, path>>
        /\ CASE \E i, j \in DOMAIN decls : i # j /\ decls[i].name = decls[j].name ->
                    verdict' = "duplicate-input" /\ UNCHANGED links
             [] OTHER ->
                    IF errors # {}
                    THEN /\ verdict' = out[CHOOSE k \in errors : \A j \in errors : k <= j].error
                         /\ UNCHANGED links
                    ELSE /\ verdict' = "searching"
                         /\ links' = [k \in DOMAIN rs |-> [consumer |-> rs[k].input.name,
                                                           capability |-> rs[k].cap,
                                                           provider |-> out[k].provider]]

First(S) == CHOOSE k \in S : \A j \in S : k <= j

\* A consumer that is not visited is put on the empty stack; when none is left
\* there is no cycle.
DetectCycleStart ==
    LET waiting == {k \in DOMAIN links : visit[links[k].consumer] = "unvisited"}
    IN  /\ verdict = "searching" /\ stack = <<>>
        /\ IF waiting = {} THEN verdict' = "ok" /\ UNCHANGED stack
           ELSE stack' = <<links[First(waiting)].consumer>> /\ UNCHANGED verdict
        /\ UNCHANGED <<decls, overrides, links, visit, parent, node, at, path>>

\* The node on top of the stack is seen for the first time.
DetectCycleVisit ==
    /\ verdict = "searching" /\ node = NoNode /\ stack # <<>> /\ visit[Last(stack)] = "unvisited"
    /\ visit' = [visit EXCEPT ![Last(stack)] = "in-progress"]
    /\ node' = Last(stack) /\ at' = 0
    /\ UNCHANGED <<decls, overrides, links, stack, parent, path, verdict>>

\* The links of the node that are still to be gone through.
Edges == {k \in DOMAIN links : k > at /\ links[k].consumer = node}

\* Mutant: a provider that was ever visited closes a circle.
ClosesIfSeen(n) == visit[n] # "unvisited"

\* A provider that is still in progress closes a circle.
Closes(n) == visit[n] = "in-progress"

\* Mutant: a node keeps the parent it has.
ParentOnce(n) == IF parent[n] = NoNode THEN [parent EXCEPT ![n] = node] ELSE parent

\* Who pushed a node last is the one it will be visited from.
ParentSet(n) == [parent EXCEPT ![n] = node]

\* The next provider of the node closes a circle, is pushed, or is done.
DetectCycleEdge ==
    /\ verdict = "searching" /\ node # NoNode /\ Edges # {}
    /\ at' = First(Edges)
    /\ LET next == links[First(Edges)].provider
       IN  \/ /\ Closes(next)
              /\ verdict' = "climbing" /\ path' = <<node>>
              /\ UNCHANGED <<stack, parent>>
           \/ /\ ~ Closes(next) /\ visit[next] = "unvisited"
              /\ parent' = ParentSet(next) /\ stack' = Append(stack, next)
              /\ UNCHANGED <<verdict, path>>
           \/ /\ ~ Closes(next) /\ visit[next] # "unvisited"
              /\ UNCHANGED <<verdict, path, stack, parent>>
    /\ UNCHANGED <<decls, overrides, links, visit, node>>

DetectCycleEdgesEnd ==
    /\ verdict = "searching" /\ node # NoNode /\ Edges = {}
    /\ node' = NoNode
    /\ UNCHANGED <<decls, overrides, links, stack, visit, parent, at, path, verdict>>

\* A node seen for the second time is done.
DetectCyclePop ==
    /\ verdict = "searching" /\ node = NoNode /\ stack # <<>> /\ visit[Last(stack)] # "unvisited"
    /\ visit' = [visit EXCEPT ![Last(stack)] = "done"]
    /\ stack' = Front(stack)
    /\ UNCHANGED <<decls, overrides, links, parent, node, at, path, verdict>>

\* The circle that is reported goes from the node along its parents to the
\* provider that closed it.
WalkParents ==
    /\ verdict = "climbing"
    /\ LET next == links[at].provider
           cur == path[1]
       IN  IF cur # next /\ parent[cur] # NoNode
           THEN path' = <<parent[cur]>> \o path /\ UNCHANGED verdict
           ELSE path' = Append(path, next) /\ verdict' = "cycle"
    /\ UNCHANGED <<decls, overrides, links, stack, visit, parent, node, at>>

LatNext ==
    \/ ResolveRequires \/ DetectCycleStart \/ DetectCycleVisit \/ DetectCycleEdge
    \/ DetectCycleEdgesEnd \/ DetectCyclePop \/ WalkParents

LatSpec == LatInit /\ [][LatNext]_latVars

----------------------------------------------------------------------------
\* The search finds a circle exactly when the bindings have no order in which
\* every provider comes before its consumers.
CycleIffNoOrder ==
    LET Ordered == \E rank \in [Nodes(decls) -> 1..Cardinality(Nodes(decls))] :
                       \A l \in ToSet(links) : rank[l.provider] < rank[l.consumer]
    IN  verdict \in {"ok", "cycle"} => (verdict = "ok" <=> Ordered)

\* The circle in the message is one: it ends where it begins and each node on
\* it is bound to the next.
ReportedCycleIsReal ==
    verdict = "cycle" =>
        /\ path[1] = Last(path)
        /\ Len(path) > 1
        /\ \A k \in 1..(Len(path) - 1) :
              \E l \in ToSet(links) : l.consumer = path[k] /\ l.provider = path[k + 1]

\* Where nothing is reported every requirement has one provider, which is not
\* the consumer, has the capability, and was chosen when there were several.
RequirementsAreMet ==
    verdict = "ok" =>
        \A i \in ToSet(decls) : \A cap \in ToSet(i.requires) :
            LET able == CollectProviders(decls, cap) \ {i.name}
            IN  \E l \in ToSet(links) :
                    /\ l.consumer = i.name /\ l.capability = cap /\ l.provider \in able
                    /\ able = {l.provider} \/ (cap \in DOMAIN overrides /\ l.provider = overrides[cap])

\* resolveLattice reports a cycle when and only when there is no order to start
\* the inputs in, the cycle it names is one, and what it links is provided.
OrderHolds == CycleIffNoOrder /\ ReportedCycleIsReal /\ RequirementsAreMet
=============================================================================
