------------------------------ MODULE TopoSort ------------------------------
(***************************************************************************)
(* TopoSort of internal/pipeline/scheduler.go: a depth-first search over   *)
(* the dependencies, with the call stack of the closure visit made         *)
(* explicit, so that one step is one pass through a loop or one return.    *)
(***************************************************************************)
EXTENDS Naturals, Sequences, FiniteSets

CONSTANTS
    ID,         \* strings that occur as node ids or as dependencies
    Specs       \* the PipelineSpecs sorted

\* What TopoSort reads of a pb.Node.
Node == [id : ID, dependsOn : Seq(ID)]

ASSUME SpecsAssumption == Specs \subseteq Seq(Node)

VARIABLES
    spec,       \* the argument
    next,       \* index of the outer loop
    stack,      \* calls of visit, the innermost last: id and index of its loop
    visited,
    inStack,
    sorted,     \* byID[x] was appended for these ids x so far
    result      \* "none" until TopoSort returns

tvars == <<spec, next, stack, visited, inStack, sorted, result>>

Known(p) == {p[i].id : i \in 1..Len(p)}

\* No later node has the same id.
LastOfId(p, i) == \A k \in (i + 1)..Len(p) : p[k].id # p[i].id

\* The map is filled in the order of the nodes: of several with the same id
\* it keeps the last, and the sort appends what the map holds.
Position(p, id) == CHOOSE i \in 1..Len(p) : p[i].id = id /\ LastOfId(p, i)

byID(p, id) == p[Position(p, id)]

Deps(p, id) == byID(p, id).dependsOn

\* TypeOK: the search stays within the strings of the spec.
TypeOK ==
    /\ spec \in Specs
    /\ next \in 1..(Len(spec) + 1)
    /\ stack \in Seq([id : Known(spec), k : Nat \ {0}])
    /\ visited \subseteq Known(spec)
    /\ inStack \subseteq ID
    /\ sorted \in Seq(Known(spec))
    /\ result \in {"none", "sorted", "cycle", "unknown"}

Init ==
    /\ spec \in Specs
    /\ next = 1
    /\ stack = <<>>
    /\ visited = {} /\ inStack = {}
    /\ sorted = <<>>
    /\ result = "none"

Top == stack[Len(stack)]
Callers == SubSeq(stack, 1, Len(stack) - 1)

\* An id that was finished before is taken for one that is on the stack.
MutVisit(id, calls) ==
    \/ /\ id \in inStack \cup visited
       /\ stack' = calls
       /\ result' = "cycle"
       /\ UNCHANGED <<visited, inStack, sorted>>
    \/ /\ id \notin visited \cup inStack
       /\ inStack' = inStack \cup {id}
       /\ \/ /\ id \notin Known(spec)
             /\ stack' = calls
             /\ result' = "unknown"
          \/ /\ id \in Known(spec)
             /\ stack' = Append(calls, [id |-> id, k |-> 1])
             /\ UNCHANGED result
       /\ UNCHANGED <<visited, sorted>>

\* visit(id) called from calls: it returns at once, fails, or enters its loop.
visit(id, calls) ==
    \/ /\ id \in visited
       /\ stack' = calls
       /\ UNCHANGED <<visited, inStack, sorted, result>>
    \/ /\ id \notin visited /\ id \in inStack
       /\ stack' = calls
       /\ result' = "cycle"
       /\ UNCHANGED <<visited, inStack, sorted>>
    \/ /\ id \notin visited \cup inStack
       /\ inStack' = inStack \cup {id}
       /\ \/ /\ id \notin Known(spec)
             /\ stack' = calls
             /\ result' = "unknown"
          \/ /\ id \in Known(spec)
             /\ stack' = Append(calls, [id |-> id, k |-> 1])
             /\ UNCHANGED result
       /\ UNCHANGED <<visited, sorted>>

\* One pass of the loop over spec.Nodes.
VisitNode ==
    /\ result = "none" /\ stack = <<>>
    /\ next <= Len(spec)
    /\ visit(spec[next].id, stack)
    /\ next' = next + 1
    /\ UNCHANGED spec

\* One pass of the loop over node.DependsOn.
VisitDep ==
    /\ result = "none" /\ stack # <<>>
    /\ Top.k <= Len(Deps(spec, Top.id))
    /\ visit(Deps(spec, Top.id)[Top.k],
             Append(Callers, [id |-> Top.id, k |-> Top.k + 1]))
    /\ UNCHANGED <<spec, next>>

\* visited[id] = true is missing.
MutReturn ==
    /\ result = "none" /\ stack # <<>>
    /\ Top.k > Len(Deps(spec, Top.id))
    /\ stack' = Callers
    /\ inStack' = inStack \ {Top.id}
    /\ sorted' = Append(sorted, Top.id)
    /\ UNCHANGED <<spec, next, visited, result>>

\* The loop is over: the node is appended and visit returns.
Return ==
    /\ result = "none" /\ stack # <<>>
    /\ Top.k > Len(Deps(spec, Top.id))
    /\ stack' = Callers
    /\ inStack' = inStack \ {Top.id}
    /\ visited' = visited \cup {Top.id}
    /\ sorted' = Append(sorted, Top.id)
    /\ UNCHANGED <<spec, next, result>>

\* The outer loop returns before its last pass.
MutFinish ==
    /\ result = "none" /\ stack = <<>>
    /\ next >= Len(spec)
    /\ result' = "sorted"
    /\ UNCHANGED <<spec, next, stack, visited, inStack, sorted>>

\* All nodes were visited: the sorted list is returned.
Finish ==
    /\ result = "none" /\ stack = <<>>
    /\ next > Len(spec)
    /\ result' = "sorted"
    /\ UNCHANGED <<spec, next, stack, visited, inStack, sorted>>

Next == VisitNode \/ VisitDep \/ Return \/ Finish

Spec == Init /\ [][Next]_tvars

-----------------------------------------------------------------------------
(* Properties *)

\* DependenciesFirst: at every moment a node in the output comes after all its
\* dependencies ("a valid topological order", scheduler.go:152), each in it once.
DependenciesFirst ==
    \A i \in 1..Len(sorted) :
      /\ \A d \in 1..Len(Deps(spec, sorted[i])) :
           \E k \in 1..(i - 1) : sorted[k] = Deps(spec, sorted[i])[d]
      /\ \A k \in 1..(i - 1) : sorted[k] # sorted[i]

\* The nodes in the output, as their positions in the spec.
Output == {Position(spec, sorted[i]) : i \in 1..Len(sorted)}

\* SortedComplete: a successful sort holds the last node of each id and no other:
\* all nodes when no two have the same id (scheduler.go:153-156,182-186).
SortedComplete ==
    result = "sorted" => Output = {i \in 1..Len(spec) : LastOfId(spec, i)}

\* NodesReturned: "TopoSort returns the nodes of spec in a valid topological
\* order, or an error" (scheduler.go:152): a node is not dropped without one.
NodesReturned == result = "sorted" => Output = 1..Len(spec)

DependsOn(p, x, y) == \E d \in 1..Len(Deps(p, x)) : Deps(p, x)[d] = y

\* No nonempty set of ids has a dependency of each of its members in it.
Loopless(p) ==
    \A S \in SUBSET Known(p) : S # {} => \E x \in S : \A y \in S : ~DependsOn(p, x, y)

\* Every dependency has a node.
Closed(p) == \A x \in Known(p), y \in ID : DependsOn(p, x, y) => y \in Known(p)

\* ErrorsReal: an error is returned for the reason it states, and only then:
\* "cycle" when the dependencies have one, "unknown" when a dependency has no
\* node (scheduler.go:169-176).
ErrorsReal ==
    /\ result = "cycle" => ~Loopless(spec)
    /\ result = "unknown" => ~Closed(spec)
    /\ result = "sorted" => Loopless(spec) /\ Closed(spec)

=============================================================================
