------------------------- MODULE DefinitionsProofs --------------------------
(***************************************************************************)
(* What turns definitions into specs. TopoSort is correct for every        *)
(* spec: the output is in dependency order, complete, and an error is      *)
(* returned exactly when there is a reason for it; no assumption on the    *)
(* spec is made. The conditions of a node with simple tag patterns select  *)
(* exactly the tags these patterns stand for. What the client submits for  *)
(* a Brazierfile is all its program declares, unless a TypeScript program  *)
(* could not write all of it: a heap of nodes is, after n calls, what      *)
(* these n calls give to each of its builders.                             *)
(***************************************************************************)
EXTENDS TopoSort, Conditions, Brazierfile, SequenceTheorems, WellFoundedInduction, TLAPS

-----------------------------------------------------------------------------
(* The inductive invariant. *)

\* A node is in the output when it is marked visited.
Finished == visited = {sorted[i] : i \in 1..Len(sorted)}

\* inStack holds the calls in progress, each for another node that is not
\* finished.
Open ==
    /\ inStack = {stack[p].id : p \in 1..Len(stack)}
    /\ \A p \in 1..Len(stack) : stack[p].id \notin visited
    /\ \A p, q \in 1..Len(stack) : stack[p].id = stack[q].id => p = q

\* What the loop of call p has passed is finished, except the dependency it is
\* in, which is the next call.
Frame(p) ==
    /\ stack[p].k <= Len(Deps(spec, stack[p].id)) + 1
    /\ p < Len(stack) =>
         /\ stack[p].k > 1
         /\ stack[p + 1].id = Deps(spec, stack[p].id)[stack[p].k - 1]
    /\ \A d \in 1..(stack[p].k - 1) :
         \/ Deps(spec, stack[p].id)[d] \in visited
         \/ p < Len(stack) /\ d = stack[p].k - 1

\* The same for the loop over the nodes.
Outer ==
    \A i \in 1..(next - 1) :
      \/ spec[i].id \in visited
      \/ i = next - 1 /\ stack # <<>> /\ stack[1].id = spec[i].id

Searching ==
    result = "none" => Open /\ (\A p \in 1..Len(stack) : Frame(p)) /\ Outer

\* A sort that succeeded has finished every id.
AllIds ==
    result = "sorted" => {sorted[i] : i \in 1..Len(sorted)} = Known(spec)

IInv ==
    /\ TypeOK
    /\ Finished
    /\ Searching
    /\ DependenciesFirst
    /\ AllIds
    /\ ErrorsReal

-----------------------------------------------------------------------------
(* Numbers and specs. *)

\* Every nonempty set of naturals has a least element.
LEMMA LeastElement ==
    ASSUME NEW S \in SUBSET Nat, S # {}
    PROVE  \E m \in S : \A n \in S : m <= n
<1>1. IsWellFoundedOn(OpToRel(<, Nat), Nat)
  BY NatLessThanWellFounded
<1>2. PICK m \in S : \A n \in S : ~(<<n, m>> \in OpToRel(<, Nat))
  BY <1>1, WFMin
<1>3. \A n \in S : <<n, m>> \in OpToRel(<, Nat) <=> n < m
  BY DEF OpToRel
<1>4. \A n \in S : ~(n < m)
  BY <1>2, <1>3, Zenon
<1> QED
  BY <1>4

\* The parts of a spec have their types.
LEMMA SpecType ==
    ASSUME NEW p \in Specs
    PROVE  /\ p \in Seq(Node)
           /\ \A i \in 1..Len(p) : p[i].id \in ID /\ p[i].dependsOn \in Seq(ID)
           /\ Known(p) \subseteq ID
<1>1. p \in Seq(Node)
  BY SpecsAssumption
<1>2. \A i \in 1..Len(p) : p[i] \in Node
  BY <1>1
<1> QED
  BY <1>1, <1>2 DEF Node, Known

\* Every id of a node has a last node.
LEMMA PositionFacts ==
    ASSUME NEW p \in Specs, NEW x \in Known(p)
    PROVE  /\ Position(p, x) \in 1..Len(p)
           /\ p[Position(p, x)].id = x
           /\ LastOfId(p, Position(p, x))
<1> DEFINE Same == {i \in 1..Len(p) : p[i].id = x}
           S == {Len(p) - i : i \in Same}
<1>1. Len(p) \in Nat
  BY SpecType
<1>2. S \in SUBSET Nat /\ S # {}
  BY <1>1 DEF Known
<1>3. PICK m \in S : \A n \in S : m <= n
  BY <1>2, LeastElement
<1>4. PICK i \in Same : m = Len(p) - i
  OBVIOUS
<1>5. \A k \in (i + 1)..Len(p) : p[k].id # x
  <2> SUFFICES ASSUME NEW k \in (i + 1)..Len(p), p[k].id = x
               PROVE  FALSE
    OBVIOUS
  <2>1. k \in 1..Len(p)
    BY <1>1
  <2>2. Len(p) - k \in S
    BY <2>1
  <2>3. m <= Len(p) - k
    BY <1>3, <2>2
  <2> QED
    BY <1>1, <1>4, <2>1, <2>3
<1>6. \E l \in 1..Len(p) : p[l].id = x /\ LastOfId(p, l)
  BY <1>4, <1>5 DEF LastOfId
<1> HIDE DEF Same, S
<1> QED
  BY <1>6 DEF Position

\* byID finds a node of the spec, so that a known id has dependencies.
LEMMA DepsType ==
    ASSUME NEW p \in Specs, NEW x \in Known(p)
    PROVE  Deps(p, x) \in Seq(ID)
BY PositionFacts, SpecType DEF Deps, byID

\* A last node is the one byID has for its id.
LEMMA LastIsPosition ==
    ASSUME NEW p \in Specs, NEW i \in 1..Len(p), LastOfId(p, i)
    PROVE  p[i].id \in Known(p) /\ Position(p, p[i].id) = i
<1> DEFINE q == Position(p, p[i].id)
<1>1. Len(p) \in Nat /\ p[i].id \in Known(p)
  BY SpecType DEF Known
<1>2. q \in 1..Len(p) /\ p[q].id = p[i].id /\ LastOfId(p, q)
  BY <1>1, PositionFacts
<1> HIDE DEF q
<1>3. ~(q < i)
  <2> SUFFICES ASSUME q < i PROVE FALSE
    OBVIOUS
  <2>1. i \in (q + 1)..Len(p)
    BY <1>1, <1>2
  <2> QED
    BY <1>2, <2>1 DEF LastOfId
<1>4. ~(i < q)
  <2> SUFFICES ASSUME i < q PROVE FALSE
    OBVIOUS
  <2>1. q \in (i + 1)..Len(p)
    BY <1>1, <1>2
  <2> QED
    BY <1>2, <2>1 DEF LastOfId
<1>5. q = i
  BY <1>1, <1>2, <1>3, <1>4
<1> QED
  BY <1>1, <1>5 DEF q

-----------------------------------------------------------------------------
(* The call stack. *)

FrameType(p) == [id : Known(p), k : Nat \ {0}]

\* A nonempty sequence without its last element.
LEMMA FrontFacts ==
    ASSUME NEW T, NEW s \in Seq(T), s # <<>>
    PROVE  /\ SubSeq(s, 1, Len(s) - 1) \in Seq(T)
           /\ Len(SubSeq(s, 1, Len(s) - 1)) = Len(s) - 1
           /\ \A p \in 1..(Len(s) - 1) : SubSeq(s, 1, Len(s) - 1)[p] = s[p]
<1> DEFINE n == Len(s) - 1
<1>1. n \in Nat /\ \A p \in 1..n : s[p] \in T
  OBVIOUS
<1> HIDE DEF n
<1>2. /\ SubSeq(s, 1, n) \in Seq(T)
      /\ Len(SubSeq(s, 1, n)) = IF 1 <= n THEN n - 1 + 1 ELSE 0
      /\ \A p \in 1..(n - 1 + 1) : SubSeq(s, 1, n)[p] = s[1 + p - 1]
  BY <1>1, SubSeqProperties
<1>3. Len(SubSeq(s, 1, n)) = n
  BY <1>1, <1>2
<1>4. \A p \in 1..n : SubSeq(s, 1, n)[p] = s[p]
  <2> SUFFICES ASSUME NEW p \in 1..n PROVE SubSeq(s, 1, n)[p] = s[p]
    OBVIOUS
  <2>1. p \in 1..(n - 1 + 1) /\ 1 + p - 1 = p
    BY <1>1
  <2> QED
    BY <1>2, <2>1
<1> QED
  BY <1>2, <1>3, <1>4 DEF n

\* The innermost call and what lies under it.
LEMMA StackFacts ==
    ASSUME TypeOK, stack # <<>>
    PROVE  /\ Len(stack) \in Nat \ {0}
           /\ Top = stack[Len(stack)]
           /\ Top.id \in Known(spec)
           /\ Top.k \in Nat \ {0}
           /\ Deps(spec, Top.id) \in Seq(ID)
           /\ Callers \in Seq(FrameType(spec))
           /\ Len(Callers) = Len(stack) - 1
           /\ \A p \in 1..(Len(stack) - 1) : Callers[p] = stack[p]
<1>1. stack \in Seq(FrameType(spec)) /\ spec \in Specs
  BY DEF TypeOK, FrameType
<1>2. Len(stack) \in Nat \ {0}
  BY <1>1
<1>3. stack[Len(stack)] \in FrameType(spec)
  BY <1>1, <1>2
<1>4. Callers \in Seq(FrameType(spec)) /\ Len(Callers) = Len(stack) - 1
      /\ \A p \in 1..(Len(stack) - 1) : Callers[p] = stack[p]
  BY <1>1, FrontFacts DEF Callers
<1>5. Top.id \in Known(spec) /\ Top.k \in Nat \ {0}
  BY <1>3 DEF Top, FrameType
<1> QED
  BY <1>1, <1>2, <1>4, <1>5, DepsType DEF Top

\* The types of the frames of a stack.
LEMMA FrameFacts ==
    ASSUME TypeOK, NEW p \in 1..Len(stack)
    PROVE  /\ stack[p].id \in Known(spec)
           /\ stack[p].k \in Nat \ {0}
           /\ Deps(spec, stack[p].id) \in Seq(ID)
<1>1. stack \in Seq(FrameType(spec)) /\ spec \in Specs
  BY DEF TypeOK, FrameType
<1>2. stack[p] \in FrameType(spec)
  BY <1>1
<1>3. stack[p].id \in Known(spec) /\ stack[p].k \in Nat \ {0}
  BY <1>2 DEF FrameType
<1> QED
  BY <1>1, <1>3, DepsType

-----------------------------------------------------------------------------
(* Return *)

LEMMA ReturnStep ==
    ASSUME IInv, Return
    PROVE  IInv'
<1> DEFINE n == Len(stack)
           t == stack[n].id
           m == Len(sorted)
<1>1. /\ TypeOK /\ Finished /\ DependenciesFirst /\ result = "none"
      /\ Open /\ Outer /\ \A p \in 1..n : Frame(p)
      /\ stack # <<>>
  BY DEF IInv, Searching, Return
<1>2. /\ n \in Nat \ {0} /\ t \in Known(spec) /\ stack[n].k \in Nat
      /\ Deps(spec, t) \in Seq(ID)
      /\ stack' \in Seq([id : Known(spec), k : Nat \ {0}])
      /\ Len(stack') = n - 1
      /\ \A p \in 1..(n - 1) : stack'[p] = stack[p]
  BY <1>1, StackFacts DEF Return, FrameType
<1>3. /\ sorted' = Append(sorted, t) /\ visited' = visited \cup {t}
      /\ inStack' = inStack \ {t} /\ stack[n].k > Len(Deps(spec, t))
      /\ UNCHANGED <<spec, next, result>>
  BY DEF Return, Top
<1>4. /\ sorted \in Seq(Known(spec)) /\ m \in Nat
      /\ sorted' \in Seq(Known(spec)) /\ Len(sorted') = m + 1
      /\ sorted'[m + 1] = t /\ \A i \in 1..m : sorted'[i] = sorted[i]
  BY <1>1, <1>2, <1>3 DEF TypeOK
<1>5. TypeOK'
  BY <1>1, <1>2, <1>3, <1>4 DEF TypeOK
<1>6. Finished'
  <2>1. 1..(m + 1) = (1..m) \cup {m + 1}
    BY <1>4
  <2> QED
    BY <1>1, <1>3, <1>4, <2>1 DEF Finished
<1>7. t \notin visited /\ \A p \in 1..(n - 1) : stack[p].id # t
  BY <1>1, <1>2 DEF Open
<1>8. \A d \in 1..Len(Deps(spec, t)) : Deps(spec, t)[d] \in visited
  BY <1>1, <1>2, <1>3 DEF Frame
<1>9. DependenciesFirst'
  <2> SUFFICES ASSUME NEW i \in 1..(m + 1)
               PROVE  /\ \A d \in 1..Len(Deps(spec, sorted'[i])) :
                           \E k \in 1..(i - 1) : sorted'[k] = Deps(spec, sorted'[i])[d]
                      /\ \A k \in 1..(i - 1) : sorted'[k] # sorted'[i]
    BY <1>3, <1>4 DEF DependenciesFirst
  <2>1. CASE i \in 1..m
    <3>1. sorted'[i] = sorted[i] /\ \A k \in 1..(i - 1) : sorted'[k] = sorted[k]
      BY <1>4, <2>1
    <3>2. /\ \A d \in 1..Len(Deps(spec, sorted[i])) :
               \E k \in 1..(i - 1) : sorted[k] = Deps(spec, sorted[i])[d]
          /\ \A k \in 1..(i - 1) : sorted[k] # sorted[i]
      BY <1>1, <2>1 DEF DependenciesFirst
    <3> QED
      BY <3>1, <3>2
  <2>2. CASE i = m + 1
    <3>1. sorted'[i] = t /\ 1..(i - 1) = 1..m
      BY <1>4, <2>2
    <3>2. \A k \in 1..m : sorted'[k] = sorted[k] /\ sorted[k] \in visited
      BY <1>1, <1>4 DEF Finished
    <3>3. \A y \in visited : \E k \in 1..m : sorted'[k] = y
      BY <1>1, <1>4 DEF Finished
    <3> QED
      BY <1>7, <1>8, <3>1, <3>2, <3>3
  <2> QED
    BY <1>4, <2>1, <2>2
<1>10. Open'
  <2>1. inStack' = {stack[p].id : p \in 1..(n - 1)}
    BY <1>1, <1>2, <1>3, <1>7 DEF Open
  <2>2. inStack' = {stack'[p].id : p \in 1..(n - 1)}
    BY <1>2, <2>1
  <2>3. ASSUME NEW p \in 1..(n - 1)
        PROVE  stack'[p].id \notin visited'
    <3>1. p \in 1..n /\ stack'[p] = stack[p]
      BY <1>2
    <3>2. stack[p].id \notin visited /\ stack[p].id # t
      BY <1>1, <1>7, <3>1 DEF Open
    <3> QED
      BY <1>3, <3>1, <3>2
  <2>4. ASSUME NEW p \in 1..(n - 1), NEW q \in 1..(n - 1), stack'[p].id = stack'[q].id
        PROVE  p = q
    <3>1. p \in 1..n /\ q \in 1..n
      BY <1>2
    <3>2. stack[p].id = stack[q].id
      BY <1>2, <2>4
    <3> QED
      BY <1>1, <3>1, <3>2 DEF Open
  <2> QED
    BY <1>2, <2>2, <2>3, <2>4 DEF Open
<1>11. \A p \in 1..(n - 1) : Frame(p)'
  <2> SUFFICES ASSUME NEW p \in 1..(n - 1)
               PROVE  Frame(p)'
    OBVIOUS
  <2>1. Frame(p) /\ p \in 1..n /\ p < n /\ stack'[p] = stack[p]
    BY <1>1, <1>2
  <2>2. stack[p].k \in Nat \ {0} /\ Deps(spec, stack[p].id) \in Seq(ID)
    BY <1>1, <2>1, FrameFacts
  <2>3. ASSUME NEW d \in 1..(stack[p].k - 1)
        PROVE  \/ Deps(spec, stack[p].id)[d] \in visited'
               \/ p < n - 1 /\ d = stack[p].k - 1
    <3>1. CASE p < n - 1
      BY <1>3, <2>1, <3>1 DEF Frame
    <3>2. CASE p = n - 1
      <4>1. t = Deps(spec, stack[p].id)[stack[p].k - 1]
        BY <1>2, <2>1, <3>2 DEF Frame
      <4> QED
        BY <1>3, <2>1, <4>1 DEF Frame
    <3> QED
      BY <1>2, <3>1, <3>2
  <2>4. p < n - 1 => p + 1 \in 1..(n - 1)
    BY <1>2
  <2>5. p < n - 1 => stack'[p + 1] = stack[p + 1]
    BY <1>2, <2>4
  <2> QED
    BY <1>2, <1>3, <2>1, <2>2, <2>3, <2>5 DEF Frame
<1>12. Outer'
  <2> SUFFICES ASSUME NEW i \in 1..(next - 1)
               PROVE  \/ spec[i].id \in visited'
                      \/ i = next - 1 /\ stack' # <<>> /\ stack'[1].id = spec[i].id
    BY <1>3 DEF Outer
  <2>1. CASE n = 1
    BY <1>1, <1>3, <2>1 DEF Outer
  <2>2. CASE n > 1
    <3>1. stack' # <<>> /\ stack'[1] = stack[1]
      BY <1>2, <2>2
    <3> QED
      BY <1>1, <1>3, <3>1 DEF Outer
  <2> QED
    BY <1>2, <2>1, <2>2
<1>13. Searching'
  BY <1>2, <1>10, <1>11, <1>12 DEF Searching
<1>14. AllIds' /\ ErrorsReal'
  BY <1>1, <1>3 DEF AllIds, ErrorsReal
<1> QED
  BY <1>5, <1>6, <1>9, <1>13, <1>14 DEF IInv

-----------------------------------------------------------------------------
(* VisitDep *)

\* The call of a node whose search is in progress closes a cycle: the calls
\* from that one on.
LEMMA CycleReal ==
    ASSUME TypeOK, Open, \A p \in 1..Len(stack) : Frame(p), stack # <<>>,
           Top.k <= Len(Deps(spec, Top.id)),
           Deps(spec, Top.id)[Top.k] \in inStack
    PROVE  ~Loopless(spec)
<1> DEFINE n == Len(stack)
           id == Deps(spec, stack[n].id)[stack[n].k]
<1>1. n \in Nat \ {0} /\ Top = stack[n]
  BY StackFacts
<1>2. PICK p \in 1..n : stack[p].id = id
  BY <1>1 DEF Open
<1> DEFINE S == {stack[q].id : q \in p..n}
<1>3. \A q \in p..n : q \in 1..n
  BY <1>1
<1>4. S \in SUBSET Known(spec) /\ S # {}
  <2>1. S \subseteq Known(spec)
    BY <1>3, FrameFacts
  <2>2. p \in p..n
    BY <1>1
  <2> QED
    BY <2>1, <2>2
<1>5. ASSUME NEW q \in p..n
      PROVE  \E y \in S : DependsOn(spec, stack[q].id, y)
  <2> DEFINE x == stack[q].id
  <2>1. /\ q \in 1..n /\ Frame(q) /\ stack[q].k \in Nat \ {0}
        /\ Deps(spec, x) \in Seq(ID)
    BY <1>3, FrameFacts
  <2>2. CASE q < n
    <3>1. stack[q].k - 1 \in 1..Len(Deps(spec, x))
          /\ stack[q + 1].id = Deps(spec, x)[stack[q].k - 1]
      BY <2>1, <2>2 DEF Frame
    <3>2. q + 1 \in p..n
      BY <1>1, <2>2
    <3> QED
      BY <3>1, <3>2 DEF DependsOn
  <2>3. CASE q = n
    <3>1. stack[q].k \in 1..Len(Deps(spec, x)) /\ id = Deps(spec, x)[stack[q].k]
      BY <1>1, <2>1, <2>3
    <3>2. id \in S
      BY <1>1, <1>2
    <3> QED
      BY <3>1, <3>2 DEF DependsOn
  <2> QED
    BY <1>1, <2>2, <2>3
<1>6. \A x \in S : \E y \in S : DependsOn(spec, x, y)
  BY <1>5
<1> HIDE DEF S
<1> QED
  BY <1>4, <1>6 DEF Loopless

\* The stack a dependency is visited from: the loop of the innermost call has
\* gone one further.
LEMMA CallsFacts ==
    ASSUME TypeOK, stack # <<>>,
           NEW calls, calls = Append(Callers, [id |-> Top.id, k |-> Top.k + 1])
    PROVE  /\ calls \in Seq(FrameType(spec)) /\ Len(calls) = Len(stack)
           /\ \A p \in 1..Len(stack) : calls[p].id = stack[p].id
           /\ \A p \in 1..(Len(stack) - 1) : calls[p].k = stack[p].k
           /\ calls[Len(stack)].k = stack[Len(stack)].k + 1
<1> DEFINE n == Len(stack)
           f == [id |-> Top.id, k |-> Top.k + 1]
<1>1. /\ n \in Nat \ {0} /\ Top = stack[n] /\ Top.id \in Known(spec)
      /\ Top.k \in Nat \ {0} /\ Callers \in Seq(FrameType(spec))
      /\ Len(Callers) = n - 1 /\ \A p \in 1..(n - 1) : Callers[p] = stack[p]
  BY StackFacts
<1>2. f \in FrameType(spec)
  BY <1>1 DEF FrameType
<1> HIDE DEF f
<1>3. /\ calls \in Seq(FrameType(spec)) /\ Len(calls) = n
      /\ \A p \in 1..(n - 1) : calls[p] = stack[p]
      /\ calls[n] = f
  BY <1>1, <1>2 DEF f
<1>4. f.id = stack[n].id /\ f.k = stack[n].k + 1
  BY <1>1 DEF f
<1>5. ASSUME NEW p \in 1..n
      PROVE  calls[p].id = stack[p].id
  <2>1. p \in 1..(n - 1) \/ p = n
    BY <1>1
  <2> QED
    BY <1>3, <1>4, <2>1
<1> QED
  BY <1>3, <1>4, <1>5

\* The loops of the calls after a visit that succeeded: the innermost has passed
\* id, which is finished or has become a call of its own.
LEMMA FramesStep ==
    ASSUME TypeOK, \A p \in 1..Len(stack) : Frame(p), stack # <<>>,
           Top.k <= Len(Deps(spec, Top.id)),
           UNCHANGED <<spec, visited>>,
           Len(stack') \in {Len(stack), Len(stack) + 1},
           \A p \in 1..Len(stack) : stack'[p].id = stack[p].id,
           \A p \in 1..(Len(stack) - 1) : stack'[p].k = stack[p].k,
           stack'[Len(stack)].k = Top.k + 1,
           \/ /\ Len(stack') = Len(stack)
              /\ Deps(spec, Top.id)[Top.k] \in visited
           \/ /\ Len(stack') = Len(stack) + 1
              /\ stack'[Len(stack) + 1].id = Deps(spec, Top.id)[Top.k]
    PROVE  \A p \in 1..Len(stack) : Frame(p)'
<1> DEFINE n == Len(stack)
<1>1. n \in Nat \ {0} /\ Top = stack[n]
  BY StackFacts
<1> SUFFICES ASSUME NEW p \in 1..n
             PROVE  Frame(p)'
  OBVIOUS
<1>2. /\ Frame(p) /\ stack[p].k \in Nat \ {0} /\ Deps(spec, stack[p].id) \in Seq(ID)
      /\ stack'[p].id = stack[p].id
  BY FrameFacts
<1>3. CASE p < n
  <2>1. p \in 1..(n - 1) /\ p + 1 \in 1..n
    BY <1>1, <1>3
  <2>2. stack'[p].k = stack[p].k /\ stack'[p + 1].id = stack[p + 1].id
        /\ p < Len(stack')
    BY <1>1, <1>3, <2>1
  <2> QED
    BY <1>2, <1>3, <2>2 DEF Frame
<1>4. CASE p = n
  <2>1. /\ stack'[p].k = stack[p].k + 1
        /\ stack[p].k <= Len(Deps(spec, stack[p].id))
        /\ \A d \in 1..(stack[p].k - 1) : Deps(spec, stack[p].id)[d] \in visited
    BY <1>1, <1>2, <1>4 DEF Frame
  <2>2. ASSUME NEW d \in 1..(stack'[p].k - 1)
        PROVE  \/ Deps(spec, stack[p].id)[d] \in visited
               \/ p < Len(stack') /\ d = stack'[p].k - 1
    <3>1. d \in 1..(stack[p].k - 1) \/ d = stack[p].k
      BY <1>2, <2>1
    <3> QED
      BY <1>1, <1>2, <1>4, <2>1, <3>1
  <2>3. p < Len(stack') => stack'[p + 1].id = Deps(spec, stack[p].id)[stack'[p].k - 1]
    BY <1>1, <1>2, <1>4, <2>1
  <2>4. stack'[p].k <= Len(Deps(spec, stack[p].id)) + 1 /\ stack'[p].k > 1
    BY <1>2, <2>1
  <2> QED
    BY <1>2, <2>2, <2>3, <2>4 DEF Frame
<1> QED
  BY <1>1, <1>3, <1>4

LEMMA VisitDepStep ==
    ASSUME IInv, VisitDep
    PROVE  IInv'
<1> DEFINE n == Len(stack)
           id == Deps(spec, Top.id)[Top.k]
           calls == Append(Callers, [id |-> Top.id, k |-> Top.k + 1])
<1>1. /\ TypeOK /\ Finished /\ DependenciesFirst /\ result = "none"
      /\ Open /\ Outer /\ \A p \in 1..n : Frame(p)
      /\ stack # <<>> /\ Top.k <= Len(Deps(spec, Top.id)) /\ visit(id, calls)
      /\ UNCHANGED <<spec, next>>
  BY DEF IInv, Searching, VisitDep
<1>2. /\ n \in Nat \ {0} /\ Top = stack[n] /\ Top.id \in Known(spec)
      /\ Top.k \in Nat \ {0} /\ Deps(spec, Top.id) \in Seq(ID)
  BY <1>1, StackFacts
<1>3. /\ calls \in Seq(FrameType(spec)) /\ Len(calls) = n
      /\ \A p \in 1..n : calls[p].id = stack[p].id
      /\ \A p \in 1..(n - 1) : calls[p].k = stack[p].k
      /\ calls[n].k = Top.k + 1
  BY <1>1, <1>2, CallsFacts
<1>4. id \in ID
  BY <1>1, <1>2
<1> HIDE DEF calls, id
<1>5. visited' = visited /\ sorted' = sorted
  BY <1>1 DEF visit
<1>6. Finished' /\ DependenciesFirst'
  <2>1. Finished'
    BY <1>1, <1>5 DEF Finished
  <2>2. DependenciesFirst'
    BY <1>1, <1>5 DEF DependenciesFirst
  <2> QED
    BY <2>1, <2>2
<1>7. CASE id \in visited
  <2>1. stack' = calls /\ UNCHANGED <<inStack, result>>
    BY <1>1, <1>7 DEF visit
  <2>2. TypeOK'
    BY <1>1, <1>3, <1>5, <2>1 DEF TypeOK, FrameType
  <2>3. \A p \in 1..n : Frame(p)'
    BY <1>1, <1>2, <1>3, <1>5, <1>7, <2>1, FramesStep DEF id
  <2>4. Open'
    BY <1>1, <1>3, <1>5, <2>1 DEF Open
  <2>5. Outer'
    <3>1. stack' # <<>> /\ stack'[1].id = stack[1].id
      BY <1>2, <1>3, <2>1
    <3> QED
      BY <1>1, <1>5, <3>1 DEF Outer
  <2> QED
    BY <1>1, <1>3, <1>6, <2>1, <2>2, <2>3, <2>4, <2>5
    DEF IInv, Searching, AllIds, ErrorsReal
<1>8. CASE id \notin visited /\ id \in inStack
  <2>1. stack' = calls /\ result' = "cycle" /\ UNCHANGED inStack
    BY <1>1, <1>8 DEF visit
  <2>2. TypeOK'
    BY <1>1, <1>3, <1>5, <2>1 DEF TypeOK, FrameType
  <2>3. ~Loopless(spec)
    BY <1>1, <1>8, CycleReal DEF id
  <2> QED
    BY <1>1, <1>6, <2>1, <2>2, <2>3 DEF IInv, Searching, AllIds, ErrorsReal
<1>9. CASE id \notin visited \cup inStack /\ id \notin Known(spec)
  <2>1. stack' = calls /\ result' = "unknown" /\ inStack' = inStack \cup {id}
    BY <1>1, <1>9 DEF visit
  <2>2. TypeOK'
    BY <1>1, <1>3, <1>4, <1>5, <2>1 DEF TypeOK, FrameType
  <2>3. DependsOn(spec, Top.id, id)
    BY <1>1, <1>2 DEF DependsOn, id
  <2>4. ~Closed(spec)
    BY <1>2, <1>4, <1>9, <2>3 DEF Closed
  <2> QED
    BY <1>1, <1>6, <2>1, <2>2, <2>4 DEF IInv, Searching, AllIds, ErrorsReal
<1>10. CASE id \notin visited \cup inStack /\ id \in Known(spec)
  <2> DEFINE f == [id |-> id, k |-> 1]
  <2>1. /\ stack' = Append(calls, f) /\ UNCHANGED result
        /\ inStack' = inStack \cup {id}
    BY <1>1, <1>10 DEF visit
  <2>2. f \in FrameType(spec) /\ f.id = id /\ f.k = 1
    BY <1>10 DEF FrameType
  <2> HIDE DEF f
  <2>3. /\ stack' \in Seq(FrameType(spec)) /\ Len(stack') = n + 1
        /\ \A p \in 1..n : stack'[p] = calls[p]
        /\ stack'[n + 1] = f
    BY <1>2, <1>3, <2>1, <2>2
  <2>4. TypeOK'
    BY <1>1, <1>4, <1>5, <2>1, <2>3 DEF TypeOK, FrameType
  <2>5. /\ \A p \in 1..n : stack'[p].id = stack[p].id
        /\ \A p \in 1..(n - 1) : stack'[p].k = stack[p].k
        /\ stack'[n].k = Top.k + 1
        /\ stack'[n + 1].id = id /\ stack'[n + 1].k = 1
    <3>1. \A p \in 1..n : stack'[p].id = stack[p].id
      BY <1>3, <2>3
    <3>2. \A p \in 1..(n - 1) : p \in 1..n
      BY <1>2
    <3>3. \A p \in 1..(n - 1) : stack'[p].k = stack[p].k
      BY <1>3, <2>3, <3>2
    <3>4. n \in 1..n
      BY <1>2
    <3>5. stack'[n].k = Top.k + 1
      BY <1>3, <2>3, <3>4
    <3> QED
      BY <2>2, <2>3, <3>1, <3>3, <3>5
  <2>6. \A p \in 1..n : Frame(p)'
    BY <1>1, <1>2, <1>5, <2>3, <2>5, FramesStep DEF id
  <2>7. ASSUME NEW q, q = n + 1
        PROVE  Frame(q)'
    <3>1. Deps(spec, id) \in Seq(ID)
      BY <1>1, <1>10, DepsType DEF TypeOK
    <3>2. QED
      <4>1. /\ Len(Deps(spec, id)) \in Nat /\ ~(n + 1 < Len(stack'))
            /\ 1..(stack'[n + 1].k - 1) = {} /\ 1 <= Len(Deps(spec, id)) + 1
        BY <1>2, <2>3, <2>5, <3>1
      <4> QED
        BY <1>1, <2>5, <2>7, <4>1 DEF Frame
  <2>8. 1..(n + 1) = (1..n) \cup {n + 1}
    BY <1>2
  <2>9. Open'
    <3>1. inStack' = {stack'[p].id : p \in 1..(n + 1)}
      <4>1. inStack = {stack'[p].id : p \in 1..n}
        BY <1>1, <2>5 DEF Open
      <4> QED
        BY <2>1, <2>5, <2>8, <4>1
    <3>2. \A p \in 1..(n + 1) : stack'[p].id \notin visited'
      BY <1>1, <1>5, <1>10, <2>5, <2>8 DEF Open
    <3>3. \A p \in 1..n : stack[p].id # id
      BY <1>1, <1>10 DEF Open
    <3>4. \A p, q \in 1..(n + 1) : stack'[p].id = stack'[q].id => p = q
      BY <1>1, <2>5, <2>8, <3>3 DEF Open
    <3> QED
      BY <2>3, <3>1, <3>2, <3>4 DEF Open
  <2>10. Outer'
    <3>1. stack' # <<>> /\ stack'[1].id = stack[1].id
      BY <1>2, <2>3, <2>5
    <3> QED
      BY <1>1, <1>5, <3>1 DEF Outer
  <2>11. \A p \in 1..Len(stack') : Frame(p)'
    <3> TAKE q \in 1..Len(stack')
    <3>1. q \in 1..n \/ q = n + 1
      BY <2>3, <2>8
    <3> QED
      BY <2>6, <2>7, <3>1
  <2>12. Searching'
    BY <2>9, <2>10, <2>11 DEF Searching
  <2> QED
    BY <1>1, <1>6, <2>1, <2>4, <2>12 DEF IInv, AllIds, ErrorsReal
<1> QED
  BY <1>7, <1>8, <1>9, <1>10

-----------------------------------------------------------------------------
(* The outer loop, the end and the start. *)

\* No call is in progress: the node is finished already or its call begins.
LEMMA VisitNodeStep ==
    ASSUME IInv, VisitNode
    PROVE  IInv'
<1> DEFINE id == spec[next].id
           f == [id |-> id, k |-> 1]
<1>1. /\ TypeOK /\ Finished /\ DependenciesFirst /\ result = "none"
      /\ Open /\ Outer /\ stack = <<>> /\ next <= Len(spec) /\ visit(id, stack)
      /\ next' = next + 1 /\ UNCHANGED spec
  BY DEF IInv, Searching, VisitNode
<1>2. /\ spec \in Specs /\ Len(spec) \in Nat /\ next \in 1..Len(spec)
      /\ next' \in 1..(Len(spec) + 1)
  BY <1>1, SpecType DEF TypeOK
<1>3. id \in Known(spec) /\ id \in ID
  BY <1>2, SpecType DEF Known
<1>4. inStack = {} /\ Len(stack) = 0
  BY <1>1 DEF Open
<1> HIDE DEF id
<1>5. visited' = visited /\ sorted' = sorted
  BY <1>1 DEF visit
<1>6. Finished' /\ DependenciesFirst'
  <2>1. Finished'
    BY <1>1, <1>5 DEF Finished
  <2>2. DependenciesFirst'
    BY <1>1, <1>5 DEF DependenciesFirst
  <2> QED
    BY <2>1, <2>2
<1>7. \A i \in 1..(next - 1) : spec[i].id \in visited
  BY <1>1 DEF Outer
<1>8. 1..(next' - 1) = (1..(next - 1)) \cup {next}
  BY <1>1, <1>2
<1>9. CASE id \in visited
  <2>1. stack' = stack /\ UNCHANGED <<inStack, result>>
    BY <1>1, <1>9 DEF visit
  <2>2. TypeOK'
    BY <1>1, <1>2, <1>5, <2>1 DEF TypeOK
  <2>3. Open'
    BY <1>1, <1>4, <1>5, <2>1 DEF Open
  <2>4. Outer'
    BY <1>1, <1>5, <1>7, <1>8, <1>9 DEF Outer, id
  <2>5. \A p \in 1..Len(stack') : Frame(p)'
    BY <1>4, <2>1
  <2> QED
    BY <1>1, <1>6, <2>1, <2>2, <2>3, <2>4, <2>5
    DEF IInv, Searching, AllIds, ErrorsReal
<1>10. CASE id \notin visited
  <2>1. stack' = <<f>> /\ inStack' = {id} /\ UNCHANGED result
    BY <1>1, <1>3, <1>4, <1>10 DEF visit
  <2>2. f \in FrameType(spec) /\ f.id = id /\ f.k = 1
    BY <1>3 DEF FrameType
  <2> HIDE DEF f
  <2>3. stack' \in Seq(FrameType(spec)) /\ Len(stack') = 1 /\ stack'[1] = f
    BY <2>1, <2>2
  <2>4. TypeOK'
    BY <1>1, <1>2, <1>3, <1>5, <2>1, <2>3 DEF TypeOK, FrameType
  <2>5. 1..Len(stack') = {1}
    BY <2>3
  <2>6. Open'
    BY <1>5, <1>10, <2>1, <2>2, <2>3, <2>5 DEF Open
  <2>7. Frame(1)'
    <3>1. Deps(spec, id) \in Seq(ID)
      BY <1>2, <1>3, DepsType
    <3>2. /\ Len(Deps(spec, id)) \in Nat /\ ~(1 < Len(stack'))
          /\ 1..(stack'[1].k - 1) = {} /\ 1 <= Len(Deps(spec, id)) + 1
      BY <2>2, <2>3, <3>1
    <3> QED
      BY <1>1, <2>2, <2>3, <3>2 DEF Frame
  <2>8. Outer'
    <3>1. stack' # <<>> /\ stack'[1].id = spec[next].id
      BY <2>1, <2>2, <2>3 DEF id
    <3>2. \A i \in 1..(next' - 1) : i \in 1..(next - 1) \/ (i = next /\ i = next' - 1)
      BY <1>1, <1>2, <1>8
    <3> QED
      BY <1>1, <1>5, <1>7, <3>1, <3>2 DEF Outer
  <2>9. Searching'
    <3>1. \A p \in 1..Len(stack') : Frame(p)'
      BY <2>5, <2>7
    <3> QED
      BY <2>6, <2>8, <3>1 DEF Searching
  <2> QED
    BY <1>1, <1>6, <2>1, <2>4, <2>9 DEF IInv, AllIds, ErrorsReal
<1> QED
  BY <1>9, <1>10

\* Of the members of a set the one that comes first in the output depends on
\* none of the others.
LEMMA SortedLoopless ==
    ASSUME TypeOK, DependenciesFirst, Known(spec) = {sorted[i] : i \in 1..Len(sorted)}
    PROVE  Loopless(spec) /\ Closed(spec)
<1>1. Len(sorted) \in Nat
  BY DEF TypeOK
<1>2. ASSUME NEW S \in SUBSET Known(spec), S # {}
      PROVE  \E x \in S : \A y \in S : ~DependsOn(spec, x, y)
  <2> DEFINE P == {i \in 1..Len(sorted) : sorted[i] \in S}
  <2>1. P \in SUBSET Nat /\ P # {}
    BY <1>1, <1>2
  <2>2. PICK m \in P : \A i \in P : m <= i
    BY <2>1, LeastElement
  <2>3. ASSUME NEW y \in S, DependsOn(spec, sorted[m], y)
        PROVE  FALSE
    <3>1. PICK k \in 1..(m - 1) : sorted[k] = y
      BY <2>3 DEF DependsOn, DependenciesFirst
    <3>2. k \in P
      BY <1>1, <3>1
    <3> QED
      BY <1>1, <2>2, <3>1, <3>2
  <2> QED
    BY <2>3
<1>3. ASSUME NEW x \in Known(spec), NEW y \in ID, DependsOn(spec, x, y)
      PROVE  y \in Known(spec)
  <2>1. PICK i \in 1..Len(sorted) : sorted[i] = x
    OBVIOUS
  <2>2. PICK k \in 1..(i - 1) : sorted[k] = y
    BY <1>3, <2>1 DEF DependsOn, DependenciesFirst
  <2>3. k \in 1..Len(sorted)
    BY <1>1
  <2> QED
    BY <2>2, <2>3
<1> QED
  BY <1>2, <1>3 DEF Loopless, Closed

LEMMA FinishStep ==
    ASSUME IInv, Finish
    PROVE  IInv'
<1>1. /\ TypeOK /\ Finished /\ DependenciesFirst /\ Outer
      /\ stack = <<>> /\ next > Len(spec) /\ result' = "sorted"
      /\ UNCHANGED <<spec, next, stack, visited, inStack, sorted>>
  BY DEF IInv, Searching, Finish
<1>2. Len(spec) \in Nat /\ next = Len(spec) + 1 /\ visited \subseteq Known(spec)
  BY <1>1, SpecType DEF TypeOK
<1>3. \A i \in 1..Len(spec) : spec[i].id \in visited
  BY <1>1, <1>2 DEF Outer
<1>4. Known(spec) = visited
  BY <1>2, <1>3 DEF Known
<1>5. Known(spec) = {sorted[i] : i \in 1..Len(sorted)}
  BY <1>1, <1>4 DEF Finished
<1>6. AllIds' /\ ErrorsReal'
  BY <1>1, <1>5, SortedLoopless DEF AllIds, ErrorsReal
<1>7. TypeOK' /\ Searching'
  BY <1>1 DEF TypeOK, Searching
<1>8. Finished' /\ DependenciesFirst'
  <2>1. Finished'
    BY <1>1 DEF Finished
  <2>2. DependenciesFirst'
    BY <1>1 DEF DependenciesFirst
  <2> QED
    BY <2>1, <2>2
<1> QED
  BY <1>6, <1>7, <1>8 DEF IInv

LEMMA IInvInit == Init => IInv
<1> SUFFICES ASSUME Init PROVE IInv
  OBVIOUS
<1>1. /\ spec \in Specs /\ next = 1 /\ stack = <<>> /\ visited = {} /\ inStack = {}
      /\ sorted = <<>> /\ result = "none" /\ Len(spec) \in Nat
  BY SpecType DEF Init
<1>2. TypeOK
  BY <1>1 DEF TypeOK
<1>3. Finished /\ DependenciesFirst /\ AllIds /\ ErrorsReal
  BY <1>1 DEF Finished, DependenciesFirst, AllIds, ErrorsReal
<1>4. Searching
  BY <1>1 DEF Searching, Open, Outer
<1> QED
  BY <1>2, <1>3, <1>4 DEF IInv

LEMMA IInvStep == IInv /\ [Next]_tvars => IInv'
<1> SUFFICES ASSUME IInv, [Next]_tvars PROVE IInv'
  OBVIOUS
<1>1. CASE VisitNode
  BY <1>1, VisitNodeStep
<1>2. CASE VisitDep
  BY <1>2, VisitDepStep
<1>3. CASE Return
  BY <1>3, ReturnStep
<1>4. CASE Finish
  BY <1>4, FinishStep
<1>5. CASE UNCHANGED tvars
  <2>1. TypeOK' /\ AllIds' /\ ErrorsReal'
    BY <1>5 DEF tvars, IInv, TypeOK, AllIds, ErrorsReal
  <2>2. Finished'
    BY <1>5 DEF tvars, IInv, Finished
  <2>3. DependenciesFirst'
    BY <1>5 DEF tvars, IInv, DependenciesFirst
  <2>4. Searching'
    BY <1>5 DEF tvars, IInv, Searching, Open, Frame, Outer
  <2> QED
    BY <2>1, <2>2, <2>3, <2>4 DEF IInv
<1> QED
  BY <1>1, <1>2, <1>3, <1>4, <1>5 DEF Next

LEMMA IInvAlways == Spec => []IInv
BY IInvInit, IInvStep, PTL DEF Spec

-----------------------------------------------------------------------------
(* The theorems, for every spec. *)

\* TypeCorrect: the search stays within the strings of the spec, and every call
\* of visit in progress is for a node of it.
THEOREM TypeCorrect == Spec => []TypeOK
<1>1. IInv => TypeOK
  BY DEF IInv
<1> QED
  BY <1>1, IInvAlways, PTL

\* SortOrder: whatever the spec, the output of TopoSort (scheduler.go:152-194)
\* is in dependency order at every moment, without repetitions.
THEOREM SortOrder == Spec => []DependenciesFirst
<1>1. IInv => DependenciesFirst
  BY DEF IInv
<1> QED
  BY <1>1, IInvAlways, PTL

\* No two nodes of a spec have the same id.
Distinct(p) == \A i, k \in 1..Len(p) : p[i].id = p[k].id => i = k

\* SortComplete: a sort that succeeds returns the last node of every id and no
\* other (scheduler.go:153-156,182-186); it returns all nodes of the spec when
\* their ids are distinct.
THEOREM SortComplete ==
    Spec => [](SortedComplete /\ (Distinct(spec) => NodesReturned))
<1>1. IInv => SortedComplete
  <2> SUFFICES ASSUME IInv, result = "sorted"
               PROVE  Output = {i \in 1..Len(spec) : LastOfId(spec, i)}
    BY DEF SortedComplete
  <2>1. spec \in Specs /\ {sorted[i] : i \in 1..Len(sorted)} = Known(spec)
    BY DEF IInv, TypeOK, AllIds
  <2>2. Output = {Position(spec, x) : x \in Known(spec)}
    BY <2>1 DEF Output
  <2>3. \A x \in Known(spec) :
          Position(spec, x) \in {i \in 1..Len(spec) : LastOfId(spec, i)}
    BY <2>1, PositionFacts
  <2>4. ASSUME NEW i \in 1..Len(spec), LastOfId(spec, i)
        PROVE  i \in {Position(spec, x) : x \in Known(spec)}
    <3>1. spec[i].id \in Known(spec) /\ Position(spec, spec[i].id) = i
      BY <2>1, <2>4, LastIsPosition
    <3> QED
      BY <3>1
  <2> QED
    BY <2>2, <2>3, <2>4
<1>2. IInv /\ Distinct(spec) => NodesReturned
  <2> SUFFICES ASSUME IInv, Distinct(spec), result = "sorted"
               PROVE  Output = 1..Len(spec)
    BY DEF NodesReturned
  <2>1. Len(spec) \in Nat
    BY SpecType DEF IInv, TypeOK
  <2>2. \A i \in 1..Len(spec) : LastOfId(spec, i)
    BY <2>1 DEF Distinct, LastOfId
  <2> QED
    BY <1>1, <2>2 DEF SortedComplete
<1> QED
  BY <1>1, <1>2, IInvAlways, PTL

\* SortDecides: TopoSort answers "cycle" only for a spec that has one and
\* "unknown" only for a dependency without a node, and succeeds only for specs
\* with neither (scheduler.go:169-176).
THEOREM SortDecides == Spec => []ErrorsReal
<1>1. IInv => ErrorsReal
  BY DEF IInv
<1> QED
  BY <1>1, IInvAlways, PTL

-----------------------------------------------------------------------------
(* Patterns *)

\* Between two stars a cut moves by one character at a time.
LEMMA Climb ==
    ASSUME NEW n \in Nat, NEW cut \in [0..n -> Nat], NEW a \in 0..n, NEW b \in a..n,
           \A i \in (a + 1)..b : cut[i] = cut[i - 1] + 1
    PROVE  \A i \in a..b : cut[i] = cut[a] + (i - a)
<1> DEFINE Off == {i \in a..b : cut[i] # cut[a] + (i - a)}
<1> SUFFICES ASSUME Off # {}
             PROVE  FALSE
  OBVIOUS
<1>1. Off \in SUBSET Nat
  OBVIOUS
<1>2. PICK m \in Off : \A i \in Off : m <= i
  BY <1>1, LeastElement
<1>3. m \in a..b /\ m # a /\ cut[m] # cut[a] + (m - a)
  BY <1>2
<1>4. m - 1 \in a..b /\ m - 1 \notin Off /\ m \in (a + 1)..b
  BY <1>2, <1>3
<1>5. cut[m - 1] = cut[a] + ((m - 1) - a) /\ cut[m] = cut[m - 1] + 1
  BY <1>4
<1> QED
  BY <1>3, <1>5

\* The cuts that show that p matches s.
Cuts(p, s) ==
    {cut \in [0..Len(p) -> 0..Len(s)] :
       /\ cut[0] = 0 /\ cut[Len(p)] = Len(s)
       /\ \A i \in 1..Len(p) :
            IF p[i] = Star THEN cut[i - 1] <= cut[i]
            ELSE cut[i] = cut[i - 1] + 1 /\ p[i] = s[cut[i]]}

LEMMA GlobCuts == \A p, s : Glob(p, s) <=> Cuts(p, s) # {}
BY DEF Glob, Cuts

\* A pattern without a star is matched by itself only.
LEMMA PlainMatch ==
    ASSUME NEW T, NEW p \in Seq(T), NEW s \in Seq(T), Stars(p) = {}
    PROVE  Glob(p, s) <=> p = s
<1>1. Len(p) \in Nat /\ Len(s) \in Nat /\ \A i \in 1..Len(p) : p[i] # Star
  BY DEF Stars
<1>2. ASSUME NEW cut \in Cuts(p, s)
      PROVE  p = s
  <2>1. /\ cut \in [0..Len(p) -> Nat]
        /\ cut[0] = 0 /\ cut[Len(p)] = Len(s)
        /\ \A i \in (0 + 1)..Len(p) : cut[i] = cut[i - 1] + 1 /\ p[i] = s[cut[i]]
    BY <1>1 DEF Cuts
  <2>2. 0 \in 0..Len(p) /\ Len(p) \in 0..Len(p)
    BY <1>1
  <2>3. \A i \in (0 + 1)..Len(p) : cut[i] = cut[i - 1] + 1
    BY <2>1
  <2>4. \A i \in 0..Len(p) : cut[i] = cut[0] + (i - 0)
    BY ONLY <1>1, <2>1, <2>2, <2>3, Climb
  <2>5. \A i \in 0..Len(p) : cut[i] = i
    BY <2>1, <2>4
  <2>6. Len(p) = Len(s) /\ \A i \in 1..Len(p) : p[i] = s[i]
    BY <1>1, <2>1, <2>5
  <2> QED
    BY <2>6, SeqEqual
<1>3. ASSUME p = s
      PROVE  Cuts(p, s) # {}
  <2> DEFINE cut == [i \in 0..Len(p) |-> i]
  <2>1. cut \in Cuts(p, s)
    BY <1>1, <1>3 DEF Cuts
  <2> QED
    BY <2>1
<1> QED
  BY <1>2, <1>3, GlobCuts

\* One with a last star only is matched by what begins with the rest of it.
LEMMA PrefixMatch ==
    ASSUME NEW T, NEW p \in Seq(T), NEW s \in Seq(T), Stars(p) = {Len(p)}
    PROVE  Glob(p, s) <=> IsPrefix(Front(p), s)
<1> DEFINE n == Len(p) - 1
<1>1. /\ Len(p) \in Nat /\ Len(s) \in Nat /\ n \in Nat /\ Len(p) = n + 1
      /\ p[Len(p)] = Star /\ \A i \in 1..n : p[i] # Star
  BY DEF Stars
<1>2. /\ Front(p) \in Seq(T) /\ Len(Front(p)) = n
      /\ \A i \in 1..n : Front(p)[i] = p[i]
  BY <1>1 DEF Front
<1>3. IsPrefix(Front(p), s) <=> n <= Len(s) /\ \A i \in 1..n : p[i] = s[i]
  <2>1. SubSeq(Front(p), 1, n) = Front(p)
    BY <1>1, <1>2
  <2>2. ASSUME n <= Len(s)
        PROVE  /\ SubSeq(s, 1, n) \in Seq(T) /\ Len(SubSeq(s, 1, n)) = n
               /\ \A i \in 1..n : SubSeq(s, 1, n)[i] = s[i]
    BY <1>1, <2>2
  <2>3. ASSUME n <= Len(s)
        PROVE  Front(p) = SubSeq(s, 1, n) <=> \A i \in 1..n : p[i] = s[i]
    BY <1>2, <2>2, <2>3, SeqEqual
  <2> QED
    BY <1>2, <2>1, <2>3 DEF IsPrefix
<1>4. ASSUME NEW cut \in Cuts(p, s)
      PROVE  n <= Len(s) /\ \A i \in 1..n : p[i] = s[i]
  <2>1. /\ cut \in [0..Len(p) -> Nat] /\ cut[0] = 0 /\ \A i \in 0..Len(p) : cut[i] <= Len(s)
        /\ \A i \in (0 + 1)..n : cut[i] = cut[i - 1] + 1 /\ p[i] = s[cut[i]]
    BY <1>1 DEF Cuts
  <2>2. 0 \in 0..Len(p) /\ n \in 0..Len(p)
    BY <1>1
  <2>3. \A i \in (0 + 1)..n : cut[i] = cut[i - 1] + 1
    BY <2>1
  <2>4. \A i \in 0..n : cut[i] = cut[0] + (i - 0)
    BY <1>1, <2>1, <2>2, <2>3, Climb
  <2>5. \A i \in 0..n : cut[i] = i
    BY <2>1, <2>4
  <2>6. n <= Len(s)
    BY <1>1, <2>1, <2>2, <2>5
  <2>7. ASSUME NEW i \in 1..n
        PROVE  p[i] = s[i]
    BY <1>1, <2>1, <2>5
  <2> QED
    BY <2>6, <2>7
<1>5. ASSUME n <= Len(s), \A i \in 1..n : p[i] = s[i]
      PROVE  Cuts(p, s) # {}
  <2> DEFINE cut == [i \in 0..Len(p) |-> IF i <= n THEN i ELSE Len(s)]
  <2>1. cut \in [0..Len(p) -> 0..Len(s)]
    BY <1>1, <1>5
  <2>2. cut[0] = 0 /\ cut[Len(p)] = Len(s)
    BY <1>1
  <2>3. ASSUME NEW i \in 1..Len(p)
        PROVE  IF p[i] = Star THEN cut[i - 1] <= cut[i]
               ELSE cut[i] = cut[i - 1] + 1 /\ p[i] = s[cut[i]]
    <3>1. CASE i = n + 1
      BY <1>1, <1>5, <3>1
    <3>2. CASE i # n + 1
      <4> HIDE DEF n, cut
      <4> HIDE DEF n, cut
      <4>1. n \in Nat /\ i \in 1..(n + 1)
        BY <1>1
      <4>2. i \in 1..n /\ i - 1 \in 0..n
        BY ONLY <3>2, <4>1
      <4>3. p[i] # Star
        BY <1>1, <4>2
      <4> USE DEF n, cut
      <4>4. cut[i] = i /\ cut[i - 1] = i - 1
        BY <1>1, <4>2
      <4> QED
        BY <1>1, <1>5, <4>2, <4>3, <4>4
    <3> QED
      BY <3>1, <3>2
  <2>4. cut \in Cuts(p, s)
    BY <2>1, <2>2, <2>3 DEF Cuts
  <2> QED
    BY <2>4
<1> QED
  BY <1>3, <1>4, <1>5, GlobCuts

\* One with a first star only is matched by what ends with the rest of it.
LEMMA SuffixMatch ==
    ASSUME NEW T, NEW p \in Seq(T), NEW s \in Seq(T), Stars(p) = {1}
    PROVE  Glob(p, s) <=> IsSuffix(Tail(p), s)
<1> DEFINE n == Len(p) - 1
           d == Len(s) - n
<1>1. /\ Len(p) \in Nat /\ Len(s) \in Nat /\ n \in Nat /\ Len(p) = n + 1 /\ d \in Int
      /\ p[1] = Star /\ \A i \in 2..Len(p) : p[i] # Star
  BY DEF Stars
<1>2. /\ Tail(p) \in Seq(T) /\ Len(Tail(p)) = n
      /\ \A i \in 1..n : Tail(p)[i] = p[i + 1]
  BY <1>1
<1>3. IsSuffix(Tail(p), s) <=> n <= Len(s) /\ \A i \in 1..n : p[i + 1] = s[d + i]
  <2>1. /\ Reverse(Tail(p)) \in Seq(T) /\ Len(Reverse(Tail(p))) = n
        /\ \A i \in 1..n : Reverse(Tail(p))[i] = p[(n - i) + 2]
    BY <1>1, <1>2 DEF Reverse
  <2>2. /\ Reverse(s) \in Seq(T) /\ Len(Reverse(s)) = Len(s)
        /\ \A i \in 1..Len(s) : Reverse(s)[i] = s[(Len(s) - i) + 1]
    BY <1>1 DEF Reverse
  <2>3. SubSeq(Reverse(Tail(p)), 1, n) = Reverse(Tail(p))
    BY <1>1, <2>1
  <2>4. ASSUME n <= Len(s)
        PROVE  /\ SubSeq(Reverse(s), 1, n) \in Seq(T)
               /\ Len(SubSeq(Reverse(s), 1, n)) = n
               /\ \A i \in 1..n : SubSeq(Reverse(s), 1, n)[i] = s[(Len(s) - i) + 1]
    BY <1>1, <2>2, <2>4
  <2>5. ASSUME n <= Len(s)
        PROVE  Reverse(Tail(p)) = SubSeq(Reverse(s), 1, n)
                 <=> \A i \in 1..n : p[(n - i) + 2] = s[(Len(s) - i) + 1]
    BY <2>1, <2>4, <2>5, SeqEqual
  <2>6. ASSUME n <= Len(s)
        PROVE  (\A i \in 1..n : p[(n - i) + 2] = s[(Len(s) - i) + 1])
                 <=> \A i \in 1..n : p[i + 1] = s[d + i]
    <3>1. ASSUME NEW i \in 1..n
          PROVE  /\ (n - i) + 1 \in 1..n
                 /\ (n - ((n - i) + 1)) + 2 = i + 1
                 /\ (Len(s) - ((n - i) + 1)) + 1 = d + i
                 /\ ((n - i) + 1) + 1 = (n - i) + 2
                 /\ d + ((n - i) + 1) = (Len(s) - i) + 1
      BY <1>1
    <3>2. ASSUME \A i \in 1..n : p[(n - i) + 2] = s[(Len(s) - i) + 1], NEW i \in 1..n
          PROVE  p[i + 1] = s[d + i]
      <4> DEFINE k == (n - i) + 1
      <4>1. p[(n - k) + 2] = s[(Len(s) - k) + 1]
        BY <3>1, <3>2
      <4> QED
        BY <3>1, <4>1
    <3>3. ASSUME \A i \in 1..n : p[i + 1] = s[d + i], NEW i \in 1..n
          PROVE  p[(n - i) + 2] = s[(Len(s) - i) + 1]
      <4> DEFINE k == (n - i) + 1
      <4>1. p[k + 1] = s[d + k]
        BY <3>1, <3>3
      <4> QED
        BY <3>1, <4>1
    <3> QED
      BY <3>2, <3>3
  <2> QED
    BY <2>1, <2>2, <2>3, <2>5, <2>6 DEF IsSuffix, IsPrefix
<1>4. ASSUME NEW cut \in Cuts(p, s)
      PROVE  n <= Len(s) /\ \A i \in 1..n : p[i + 1] = s[d + i]
  <2>1. /\ cut \in [0..Len(p) -> Nat] /\ cut[Len(p)] = Len(s)
        /\ \A i \in (1 + 1)..Len(p) : cut[i] = cut[i - 1] + 1 /\ p[i] = s[cut[i]]
    BY <1>1 DEF Cuts
  <2>2. 1 \in 0..Len(p) /\ Len(p) \in 1..Len(p)
    BY <1>1
  <2>3. \A i \in (1 + 1)..Len(p) : cut[i] = cut[i - 1] + 1
    BY <2>1
  <2>4. \A i \in 1..Len(p) : cut[i] = cut[1] + (i - 1)
    BY <1>1, <2>1, <2>2, <2>3, Climb
  <2>5. cut[1] = d /\ cut[1] \in Nat
    BY <1>1, <2>1, <2>4
  <2>6. ASSUME NEW i \in 1..n
        PROVE  p[i + 1] = s[d + i]
    <3>1. i + 1 \in (1 + 1)..Len(p) /\ i + 1 \in 1..Len(p)
      BY <1>1
    <3>2. cut[i + 1] = d + i
      BY <1>1, <2>4, <2>5, <3>1
    <3> QED
      BY <2>1, <3>1, <3>2
  <2> QED
    BY <1>1, <2>5, <2>6
<1>5. ASSUME n <= Len(s), \A i \in 1..n : p[i + 1] = s[d + i]
      PROVE  Cuts(p, s) # {}
  <2> DEFINE cut == [i \in 0..Len(p) |-> IF i = 0 THEN 0 ELSE d + (i - 1)]
  <2>1. cut \in [0..Len(p) -> 0..Len(s)]
    BY <1>1, <1>5
  <2>2. cut[0] = 0 /\ cut[Len(p)] = Len(s)
    BY <1>1
  <2>3. ASSUME NEW i \in 1..Len(p)
        PROVE  IF p[i] = Star THEN cut[i - 1] <= cut[i]
               ELSE cut[i] = cut[i - 1] + 1 /\ p[i] = s[cut[i]]
    <3>1. CASE i = 1
      BY <1>1, <1>5, <3>1
    <3>2. CASE i # 1
      <4>1. i - 1 \in 1..n /\ (i - 1) + 1 = i
        BY <1>1, <3>2
      <4>2. p[(i - 1) + 1] = s[d + (i - 1)]
        BY <1>5, <4>1
      <4>3. cut[i] = d + (i - 1) /\ cut[i - 1] = d + (i - 2)
        BY <1>1, <3>2
      <4> QED
        BY <1>1, <3>2, <4>1, <4>2, <4>3
    <3> QED
      BY <3>1, <3>2
  <2>4. cut \in Cuts(p, s)
    BY <2>1, <2>2, <2>3 DEF Cuts
  <2> QED
    BY <2>4
<1> QED
  BY <1>3, <1>4, <1>5, GlobCuts

\* matchGlob finds exactly the names a simple pattern stands for.
LEMMA SimpleMatch ==
    ASSUME NEW p \in Seq(Char \cup {Star}), NEW s \in Seq(Char), Simple(p)
    PROVE  matchGlob(p, s) <=> Glob(p, s)
<1> DEFINE T == Char \cup {Star}
<1>1. s \in Seq(T) /\ p \in Seq(T)
  OBVIOUS
<1>2. Len(p) \in Nat /\ (p = <<>> <=> Len(p) = 0)
  BY <1>1
<1>3. /\ Starts(p) <=> 1 \in Stars(p)
      /\ Ends(p) <=> Len(p) \in Stars(p)
  BY <1>2 DEF Starts, Ends, Stars
<1>4. CASE Stars(p) = {}
  <2>1. p # <<Star>>
    BY <1>3, <1>4 DEF Starts
  <2> QED
    BY <1>1, <1>3, <1>4, <2>1, PlainMatch DEF matchGlob
<1>5. CASE Stars(p) = {Len(p)}
  <2>1. Ends(p)
    BY <1>3, <1>5
  <2>2. p = <<Star>> => IsPrefix(Front(p), s)
    BY <1>1 DEF Front, IsPrefix
  <2> QED
    BY <1>1, <1>5, <2>1, <2>2, PrefixMatch DEF matchGlob
<1>6. CASE Stars(p) = {1} /\ Len(p) # 1
  <2>1. Starts(p) /\ ~Ends(p) /\ p # <<Star>>
    BY <1>2, <1>3, <1>6
  <2> QED
    BY <1>1, <1>6, <2>1, SuffixMatch DEF matchGlob
<1> QED
  BY <1>4, <1>5, <1>6 DEF Simple

-----------------------------------------------------------------------------
(* Conditions *)

\* What a state says of the verdict.
Verdict ==
    /\ ref \in Ref \cup {Manual}
    /\ conditions \in SeqOf(Cond, MaxConditions)
    /\ passes \in {"unknown",
                   IF evalConditions(conditions, runContext) THEN "yes" ELSE "no"}

\* The conditions of a node are made of patterns.
LEMMA CondParts ==
    ASSUME NEW conds \in SeqOf(Cond, MaxConditions)
    PROVE  /\ Len(conds) \in Nat
           /\ \A i \in 1..Len(conds) :
                /\ conds[i] \in Cond
                /\ conds[i].parts = 2 => conds[i].val \in Seq(Char \cup {Star})
<1>1. PICK n \in 0..MaxConditions : conds \in [1..n -> Cond]
  BY DEF SeqOf
<1>2. Len(conds) = n
  BY <1>1, MaxConditionsAssumption
<1>3. \A c \in Cond : c.parts = 2 => c.val \in Pattern
  BY DEF Cond, On
<1> QED
  BY <1>1, <1>2, <1>3, PatternAssumption, MaxConditionsAssumption

\* The verdict of a pushed tag is the one its patterns ask for.
LEMMA VerdictRight == Verdict => TagsSelect
<1> SUFFICES ASSUME Verdict, passes # "unknown", ref # Manual, ref.kind = "tags",
                    \A i \in 1..Len(conditions) :
                      /\ conditions[i].parts = 2 /\ conditions[i].key = "tag"
                      /\ Simple(conditions[i].val)
             PROVE  passes = "yes" <=> \A i \in 1..Len(conditions) :
                                         Glob(conditions[i].val, ref.name)
  BY DEF TagsSelect
<1>1. passes = "yes" <=> evalConditions(conditions, runContext)
  BY DEF Verdict
<1>2. ref \in Ref /\ ref.name \in Seq(Char)
  BY NameAssumption DEF Verdict, Ref
<1>3. runContext = parseEvent(ref) /\ runContext.tag = ref.name
  BY <1>2 DEF runContext, parseEvent
<1>4. ASSUME NEW i \in 1..Len(conditions)
      PROVE  evalCondition(conditions[i], runContext) <=> Glob(conditions[i].val, ref.name)
  <2>1. conditions[i].val \in Seq(Char \cup {Star})
    BY CondParts DEF Verdict
  <2>2. matchGlob(conditions[i].val, ref.name) <=> Glob(conditions[i].val, ref.name)
    BY <1>2, <2>1, SimpleMatch
  <2> QED
    BY <1>3, <2>2 DEF evalCondition
<1> QED
  BY <1>1, <1>4 DEF evalConditions

\* A node with simple tag patterns runs for the tags they stand for.
THEOREM TagsSelected == ConditionsSpec => []TagsSelect
<1>1. ConditionsInit => Verdict
  BY DEF ConditionsInit, Verdict
<1>2. Verdict /\ [Evaluate]_cvars => Verdict'
  <2> SUFFICES ASSUME Verdict, [Evaluate]_cvars
               PROVE  Verdict'
    OBVIOUS
  <2>1. UNCHANGED <<ref, conditions>> /\ runContext' = runContext
    BY DEF Evaluate, cvars, runContext
  <2> QED
    BY <2>1 DEF Verdict, Evaluate, cvars
<1> QED
  BY <1>1, <1>2, VerdictRight, PTL DEF ConditionsSpec

-----------------------------------------------------------------------------
(* Programs *)

Argument == Builder \cup Expression

\* What call n of p adds to the arguments of op on b.
Added(p, op, b, n) == IF p[n].op = op /\ p[n].on = b THEN p[n].args ELSE <<>>

\* The arguments can be gathered call by call.
LEMMA GivenRule ==
    ASSUME NEW p, NEW op, NEW b, Len(p) \in Nat
    PROVE  Given(p, op, b) =
             [n \in 0..Len(p) |-> IF n = 0 THEN <<>>
                                  ELSE Given(p, op, b)[n - 1] \o Added(p, op, b, n)]
<1> DEFINE Rule(f, m) == f = [n \in 0..m |-> IF n = 0 THEN <<>>
                                             ELSE f[n - 1] \o Added(p, op, b, n)]
           Bad == {m \in 0..Len(p) : ~\E f : Rule(f, m)}
<1>1. Bad = {}
  <2> SUFFICES ASSUME Bad # {}
               PROVE  FALSE
    OBVIOUS
  <2>1. PICK m \in Bad : \A k \in Bad : m <= k
    <3>1. Bad \in SUBSET Nat
      OBVIOUS
    <3> QED
      BY <3>1, LeastElement
  <2>2. m # 0
    <3>1. Rule([n \in 0..0 |-> <<>>], 0)
      OBVIOUS
    <3> QED
      BY <2>1, <3>1
  <2>3. m - 1 \in 0..Len(p) /\ \E f : Rule(f, m - 1)
    <3> HIDE DEF Rule
    <3>1. m \in 0..Len(p) /\ m - 1 \in 0..Len(p)
      BY <2>1, <2>2
    <3>2. m - 1 \notin Bad
      <4> HIDE DEF Bad
      <4> QED
        BY <2>1, <3>1
    <3> QED
      BY <3>1, <3>2
  <2>4. PICK f : Rule(f, m - 1)
    BY <2>3
  <2> DEFINE g == [n \in 0..m |-> IF n = m THEN f[m - 1] \o Added(p, op, b, m) ELSE f[n]]
  <2>5. ASSUME NEW n \in 0..m
        PROVE  g[n] = IF n = 0 THEN <<>> ELSE g[n - 1] \o Added(p, op, b, n)
    <3>1. CASE n = m
      <4>1. m \in Nat /\ m - 1 \in 0..m /\ m - 1 # m /\ m \in 0..m
        BY <2>1, <2>2
      <4>2. g[m - 1] = f[m - 1] /\ g[m] = f[m - 1] \o Added(p, op, b, m)
        <5>1. m - 1 \in 0..(m - 1)
          BY <4>1
        <5> QED
          BY ONLY <4>1, <5>1
      <4> QED
        BY <2>2, <3>1, <4>2
    <3>2. CASE n # m
      <4>1. n \in 0..(m - 1) /\ g[n] = f[n] /\ (n # 0 => g[n - 1] = f[n - 1])
        BY <2>1, <3>2
      <4> QED
        BY <2>4, <4>1
    <3> QED
      BY <3>1, <3>2
  <2>6. Rule(g, m)
    BY <2>5
  <2> QED
    BY <2>1, <2>6
<1>2. \E f : Rule(f, Len(p))
  <2>1. Len(p) \in 0..Len(p)
    OBVIOUS
  <2>2. Len(p) \notin Bad
    <3> HIDE DEF Bad
    <3> QED
      BY <1>1
  <2> HIDE DEF Rule
  <2> QED
    BY <2>1, <2>2
<1>3. Given(p, op, b) = CHOOSE f : Rule(f, Len(p))
  BY DEF Given, Added
<1> QED
  BY <1>2, <1>3

\* The calls of a well-formed program.
LEMMA ProgramType ==
    ASSUME NEW p, WellFormed(p)
    PROVE  /\ Len(p) \in Nat /\ DOMAIN p = 1..Len(p)
           /\ \A i \in 1..Len(p) :
                p[i].op \in Op /\ p[i].on \in Builder /\ p[i].args \in Seq(Argument)
<1> DEFINE C == [op : Op, on : Builder, args : Seq(Argument)]
<1>1. p \in Seq(C)
  BY DEF WellFormed, Argument
<1>2. \A c \in C : c.op \in Op /\ c.on \in Builder /\ c.args \in Seq(Argument)
  OBVIOUS
<1> HIDE DEF C
<1>3. Len(p) \in Nat /\ DOMAIN p = 1..Len(p) /\ \A i \in 1..Len(p) : p[i] \in C
  BY <1>1
<1> QED
  BY <1>2, <1>3

\* What a builder is given, call by call.
LEMMA GivenStep ==
    ASSUME NEW p, WellFormed(p), NEW op, NEW b
    PROVE  /\ Given(p, op, b)[0] = <<>>
           /\ \A n \in 1..Len(p) :
                Given(p, op, b)[n] = Given(p, op, b)[n - 1] \o Added(p, op, b, n)
           /\ \A n \in 1..Len(p) : Added(p, op, b, n) \in Seq(Argument)
<1>1. Len(p) \in Nat
  BY ProgramType
<1>2. \A n \in 1..Len(p) : Added(p, op, b, n) \in Seq(Argument)
  BY ProgramType DEF Added
<1>3. 0 \in 0..Len(p) /\ \A n \in 1..Len(p) : n \in 0..Len(p) /\ n # 0
  BY <1>1
<1> DEFINE f == Given(p, op, b)
<1>4. f = [n \in 0..Len(p) |-> IF n = 0 THEN <<>> ELSE f[n - 1] \o Added(p, op, b, n)]
  BY <1>1, GivenRule
<1> HIDE DEF f
<1>5. f[0] = <<>>
  BY <1>3, <1>4
<1>6. \A n \in 1..Len(p) : f[n] = f[n - 1] \o Added(p, op, b, n)
  BY <1>3, <1>4
<1> QED
  BY <1>2, <1>5, <1>6 DEF f

LEMMA GivenType ==
    ASSUME NEW p, WellFormed(p), NEW op, NEW b
    PROVE  \A n \in 0..Len(p) : Given(p, op, b)[n] \in Seq(Argument)
<1> DEFINE f == Given(p, op, b)
           Bad == {n \in 0..Len(p) : f[n] \notin Seq(Argument)}
<1> SUFFICES ASSUME Bad # {}
             PROVE  FALSE
  OBVIOUS
<1>1. Len(p) \in Nat /\ Bad \in SUBSET Nat
  BY ProgramType
<1>2. PICK n \in Bad : \A k \in Bad : n <= k
  BY <1>1, LeastElement
<1>3. n # 0
  <2>1. <<>> \in Seq(Argument) /\ f[0] = <<>>
    BY GivenStep
  <2> HIDE DEF f
  <2> QED
    BY <1>2, <2>1
<1>4. n \in 1..Len(p) /\ n - 1 \in 0..Len(p) /\ n - 1 \notin Bad
  BY <1>1, <1>2, <1>3
<1>5. f[n - 1] \in Seq(Argument) /\ f[n] = f[n - 1] \o Added(p, op, b, n)
      /\ Added(p, op, b, n) \in Seq(Argument)
  BY <1>4, GivenStep
<1>6. f[n] \in Seq(Argument)
  <2> HIDE DEF f
  <2> QED
    BY <1>5
<1> QED
  BY <1>2, <1>6

\* One of the calls 1..n makes b.
MadeBy(p, n, b) == \E k \in 1..n : Makes(p[k], b)

\* A builder that is not made yet was given nothing.
LEMMA GivenNothing ==
    ASSUME NEW p, WellFormed(p), NEW op \in {"Stage", "DependsOn", "When"}, NEW b,
           NEW n \in 0..Len(p), ~MadeBy(p, n, b)
    PROVE  Given(p, op, b)[n] = <<>>
<1> DEFINE f == Given(p, op, b)
           Bad == {m \in 0..n : f[m] # <<>>}
<1> SUFFICES ASSUME Bad # {}
             PROVE  FALSE
  <2>1. n \in 0..n
    BY ProgramType
  <2> QED
    BY <2>1
<1>1. Len(p) \in Nat /\ n \in Nat /\ Bad \in SUBSET Nat
  BY ProgramType
<1>2. PICK m \in Bad : \A k \in Bad : m <= k
  BY <1>1, LeastElement
<1>3. m # 0
  BY <1>2, GivenStep
<1>4. m \in 1..Len(p) /\ m \in 1..n /\ m - 1 \in 0..n /\ m - 1 \notin Bad
  BY <1>1, <1>2, <1>3
<1>5. f[m - 1] = <<>> /\ f[m] = f[m - 1] \o Added(p, op, b, m)
  BY <1>4, GivenStep
<1>6. p[m].op # op \/ p[m].on # b
  <2> SUFFICES ASSUME p[m].op = op, p[m].on = b
               PROVE  FALSE
    OBVIOUS
  <2>1. ~Makes(p[m], b)
    BY <1>4 DEF MadeBy
  <2>2. op \in {"DependsOn", "When"}
    BY <2>1 DEF Makes
  <2>3. \E k \in 1..(m - 1) : Makes(p[k], b)
    BY <1>4, <2>2 DEF WellFormed
  <2> QED
    BY <1>1, <1>4, <2>3 DEF MadeBy
<1>7. f[m] = <<>>
  BY <1>5, <1>6 DEF Added
<1> QED
  BY <1>2, <1>7

\* Every job of a stage is made before the stage.
LEMMA JobsMade ==
    ASSUME NEW p, WellFormed(p), NEW b
    PROVE  \A n \in 0..Len(p) : \A k \in 1..Len(Given(p, "Stage", b)[n]) :
             MadeBy(p, n, Given(p, "Stage", b)[n][k])
<1> DEFINE f == Given(p, "Stage", b)
           Good(n) == \A k \in 1..Len(f[n]) : MadeBy(p, n, f[n][k])
           Bad == {n \in 0..Len(p) : ~Good(n)}
<1> SUFFICES ASSUME Bad # {}
             PROVE  FALSE
  OBVIOUS
<1>1. Len(p) \in Nat /\ Bad \in SUBSET Nat
  BY ProgramType
<1>2. PICK n \in Bad : \A k \in Bad : n <= k
  BY <1>1, LeastElement
<1>3. n # 0
  BY <1>2, GivenStep
<1>4. n \in 1..Len(p) /\ n - 1 \in 0..Len(p) /\ n - 1 \notin Bad
  BY <1>1, <1>2, <1>3
<1> DEFINE new == Added(p, "Stage", b, n)
<1>5. /\ f[n - 1] \in Seq(Argument) /\ f[n] = f[n - 1] \o new
      /\ new \in Seq(Argument)
  BY <1>4, GivenStep, GivenType
<1>6. Good(n - 1)
  BY <1>4
<1>7. \A j \in 1..Len(new) : MadeBy(p, n, new[j])
  <2> SUFFICES ASSUME p[n].op = "Stage", p[n].on = b, NEW j \in 1..Len(p[n].args)
               PROVE  MadeBy(p, n, p[n].args[j])
    BY DEF Added
  <2>1. \E k \in 1..(n - 1) : Makes(p[k], p[n].args[j])
    <3>1. \A i \in 1..Len(p) :
            p[i].op = "Stage" =>
              \A l \in 1..Len(p[i].args) :
                \E k \in 1..(i - 1) : p[k].op = "Job" /\ p[k].on = p[i].args[l]
      BY DEF WellFormed
    <3>2. \E k \in 1..(n - 1) : p[k].op = "Job" /\ p[k].on = p[n].args[j]
      BY <1>4, <3>1
    <3> QED
      BY <3>2 DEF Makes
  <2> QED
    BY <1>1, <1>4, <2>1 DEF MadeBy
<1>8. ASSUME NEW x, MadeBy(p, n - 1, x)
      PROVE  MadeBy(p, n, x)
  BY <1>1, <1>4, <1>8 DEF MadeBy
<1>9. ASSUME NEW k \in 1..Len(f[n])
      PROVE  MadeBy(p, n, f[n][k])
  <2> HIDE DEF f, new
  <2>1. CASE k <= Len(f[n - 1])
    <3>1. k \in 1..Len(f[n - 1]) /\ f[n][k] = f[n - 1][k]
      BY <1>5, <2>1
    <3> QED
      BY <1>6, <1>8, <3>1
  <2>2. CASE k > Len(f[n - 1])
    <3>1. k - Len(f[n - 1]) \in 1..Len(new) /\ f[n][k] = new[k - Len(f[n - 1])]
      BY <1>5, <2>2
    <3> QED
      BY <1>7, <3>1
  <2> QED
    BY <1>5, <2>1, <2>2
<1> QED
  BY <1>2, <1>9

\* The call that makes a builder tells its kind.
LEMMA KindOf ==
    ASSUME NEW p, WellFormed(p), NEW k \in 1..Len(p), NEW b, Makes(p[k], b)
    PROVE  Kind(p, b) = p[k].op
<1>1. ASSUME NEW i \in 1..Len(p), Makes(p[i], b)
      PROVE  i = k
  BY <1>1 DEF WellFormed, Makes
<1>2. p[k] \in {p[i] : i \in DOMAIN p}
  BY ProgramType
<1>3. \A call \in {p[i] : i \in DOMAIN p} : Makes(call, b) => call = p[k]
  BY <1>1, ProgramType
<1>4. (CHOOSE call \in {p[i] : i \in DOMAIN p} : Makes(call, b)) = p[k]
  BY <1>2, <1>3
<1> QED
  BY <1>4 DEF Kind

\* The node of b after the first n calls.
Built(p, n, b) ==
    IF MadeBy(p, n, b)
    THEN [kind |-> Kind(p, b), jobs |-> Given(p, "Stage", b)[n],
          dependsOn |-> Given(p, "DependsOn", b)[n], conditions |-> Given(p, "When", b)[n]]
    ELSE NoNode

\* A call that gives nothing to b and does not make it leaves its node.
LEMMA BuiltKept ==
    ASSUME NEW p, WellFormed(p), NEW n \in 1..Len(p), NEW b, ~Makes(p[n], b),
           p[n].on = b => p[n].op \notin {"Stage", "DependsOn", "When"}
    PROVE  Built(p, n, b) = Built(p, n - 1, b)
<1>1. Len(p) \in Nat /\ n - 1 \in 0..Len(p)
  BY ProgramType
<1>2. MadeBy(p, n, b) <=> MadeBy(p, n - 1, b)
  BY <1>1 DEF MadeBy
<1>3. ASSUME NEW op \in {"Stage", "DependsOn", "When"}
      PROVE  Given(p, op, b)[n] = Given(p, op, b)[n - 1]
  <2>1. Added(p, op, b, n) = <<>>
    BY DEF Added
  <2>2. Given(p, op, b)[n] = Given(p, op, b)[n - 1] \o <<>>
    BY <2>1, GivenStep
  <2>3. Given(p, op, b)[n - 1] \in Seq(Argument)
    BY <1>1, GivenType
  <2> QED
    BY <2>2, <2>3
<1> QED
  BY <1>2, <1>3 DEF Built

\* The node Stage makes.
LEMMA StageMade ==
    ASSUME NEW jobs
    PROVE  StageNode(jobs) = [kind |-> "Stage", jobs |-> jobs,
                              dependsOn |-> <<>>, conditions |-> <<>>]
<1> DEFINE empty == [NoNode EXCEPT !.kind = "Stage"]
<1>1. empty = [kind |-> "Stage", jobs |-> <<>>, dependsOn |-> <<>>, conditions |-> <<>>]
  BY DEF NoNode
<1>2. StageNode(jobs) = [empty EXCEPT !.jobs = jobs]
  BY Zenon DEF StageNode
<1> HIDE DEF empty
<1>3. [empty EXCEPT !.jobs = jobs]
        = [kind |-> "Stage", jobs |-> jobs, dependsOn |-> <<>>, conditions |-> <<>>]
  BY <1>1
<1> QED
  BY <1>2, <1>3

\* The call that makes b makes the node it has.
LEMMA BuiltMade ==
    ASSUME NEW p, WellFormed(p), NEW n \in 1..Len(p), NEW b, Makes(p[n], b)
    PROVE  Built(p, n, b) = [kind |-> p[n].op,
                             jobs |-> IF p[n].op = "Stage" THEN p[n].args ELSE <<>>,
                             dependsOn |-> <<>>, conditions |-> <<>>]
<1>1. Len(p) \in Nat /\ n - 1 \in 0..Len(p) /\ p[n].args \in Seq(Argument)
  BY ProgramType
<1>2. MadeBy(p, n, b)
  BY <1>1 DEF MadeBy
<1>3. ~MadeBy(p, n - 1, b)
  <2> SUFFICES ASSUME NEW k \in 1..(n - 1), Makes(p[k], b)
               PROVE  FALSE
    BY DEF MadeBy
  <2>1. k \in 1..Len(p) /\ k # n
    BY <1>1
  <2>2. /\ \A i \in 1..Len(p) : Makes(p[n], p[n].on) /\ Makes(p[i], p[n].on) => i = n
        /\ p[n].on = b
    BY DEF WellFormed, Makes
  <2>3. k = n
    BY <2>1, <2>2
  <2> QED
    BY <2>1, <2>3
<1>4. ASSUME NEW op \in {"Stage", "DependsOn", "When"}
      PROVE  Given(p, op, b)[n] = IF p[n].op = op THEN p[n].args ELSE <<>>
  <2>1. Given(p, op, b)[n - 1] = <<>>
    BY <1>1, <1>3, GivenNothing
  <2>2. Given(p, op, b)[n] = <<>> \o Added(p, op, b, n)
    BY <2>1, GivenStep
  <2>3. Added(p, op, b, n) = IF p[n].op = op THEN p[n].args ELSE <<>>
    BY DEF Added, Makes
  <2> QED
    BY <1>1, <2>2, <2>3
<1>5. p[n].op \notin {"DependsOn", "When"}
  BY DEF Makes
<1>6. /\ Given(p, "Stage", b)[n] = IF p[n].op = "Stage" THEN p[n].args ELSE <<>>
      /\ Given(p, "DependsOn", b)[n] = <<>> /\ Given(p, "When", b)[n] = <<>>
  BY <1>4, <1>5
<1>7. Kind(p, b) = p[n].op
  BY KindOf
<1> QED
  BY <1>2, <1>6, <1>7 DEF Built

\* DependsOn and When add their arguments to the node they are called on.
LEMMA BuiltMore ==
    ASSUME NEW p, WellFormed(p), NEW n \in 1..Len(p), NEW b, p[n].on = b,
           p[n].op \in {"DependsOn", "When"}
    PROVE  Built(p, n, b) =
             IF p[n].op = "DependsOn"
             THEN [Built(p, n - 1, b) EXCEPT !.dependsOn = @ \o p[n].args]
             ELSE [Built(p, n - 1, b) EXCEPT !.conditions = @ \o p[n].args]
<1>1. Len(p) \in Nat /\ n - 1 \in 0..Len(p)
  BY ProgramType
<1>2. \E k \in 1..(n - 1) : Makes(p[k], b)
  BY DEF WellFormed
<1>3. MadeBy(p, n - 1, b) /\ MadeBy(p, n, b)
  BY <1>1, <1>2 DEF MadeBy
<1>4. ASSUME NEW op \in {"Stage", "DependsOn", "When"}
      PROVE  Given(p, op, b)[n] = IF p[n].op = op THEN Given(p, op, b)[n - 1] \o p[n].args
                                  ELSE Given(p, op, b)[n - 1]
  <2>1. Given(p, op, b)[n] = Given(p, op, b)[n - 1] \o Added(p, op, b, n)
    BY GivenStep
  <2>2. Given(p, op, b)[n - 1] \in Seq(Argument)
    BY <1>1, GivenType
  <2>3. Given(p, op, b)[n - 1] \o <<>> = Given(p, op, b)[n - 1]
    BY <2>2
  <2> QED
    BY <2>1, <2>3 DEF Added
<1> QED
  BY <1>3, <1>4 DEF Built

-----------------------------------------------------------------------------
(* Processes and commands *)

\* The list a program gives to its pipeline, once the call is among the first n.
List(p) == (CHOOSE call \in {p[i] : i \in DOMAIN p} : call.op = "NewPipeline").args
Listed(p, n) == \E k \in 1..n : p[k].op = "NewPipeline"

LEMMA ListOf ==
    ASSUME NEW p, WellFormed(p), NEW k \in 1..Len(p), p[k].op = "NewPipeline"
    PROVE  /\ List(p) = p[k].args
           /\ List(p) \in Seq(Argument)
           /\ \A j \in 1..Len(List(p)) : MadeBy(p, k, List(p)[j])
<1>1. ASSUME NEW i \in 1..Len(p), p[i].op = "NewPipeline"
      PROVE  i = k
  BY <1>1 DEF WellFormed
<1>2. p[k] \in {p[i] : i \in DOMAIN p}
  BY ProgramType
<1>3. \A call \in {p[i] : i \in DOMAIN p} : call.op = "NewPipeline" => call = p[k]
  BY <1>1, ProgramType
<1>4. (CHOOSE call \in {p[i] : i \in DOMAIN p} : call.op = "NewPipeline") = p[k]
  BY <1>2, <1>3
<1>5. List(p) = p[k].args /\ List(p) \in Seq(Argument)
  BY <1>4, ProgramType DEF List
<1>6. ASSUME NEW j \in 1..Len(p[k].args)
      PROVE  MadeBy(p, k, p[k].args[j])
  <2>1. \E m \in 1..(k - 1) : Makes(p[m], p[k].args[j])
    BY DEF WellFormed
  <2> QED
    BY <2>1, ProgramType DEF MadeBy
<1> QED
  BY <1>5, <1>6

\* What a process has built, and what it has written: nothing before Run, then
\* a growing part of the whole message.
ProcessInv ==
    LET p == proc.prog
        message == Marshal(heap, nodeList)
        AtRun == proc.at <= Len(p) /\ p[proc.at].op = "Run"
    IN /\ p \in Programs
       /\ proc.at \in 1..(Len(p) + 1)
       /\ heap = [b \in Builder |-> Built(p, proc.at - 1, b)]
       /\ nodeList = IF Listed(p, proc.at - 1) THEN List(p) ELSE <<>>
       /\ \A k \in 1..(proc.at - 1) : p[k].op # "Run"
       /\ IF AtRun
          THEN \E m \in 0..Len(nodeList) : stdout = [i \in 1..m |-> message[i]]
          ELSE stdout = <<>>
       /\ proc.pc = "exit0" =>
            IF AtRun
            THEN \/ stdout = message
                 \/ proc.lang = "ts" /\ proc.cut /\ Len(stdout) < Len(nodeList)
            ELSE proc.at = Len(p) + 1

ProcType == [pc : {"none", "running", "exit0", "exit1"}, lang : Lang,
             prog : Programs \cup {<<>>}, at : Nat, child : BOOLEAN, cut : BOOLEAN]

\* The process of a command, and what the command has of it.
CommandInv ==
    /\ files \in [Lang -> Programs \cup {NoFile}]
    /\ proc \in ProcType
    /\ command = [pc |-> command.pc, spec |-> command.spec]
    /\ proc.pc # "none" => ProcessInv
    /\ command.pc = "idle" => proc.pc = "none"
    /\ command.pc = "submit" /\ proc.pc # "none" =>
         proc.pc = "exit0" /\ command.spec = stdout

\* What ends a program has to do with its calls.
LEMMA ProcessFacts ==
    ASSUME CommandInv, proc.pc # "none"
    PROVE  /\ WellFormed(proc.prog) /\ proc.prog \in Programs
           /\ Len(proc.prog) \in Nat /\ proc.at \in 1..(Len(proc.prog) + 1)
           /\ nodeList \in Seq(Argument)
<1>1. ProcessInv
  BY DEF CommandInv
<1>2. /\ proc.prog \in Programs /\ proc.at \in 1..(Len(proc.prog) + 1)
      /\ nodeList = IF Listed(proc.prog, proc.at - 1) THEN List(proc.prog) ELSE <<>>
  BY <1>1 DEF ProcessInv
<1>3. WellFormed(proc.prog) /\ Len(proc.prog) \in Nat
  BY <1>2, ProgramsAssumption, ProgramType
<1>4. CASE Listed(proc.prog, proc.at - 1)
  <2>1. PICK k \in 1..(proc.at - 1) : proc.prog[k].op = "NewPipeline"
    BY <1>4 DEF Listed
  <2>2. k \in 1..Len(proc.prog)
    BY <1>2, <1>3
  <2> QED
    BY <1>2, <1>3, <1>4, <2>1, <2>2, ListOf
<1> QED
  BY <1>2, <1>3, <1>4

\* A call that is not Run.
LEMMA AfterCall ==
    ASSUME CommandInv, Running, Here.op # "Run", GoOn,
           UNCHANGED <<files, stdout, command, started, commands>>,
           heap' = [b \in Builder |-> Built(proc.prog, proc.at, b)],
           nodeList' = IF Listed(proc.prog, proc.at) THEN List(proc.prog) ELSE <<>>
    PROVE  CommandInv'
<1> DEFINE p == proc.prog
           n == proc.at
<1>1. /\ proc.pc = "running" /\ ProcessInv /\ n <= Len(p) /\ p[n].op # "Run"
      /\ proc' = [proc EXCEPT !.at = n + 1] /\ proc \in ProcType
  BY DEF CommandInv, Running, Here, GoOn
<1>2. Len(p) \in Nat /\ n \in 1..Len(p) /\ p \in Programs
  BY <1>1, ProcessFacts
<1>3. proc' \in ProcType /\ proc'.prog = p /\ proc'.at = n + 1 /\ proc'.pc = "running"
  BY <1>1, <1>2 DEF ProcType
<1>4. /\ proc'.prog = p /\ proc'.at = n + 1 /\ proc'.pc = "running"
      /\ n + 1 \in 1..(Len(p) + 1) /\ (n + 1) - 1 = n
  BY <1>2, <1>3
<1>5. stdout = <<>> /\ \A k \in 1..(n - 1) : p[k].op # "Run"
  BY <1>1, <1>2 DEF ProcessInv
<1>6. \A k \in 1..n : p[k].op # "Run"
  BY <1>1, <1>2, <1>5
<1>7. stdout' = [i \in 1..0 |-> Marshal(heap', nodeList')[i]] /\ stdout' = <<>>
  BY <1>5
<1>8. 0 \in 0..Len(nodeList')
  <2>1. ASSUME Listed(p, n)
        PROVE  List(p) \in Seq(Argument)
    BY <1>2, <2>1, ListOf, ProcessFacts, <1>1 DEF Listed
  <2>2. nodeList' \in Seq(Argument)
    BY <2>1
  <2> QED
    BY <2>2
<1>9. ProcessInv'
  <2> HIDE DEF p, n
  <2> QED
    BY <1>2, <1>4, <1>6, <1>7, <1>8 DEF ProcessInv, p, n
<1> QED
  BY <1>1, <1>3, <1>4, <1>9 DEF CommandInv

LEMMA BuildStep ==
    ASSUME CommandInv, NEW b \in Builder, Build(b)
    PROVE  CommandInv'
<1> DEFINE p == proc.prog
           n == proc.at
<1>1. /\ Running /\ GoOn /\ Here = p[n] /\ p[n].on = b /\ n <= Len(p)
      /\ p[n].op \in {"Job", "Stage", "DependsOn", "When"}
      /\ UNCHANGED <<files, nodeList, stdout, command, started, commands>>
  BY DEF Build, Running, Here
<1>2. ProcessInv /\ WellFormed(p) /\ n \in 1..Len(p) /\ Len(p) \in Nat
  BY <1>1, ProcessFacts DEF CommandInv, Running
<1>3. heap = [x \in Builder |-> Built(p, n - 1, x)]
  BY <1>2 DEF ProcessInv
<1>4. heap' = [heap EXCEPT ![b] = Built(p, n, b)]
  <2>1. CASE p[n].op \in {"Job", "Stage"}
    <3>1. Makes(p[n], b)
      BY <1>1, <2>1 DEF Makes
    <3>2. Built(p, n, b) = [kind |-> p[n].op,
                            jobs |-> IF p[n].op = "Stage" THEN p[n].args ELSE <<>>,
                            dependsOn |-> <<>>, conditions |-> <<>>]
      BY <1>2, <3>1, BuiltMade
    <3>3. heap' = [heap EXCEPT ![b] =
                     IF p[n].op = "Job" THEN JobNode ELSE StageNode(p[n].args)]
      BY <1>1, <2>1 DEF Build
    <3>4. JobNode = [kind |-> "Job", jobs |-> <<>>,
                     dependsOn |-> <<>>, conditions |-> <<>>]
      BY DEF JobNode, NoNode
    <3>5. StageNode(p[n].args) = [kind |-> "Stage", jobs |-> p[n].args,
                                  dependsOn |-> <<>>, conditions |-> <<>>]
      BY StageMade
    <3>6. CASE p[n].op = "Job"
      BY <3>2, <3>3, <3>4, <3>6
    <3>7. CASE p[n].op = "Stage"
      BY <3>2, <3>3, <3>5, <3>7
    <3> QED
      BY <2>1, <3>6, <3>7
  <2>2. CASE p[n].op \in {"DependsOn", "When"}
    <3>1. Built(p, n, b) =
            IF p[n].op = "DependsOn"
            THEN [Built(p, n - 1, b) EXCEPT !.dependsOn = @ \o p[n].args]
            ELSE [Built(p, n - 1, b) EXCEPT !.conditions = @ \o p[n].args]
      BY <1>1, <1>2, <2>2, BuiltMore
    <3>2. heap' = [heap EXCEPT ![b] =
                     IF p[n].op = "DependsOn" THEN DependsOnMore(heap[b], p[n].args)
                     ELSE WhenMore(heap[b], p[n].args)]
      BY <1>1, <2>2 DEF Build
    <3> QED
      BY <1>3, <2>2, <3>1, <3>2 DEF DependsOnMore, WhenMore
  <2> QED
    BY <1>1, <2>1, <2>2
<1>5. ASSUME NEW x \in Builder, x # b
      PROVE  Built(p, n, x) = Built(p, n - 1, x)
  BY <1>1, <1>2, <1>5, BuiltKept DEF Makes
<1>6. heap' = [x \in Builder |-> Built(p, n, x)]
  BY <1>3, <1>4, <1>5
<1>7. Listed(p, n) <=> Listed(p, n - 1)
  BY <1>1, <1>2 DEF Listed
<1>8. nodeList' = IF Listed(p, n) THEN List(p) ELSE <<>>
  BY <1>1, <1>2, <1>7 DEF ProcessInv
<1> QED
  BY <1>1, <1>6, <1>8, AfterCall

LEMMA NewPipelineStep == CommandInv /\ NewPipeline => CommandInv'
<1> SUFFICES ASSUME CommandInv, NewPipeline
             PROVE  CommandInv'
  OBVIOUS
<1> DEFINE p == proc.prog
           n == proc.at
<1>1. /\ Running /\ GoOn /\ Here = p[n] /\ n <= Len(p) /\ p[n].op = "NewPipeline"
      /\ nodeList' = p[n].args
      /\ UNCHANGED <<files, heap, stdout, command, started, commands>>
  BY DEF NewPipeline, Running, Here
<1>2. ProcessInv /\ WellFormed(p) /\ n \in 1..Len(p) /\ Len(p) \in Nat
  BY <1>1, ProcessFacts DEF CommandInv, Running
<1>3. heap = [x \in Builder |-> Built(p, n - 1, x)]
  BY <1>2 DEF ProcessInv
<1>4. ASSUME NEW x \in Builder
      PROVE  Built(p, n, x) = Built(p, n - 1, x)
  BY <1>1, <1>2, BuiltKept DEF Makes
<1>5. heap' = [x \in Builder |-> Built(p, n, x)]
  BY <1>1, <1>3, <1>4
<1>6. nodeList' = IF Listed(p, n) THEN List(p) ELSE <<>>
  BY <1>1, <1>2, ListOf DEF Listed
<1> QED
  BY <1>1, <1>5, <1>6, AfterCall

\* One more element of a function on an initial segment.
LEMMA AppendMade ==
    ASSUME NEW M, NEW m \in Nat
    PROVE  Append([i \in 1..m |-> M[i]], M[m + 1]) = [i \in 1..(m + 1) |-> M[i]]
<1> DEFINE S == {M[i] : i \in 1..(m + 1)}
           old == [i \in 1..m |-> M[i]]
           new == [i \in 1..(m + 1) |-> M[i]]
<1>1. old \in Seq(S) /\ new \in Seq(S) /\ M[m + 1] \in S
      /\ Len(old) = m /\ Len(new) = m + 1
      /\ (\A i \in 1..m : old[i] = M[i]) /\ (\A i \in 1..(m + 1) : new[i] = M[i])
  OBVIOUS
<1> HIDE DEF old, new
<1>2. /\ Append(old, M[m + 1]) \in Seq(S) /\ Len(Append(old, M[m + 1])) = m + 1
      /\ \A i \in 1..m : Append(old, M[m + 1])[i] = M[i]
      /\ Append(old, M[m + 1])[m + 1] = M[m + 1]
  BY <1>1
<1>3. \A i \in 1..(m + 1) : Append(old, M[m + 1])[i] = new[i]
  BY <1>1, <1>2
<1>4. Append(old, M[m + 1]) = new
  BY <1>1, <1>2, <1>3, SeqEqual
<1> QED
  BY <1>4 DEF old, new

\* A part of a sequence, as a function.
LEMMA SubSeqMade ==
    ASSUME NEW T, NEW M \in Seq(T), NEW m \in 0..Len(M)
    PROVE  [i \in 1..m |-> M[i]] = SubSeq(M, 1, m)
<1> DEFINE made == [i \in 1..m |-> M[i]]
           part == SubSeq(M, 1, m)
<1>1. /\ part \in Seq(T)
      /\ Len(part) = IF 1 <= m THEN m - 1 + 1 ELSE 0
      /\ \A i \in 1..(m - 1 + 1) : part[i] = M[1 + i - 1]
  BY SubSeqProperties
<1>2. made \in Seq(T) /\ Len(made) = m /\ \A i \in 1..m : made[i] = M[i]
  OBVIOUS
<1> HIDE DEF made, part
<1>3. Len(part) = m
  BY <1>1
<1>4. \A i \in 1..m : part[i] = made[i]
  <2> SUFFICES ASSUME NEW i \in 1..m PROVE part[i] = made[i]
    OBVIOUS
  <2>1. i \in 1..(m - 1 + 1) /\ 1 + i - 1 = i
    OBVIOUS
  <2> QED
    BY <1>1, <1>2, <2>1
<1>5. made = part
  BY <1>1, <1>2, <1>3, <1>4, SeqEqual
<1> QED
  BY <1>5 DEF made, part

\* Run writes what is left of the message, and ends.
LEMMA RunWriteStep == CommandInv /\ RunWrite => CommandInv'
<1> SUFFICES ASSUME CommandInv, RunWrite
             PROVE  CommandInv'
  OBVIOUS
<1> DEFINE p == proc.prog
           n == proc.at
           message == Marshal(heap, nodeList)
<1>1. /\ proc.pc = "running" /\ n <= Len(p) /\ p[n].op = "Run" /\ ProcessInv
      /\ proc \in ProcType
      /\ UNCHANGED <<files, heap, nodeList, command, started, commands>>
  BY DEF CommandInv, RunWrite, Running, Here
<1>2. nodeList \in Seq(Argument) /\ n \in 1..Len(p) /\ Len(p) \in Nat
  BY <1>1, ProcessFacts
<1>3. PICK m \in 0..Len(nodeList) : stdout = [i \in 1..m |-> message[i]]
  BY <1>1 DEF ProcessInv
<1>4. Len(message) = Len(nodeList) /\ Len(stdout) = m
      /\ message = [i \in 1..Len(nodeList) |-> message[i]]
  BY <1>2, <1>3 DEF Marshal
<1>5. CASE m < Len(nodeList)
  <2>1. stdout' = Append(stdout, message[m + 1]) /\ proc' = proc
    BY <1>4, <1>5 DEF RunWrite
  <2>2. stdout' = [i \in 1..(m + 1) |-> message[i]]
    <3> HIDE DEF message
    <3> QED
      BY <1>2, <1>3, <2>1, AppendMade
  <2>3. m + 1 \in 0..Len(nodeList)
    BY <1>2, <1>5
  <2>4. ProcessInv'
    <3>1. /\ p \in Programs /\ n \in 1..(Len(p) + 1)
          /\ heap = [b \in Builder |-> Built(p, n - 1, b)]
          /\ nodeList = IF Listed(p, n - 1) THEN List(p) ELSE <<>>
          /\ \A k \in 1..(n - 1) : p[k].op # "Run"
      BY <1>1 DEF ProcessInv
    <3>2. /\ proc' = proc /\ heap' = heap /\ nodeList' = nodeList
          /\ Marshal(heap', nodeList') = message /\ proc'.pc # "exit0"
      BY <1>1, <2>1
    <3>3. \E k \in 0..Len(nodeList') : stdout' = [i \in 1..k |-> message[i]]
      BY <1>1, <2>2, <2>3
    <3> HIDE DEF message
    <3> QED
      BY <1>1, <3>1, <3>2, <3>3 DEF ProcessInv
  <2> QED
    BY <1>1, <2>1, <2>4 DEF CommandInv
<1>6. CASE ~(m < Len(nodeList))
  <2>1. /\ stdout' = stdout /\ proc' \in ProcType
        /\ proc'.pc = "exit0" /\ proc'.prog = p /\ proc'.at = n
    BY <1>1, <1>4, <1>6 DEF RunWrite, ProcType
  <2>2. stdout = message
    <3>1. m = Len(nodeList)
      BY <1>2, <1>6
    <3> QED
      BY <1>3, <1>4, <3>1
  <2>3. ProcessInv'
    BY <1>1, <1>3, <2>1, <2>2 DEF ProcessInv
  <2> QED
    BY <1>1, <2>1, <2>3 DEF CommandInv
<1> QED
  BY <1>5, <1>6

\* The end of the process, by itself.
LEMMA QuitStep == CommandInv /\ (Panic \/ ReturnMain) => CommandInv'
<1> SUFFICES ASSUME CommandInv, NEW how \in {"exit0", "exit1"}, Quit(how),
                    proc.pc = "running",
                    how = "exit0" => proc.at > Len(proc.prog)
             PROVE  CommandInv'
  BY DEF Panic, ReturnMain, Running
<1>1. /\ proc' \in ProcType
      /\ proc'.pc = how /\ proc'.prog = proc.prog /\ proc'.at = proc.at
      /\ UNCHANGED <<files, heap, nodeList, stdout, command, started, commands>>
      /\ ProcessInv
  BY DEF Quit, CommandInv, ProcType
<1>2. how = "exit0" => proc.at = Len(proc.prog) + 1
  BY <1>1, ProcessFacts
<1>3. ProcessInv'
  BY <1>1, <1>2, ProcessFacts DEF ProcessInv
<1> QED
  BY <1>1, <1>3 DEF CommandInv

\* A write that does not go through leaves a part of the message.
LEMMA RunWriteFailsStep == CommandInv /\ RunWriteFails => CommandInv'
<1> SUFFICES ASSUME CommandInv, RunWriteFails
             PROVE  CommandInv'
  OBVIOUS
<1>1. /\ proc' \in ProcType /\ proc'.pc \in {"exit0", "exit1"} /\ proc.pc = "running"
      /\ proc'.prog = proc.prog /\ proc'.at = proc.at /\ proc'.cut
      /\ proc'.pc = "exit0" => proc'.lang = "ts"
      /\ proc.at <= Len(proc.prog) /\ proc.prog[proc.at].op = "Run"
      /\ Len(stdout) < Len(nodeList) /\ ProcessInv
      /\ UNCHANGED <<files, heap, nodeList, stdout, command, started, commands>>
  BY DEF RunWriteFails, Running, Here, CommandInv, ProcType, Lang
<1>2. ProcessInv'
  BY <1>1 DEF ProcessInv
<1> QED
  BY <1>1, <1>2 DEF CommandInv

\* The children of the program change nothing else.
LEMMA ChildStep == CommandInv /\ (SpawnChild \/ ChildEnds) => CommandInv'
<1> SUFFICES ASSUME CommandInv, SpawnChild \/ ChildEnds
             PROVE  CommandInv'
  OBVIOUS
<1>1. /\ proc' \in ProcType /\ proc'.pc = proc.pc /\ proc'.prog = proc.prog
      /\ proc'.at = proc.at /\ proc'.lang = proc.lang /\ proc'.cut = proc.cut
      /\ UNCHANGED <<files, heap, nodeList, stdout, command, started, commands>>
  BY DEF SpawnChild, ChildEnds, CommandInv, ProcType
<1>2. ProcessInv => ProcessInv'
  BY <1>1 DEF ProcessInv
<1> QED
  BY <1>1, <1>2 DEF CommandInv

\* A process starts with nothing built and nothing written.
LEMMA RunCommandStep == CommandInv /\ RunCommand => CommandInv'
<1> SUFFICES ASSUME CommandInv, RunCommand
             PROVE  CommandInv'
  OBVIOUS
<1>1. CASE detectBrazierfile = "none"
  BY <1>1 DEF CommandInv, RunCommand
<1>2. CASE detectBrazierfile # "none"
  <2> DEFINE p == files[detectBrazierfile]
  <2>1. p \in Programs
    BY <1>2 DEF CommandInv, detectBrazierfile, Lang
  <2> HIDE DEF p
  <2>2. /\ proc' \in ProcType /\ proc'.pc = "running" /\ proc'.prog = p /\ proc'.at = 1
        /\ command' = [pc |-> "exec", spec |-> <<>>]
        /\ heap' = [b \in Builder |-> NoNode] /\ nodeList' = <<>> /\ stdout' = <<>>
        /\ UNCHANGED files
    <3>1. proc' = [NoProcess EXCEPT !.pc = "running", !.lang = detectBrazierfile,
                                    !.prog = p]
      BY <1>2 DEF RunCommand, p
    <3>2. detectBrazierfile \in Lang
      BY <1>2 DEF detectBrazierfile, Lang
    <3>3. NoProcess \in ProcType /\ NoProcess.at = 1
      BY DEF NoProcess, ProcType, Lang
    <3>4. /\ proc' \in ProcType /\ proc'.pc = "running" /\ proc'.prog = p
          /\ proc'.at = 1
      <4> HIDE DEF NoProcess
      <4> QED
        BY <2>1, <3>1, <3>2, <3>3 DEF ProcType
    <3> QED
      BY <1>2, <3>4 DEF RunCommand
  <2>3. Len(p) \in Nat
    BY <2>1, ProgramsAssumption, ProgramType
  <2>4. /\ \A b : Built(p, 1 - 1, b) = NoNode
        /\ ~Listed(p, 1 - 1) /\ 1 \in 1..(Len(p) + 1)
    BY <2>3 DEF Built, MadeBy, Listed
  <2>5. stdout' = [i \in 1..0 |-> Marshal(heap', nodeList')[i]] /\ 0 \in 0..Len(nodeList')
    BY <2>2
  <2>6. ProcessInv'
    BY <2>1, <2>2, <2>4, <2>5 DEF ProcessInv
  <2> QED
    BY <2>2, <2>6 DEF CommandInv
<1> QED
  BY <1>1, <1>2

LEMMA CommandInvInit == BrazierfileInit => CommandInv
BY DEF BrazierfileInit, NoProcess, CommandInv, ProcType, Lang

LEMMA CommandInvStep == CommandInv /\ [BrazierfileNext]_bvars => CommandInv'
<1> SUFFICES ASSUME CommandInv, [BrazierfileNext]_bvars
             PROVE  CommandInv'
  OBVIOUS
<1>1. ASSUME UNCHANGED <<proc, heap, nodeList, stdout>>
      PROVE  ProcessInv => ProcessInv'
  BY <1>1 DEF ProcessInv
<1>2. CASE ExecReturns
  BY <1>1, <1>2 DEF CommandInv, ExecReturns
<1>3. CASE submitPipeline
  BY <1>1, <1>3 DEF CommandInv, submitPipeline
<1>4. CASE TriggerCommand
  BY <1>1, <1>4 DEF CommandInv, TriggerCommand
<1>5. CASE CommandEnds
  BY <1>5 DEF CommandInv, CommandEnds, NoProcess, ProcType, Lang
<1>6. CASE UNCHANGED bvars
  BY <1>1, <1>6 DEF CommandInv, bvars
<1> QED
  BY <1>2, <1>3, <1>4, <1>5, <1>6, BuildStep, NewPipelineStep, RunWriteStep,
     QuitStep, RunWriteFailsStep, ChildStep, RunCommandStep
  DEF BrazierfileNext

\* With all calls made the message is what the program declares.
LEMMA Complete ==
    ASSUME NEW p, WellFormed(p), CallsRun(p), NEW h, NEW list,
           h = [b \in Builder |-> Built(p, Len(p) - 1, b)],
           list = IF Listed(p, Len(p) - 1) THEN List(p) ELSE <<>>
    PROVE  Marshal(h, list) = Declared(p)
<1> DEFINE n == Len(p)
<1>1. n \in 1..Len(p) /\ p[n].op = "Run" /\ \E k \in 1..n : p[k].op = "NewPipeline"
  <2>1. PICK i \in 1..Len(p) : p[i].op = "Run"
    BY ProgramType DEF CallsRun
  <2> QED
    BY <2>1 DEF WellFormed
<1>2. PICK last \in 1..(n - 1) : p[last].op = "NewPipeline"
  BY <1>1
<1>3. /\ list = List(p) /\ list \in Seq(Argument)
      /\ \A i \in 1..Len(list) : MadeBy(p, n - 1, list[i])
  BY <1>1, <1>2, ListOf DEF Listed, MadeBy
<1>4. ASSUME NEW b, MadeBy(p, n - 1, b)
      PROVE  /\ b \in Builder
             /\ h[b] = [kind |-> Kind(p, b), jobs |-> AllArgs(p, "Stage", b),
                        dependsOn |-> AllArgs(p, "DependsOn", b),
                        conditions |-> AllArgs(p, "When", b)]
             /\ \A i \in 1..Len(AllArgs(p, "Stage", b)) :
                  MadeBy(p, n - 1, AllArgs(p, "Stage", b)[i])
  <2>1. b \in Builder
    <3>1. PICK i \in 1..(n - 1) : Makes(p[i], b)
      BY <1>4 DEF MadeBy
    <3>2. i \in 1..Len(p)
      BY <1>1
    <3> QED
      BY <3>1, <3>2, ProgramType DEF Makes
  <2>2. ASSUME NEW op \in {"Stage", "DependsOn", "When"}
        PROVE  AllArgs(p, op, b) = Given(p, op, b)[n - 1]
    <3>1. Given(p, op, b)[n] = Given(p, op, b)[n - 1] \o Added(p, op, b, n)
      BY <1>1, GivenStep
    <3>2. Added(p, op, b, n) = <<>> /\ Given(p, op, b)[n - 1] \in Seq(Argument)
      BY <1>1, GivenType DEF Added
    <3> QED
      BY <3>1, <3>2 DEF AllArgs
  <2>3. n - 1 \in 0..Len(p)
    BY <1>1
  <2> QED
    BY <1>4, <2>1, <2>2, <2>3, JobsMade DEF Built
<1> DEFINE node(b) == [id |-> b, kind |-> Kind(p, b),
                       dependsOn |-> AllArgs(p, "DependsOn", b),
                       conditions |-> AllArgs(p, "When", b)]
<1>5. ASSUME NEW b, MadeBy(p, n - 1, b)
      PROVE  Message(h, b) = node(b) /\ h[b].jobs = AllArgs(p, "Stage", b)
  <2>1. h[b] = [kind |-> Kind(p, b), jobs |-> AllArgs(p, "Stage", b),
                dependsOn |-> AllArgs(p, "DependsOn", b),
                conditions |-> AllArgs(p, "When", b)]
    BY <1>4, <1>5
  <2> QED
    BY <2>1 DEF Message
<1> DEFINE messages(x) == [k \in 1..Len(x) |-> Message(h, x[k])]
           nodes(x) == [k \in 1..Len(x) |-> node(x[k])]
           sent(b) == [node |-> Message(h, b), jobs |-> messages(h[b].jobs)]
           whole(b) == [node |-> node(b), jobs |-> nodes(AllArgs(p, "Stage", b))]
<1>6. Declared(p) = [i \in 1..Len(list) |-> whole(list[i])]
  BY <1>3 DEF Declared, List
<1>7. Marshal(h, list) = [i \in 1..Len(list) |-> sent(list[i])]
  BY DEF Marshal
<1> HIDE DEF node
<1>8. ASSUME NEW b, MadeBy(p, n - 1, b)
      PROVE  sent(b) = whole(b)
  <2> DEFINE jobs == AllArgs(p, "Stage", b)
  <2>1. Message(h, b) = node(b) /\ h[b].jobs = jobs
    BY <1>5, <1>8
  <2>2. \A k \in 1..Len(jobs) : Message(h, jobs[k]) = node(jobs[k])
    <3>1. \A k \in 1..Len(jobs) : MadeBy(p, n - 1, jobs[k])
      BY <1>4, <1>8
    <3> QED
      BY <1>5, <3>1
  <2> HIDE DEF jobs
  <2>3. messages(jobs) = nodes(jobs)
    BY <2>2
  <2> HIDE DEF messages, nodes
  <2> QED
    BY <2>1, <2>3 DEF jobs
<1>9. \A i \in 1..Len(list) : sent(list[i]) = whole(list[i])
  <2> HIDE DEF sent, whole
  <2> QED
    BY <1>3, <1>8
<1> HIDE DEF sent, whole
<1> QED
  BY <1>6, <1>7, <1>9

\* What is about to be submitted is whole.
LEMMA CommandWhole == CommandInv => SubmittedWhole
<1> SUFFICES ASSUME CommandInv, command.pc = "submit", proc.pc # "none"
             PROVE  SubmittedWhole
  BY DEF SubmittedWhole
<1> DEFINE p == proc.prog
           n == proc.at
           message == Marshal(heap, nodeList)
<1>1. /\ proc.pc = "exit0" /\ command.spec = stdout /\ ProcessInv
      /\ WellFormed(p) /\ Len(p) \in Nat /\ n \in 1..(Len(p) + 1)
      /\ nodeList \in Seq(Argument)
  BY ProcessFacts DEF CommandInv
<1>2. CASE n <= Len(p) /\ p[n].op = "Run"
  <2>1. CallsRun(p) /\ n = Len(p)
    BY <1>1, <1>2, ProgramType DEF CallsRun, WellFormed
  <2>2. /\ \E m \in 0..Len(nodeList) : stdout = [i \in 1..m |-> message[i]]
        /\ \/ stdout = message
           \/ proc.lang = "ts" /\ proc.cut /\ Len(stdout) < Len(nodeList)
        /\ heap = [b \in Builder |-> Built(p, n - 1, b)]
        /\ nodeList = IF Listed(p, n - 1) THEN List(p) ELSE <<>>
    BY <1>1, <1>2 DEF ProcessInv
  <2>3. message = Declared(p)
    BY <1>1, <2>1, <2>2, Complete
  <2>4. CASE stdout = message
    BY <1>1, <2>1, <2>3, <2>4 DEF SubmittedWhole
  <2>5. CASE proc.lang = "ts" /\ proc.cut /\ Len(stdout) < Len(nodeList)
    <3>1. /\ Len(message) = Len(nodeList) /\ Len(nodeList) \in Nat
          /\ message = [i \in 1..Len(nodeList) |-> message[i]]
      BY <1>1 DEF Marshal
    <3>2. PICK m \in 0..Len(nodeList) : stdout = [i \in 1..m |-> message[i]]
      BY <2>2
    <3> HIDE DEF message
    <3>3. Len(stdout) = m /\ m \in 0..(Len(message) - 1)
      BY <2>5, <3>1, <3>2
    <3>4. stdout = SubSeq(message, 1, m)
      <4>1. message \in Seq({message[i] : i \in 1..Len(nodeList)})
        BY <3>1
      <4> QED
        BY <3>1, <3>2, <4>1, SubSeqMade
    <3> QED
      BY <1>1, <2>1, <2>3, <2>5, <3>3, <3>4 DEF SubmittedWhole
  <2> QED
    BY <2>2, <2>4, <2>5
<1>3. CASE ~(n <= Len(p) /\ p[n].op = "Run")
  <2>1. stdout = <<>> /\ n = Len(p) + 1 /\ \A k \in 1..(n - 1) : p[k].op # "Run"
    BY <1>1, <1>3 DEF ProcessInv
  <2>2. ~CallsRun(p)
    BY <1>1, <2>1, ProgramType DEF CallsRun
  <2> QED
    BY <1>1, <2>1, <2>2 DEF SubmittedWhole
<1> QED
  BY <1>2, <1>3

\* What the client submits for a Brazierfile is the whole of what the program
\* declares, or nothing when it does not call Run; for a program in TypeScript
\* whose write did not go through it is the nodes that came out.
THEOREM BrazierfileSubmittedWhole == BrazierfileSpec => []SubmittedWhole
BY CommandInvInit, CommandInvStep, CommandWhole, PTL DEF BrazierfileSpec

=============================================================================
