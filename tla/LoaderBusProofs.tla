--------------------------- MODULE LoaderBusProofs ---------------------------
(***************************************************************************)
(* Proofs about WorkflowLoader and Bus, the two components that stand by   *)
(* themselves: for any number of calls, versions and pushes what the       *)
(* loader caches is what was asked for, as long as calls do not overlap,   *)
(* and for any goroutines, handlers and types no event misses a handler.   *)
(***************************************************************************)
EXTENDS WorkflowLoader, Bus, FiniteSetTheorems, SequenceTheorems, TLAPS

-----------------------------------------------------------------------------
(* The loader: its inductive invariant *)

LoadPlace == {"idle", "stat", "clone", "cloning", "fetch", "checkout", "exec",
              "running", "killed", "held", "store", "done", "failed"}
DAG == [version : Version, commit : Nat]
LoadState == [pc : LoadPlace, version : Version \cup {None}, dag : DAG \cup {None},
              first : BOOLEAN]

LoaderTypeOK ==
    /\ load \in [Call -> LoadState]
    /\ cache \in [Version -> DAG \cup {None}]
    /\ origin \in [Version -> Nat]
    /\ known \in [Version -> Nat \cup {None}]
    /\ git \in {"absent", "cloning", "partial", "ready"}
    /\ tree \in DAG \cup {None}
    /\ overlapped \in BOOLEAN /\ faulted \in BOOLEAN
    /\ \A l \in Call : load[l].pc # "idle" => load[l].version \in Version

\* d was made from version v at a commit v has had.
MadeFrom(d, v) == d \in DAG /\ d.version = v /\ d.commit <= origin[v]

\* Commits the clone knows, and DAGs in the cache, are of the past.
OfThePast ==
    /\ \A v \in Version : known[v] # None => known[v] <= origin[v]
    /\ \A v \in Version : cache[v] # None => MadeFrom(cache[v], v)

\* What a call has in the work tree, and in its hands, is what it was asked for.
OwnVersion(l) ==
    /\ load[l].pc = "exec" => MadeFrom(tree, load[l].version)
    /\ load[l].pc \in {"running", "held", "store"} =>
         MadeFrom(load[l].dag, load[l].version)

OneLoad == \A k, l \in Call : InProgress(k) /\ InProgress(l) => k = l

\* As long as nothing went wrong: one call makes the clone, all others fetch, and
\* know every version when they check theirs out.
CloneFirst ==
    /\ git # "partial"
    /\ git = "ready" => known[Main] # None
    /\ git = "absent" => \A l \in Call : ~load[l].first
    /\ \A k, l \in Call : load[k].first /\ load[l].first => k = l
    /\ git = "cloning" => \E l \in Call : load[l].pc = "cloning"
    /\ \A l \in Call :
         /\ load[l].pc = "clone" => git = "absent"
         /\ load[l].pc = "cloning" => git = "cloning" /\ load[l].first
         /\ load[l].pc \in {"fetch", "checkout", "exec", "running", "held", "store"} =>
              git = "ready"
         /\ load[l].pc = "checkout" /\ ~load[l].first =>
              \A v \in Version : known[v] # None
         /\ load[l].pc # "killed"
         /\ load[l].pc = "failed" => load[l].first /\ load[l].version \in Tag

LoaderInv ==
    /\ LoaderTypeOK
    /\ ~overlapped =>
         /\ OneLoad
         /\ OfThePast
         /\ \A l \in Call : OwnVersion(l)
         /\ ~faulted => CloneFirst
-----------------------------------------------------------------------------
(* The loader: the invariant is inductive *)

\* Nothing is cloned, cached or called in the beginning.
LEMMA LoaderInvInit == LoaderInit => LoaderInv
<1> SUFFICES ASSUME LoaderInit
             PROVE  LoaderInv
  OBVIOUS
<1> USE MainAssumption, NoneAssumption DEF LoaderInit
<1>1. LoaderTypeOK
  BY DEF LoaderTypeOK, LoadState, LoadPlace, Version, DAG
<1>2. \A l \in Call : load[l].pc = "idle"
  OBVIOUS
<1>3. OneLoad /\ \A l \in Call : OwnVersion(l)
  BY <1>2 DEF OneLoad, OwnVersion, InProgress
<1>4. OfThePast
  BY DEF OfThePast
<1>5. CloneFirst
  BY <1>2 DEF CloneFirst
<1> QED
  BY <1>1, <1>3, <1>4, <1>5 DEF LoaderInv

\* Every step keeps the types.
LEMMA LoaderTypeStep ==
    LoaderTypeOK /\ [LoaderNext]_wvars => LoaderTypeOK'
<1> SUFFICES ASSUME LoaderTypeOK, [LoaderNext]_wvars
             PROVE  LoaderTypeOK'
  OBVIOUS
<1> USE MainAssumption, NoneAssumption, BoundAssumption
    DEF LoaderTypeOK, LoadState, LoadPlace, DAG, Version, MoveTo, Continue, MayFail,
        hist
<1>1. ASSUME NEW k \in Call, NEW u \in Version, Load(k, u)
      PROVE  LoaderTypeOK'
  BY <1>1 DEF Load
<1>2. ASSUME NEW k \in Call, ExecEnds(k)
      PROVE  LoaderTypeOK'
  <2>1. load' \in [Call -> LoadState] /\ load'[k].version = load[k].version
    BY <1>2 DEF ExecEnds
  <2>2. \A l \in Call \ {k} : load'[l] = load[l]
    BY <1>2 DEF ExecEnds
  <2>3. faulted' \in BOOLEAN /\ overlapped' = overlapped
    BY <1>2 DEF ExecEnds
  <2>4. UNCHANGED <<cache, origin, known, git, tree>>
    BY <1>2 DEF ExecEnds
  <2>5. load[k].pc # "idle"
    BY <1>2 DEF ExecEnds
  <2> QED
    BY <2>1, <2>2, <2>3, <2>4, <2>5
<1>3. ASSUME NEW k \in Call, ExecTimeout(k)
      PROVE  LoaderTypeOK'
  BY <1>3 DEF ExecTimeout
<1>4. ASSUME NEW k \in Call, PipeCloses(k)
      PROVE  LoaderTypeOK'
  <2>1. load' \in [Call -> LoadState] /\ load'[k].version = load[k].version
    BY <1>4 DEF PipeCloses
  <2>2. \A l \in Call \ {k} : load'[l] = load[l]
    BY <1>4 DEF PipeCloses
  <2>3. faulted' \in BOOLEAN /\ overlapped' = overlapped
    BY <1>4 DEF PipeCloses
  <2>4. UNCHANGED <<cache, origin, known, git, tree>>
    BY <1>4 DEF PipeCloses
  <2>5. load[k].pc # "idle"
    BY <1>4 DEF PipeCloses
  <2> QED
    BY <2>1, <2>2, <2>3, <2>4, <2>5
<1>5. ASSUME NEW k \in Call, ExecBegin(k)
      PROVE  LoaderTypeOK'
  <2>1. load' \in [Call -> LoadState] /\ load'[k].version = load[k].version
    <3>1. [load[k] EXCEPT !.pc = "running", !.dag = tree] \in LoadState
      BY DEF LoadState
    <3>2. load' = [load EXCEPT ![k] = [load[k] EXCEPT !.pc = "running", !.dag = tree]]
      BY <1>5 DEF ExecBegin
    <3> QED
      BY <3>1, <3>2
  <2>2. \A l \in Call \ {k} : load'[l] = load[l]
    BY <1>5 DEF ExecBegin
  <2>3. faulted' \in BOOLEAN /\ overlapped' = overlapped
    BY <1>5 DEF ExecBegin
  <2>4. UNCHANGED <<cache, origin, known, git, tree>>
    BY <1>5 DEF ExecBegin
  <2>5. load[k].pc # "idle"
    BY <1>5 DEF ExecBegin
  <2> QED
    BY <2>1, <2>2, <2>3, <2>4, <2>5
<1>6. ASSUME NEW k \in Call, Store(k)
      PROVE  LoaderTypeOK'
  BY <1>6 DEF Store
<1>7. ASSUME NEW k \in Call, Stat(k)
      PROVE  LoaderTypeOK'
  BY <1>7 DEF Stat
<1>8. ASSUME NEW k \in Call, CloneBegin(k)
      PROVE  LoaderTypeOK'
  BY <1>8 DEF CloneBegin
<1>9. ASSUME NEW k \in Call, CloneEnd(k)
      PROVE  LoaderTypeOK'
  BY <1>9 DEF CloneEnd
<1>10. ASSUME NEW k \in Call, CloneFails(k)
      PROVE  LoaderTypeOK'
  BY <1>10 DEF CloneFails
<1>11. ASSUME NEW k \in Call, Fetch(k)
      PROVE  LoaderTypeOK'
  <2>1. load' \in [Call -> LoadState] /\ load'[k].version = load[k].version
    BY <1>11 DEF Fetch
  <2>2. \A l \in Call \ {k} : load'[l] = load[l]
    BY <1>11 DEF Fetch
  <2>3. faulted' \in BOOLEAN /\ overlapped' = overlapped
    BY <1>11 DEF Fetch
  <2>4. /\ known' \in [Version -> Nat \cup {None}]
        /\ git' \in {"absent", "cloning", "partial", "ready"}
    BY <1>11 DEF Fetch, Learn
  <2>5. UNCHANGED <<cache, origin, tree>>
    BY <1>11 DEF Fetch
  <2> QED
    BY <1>11, <2>1, <2>2, <2>3, <2>4, <2>5 DEF Fetch
<1>12. ASSUME NEW k \in Call, Checkout(k)
      PROVE  LoaderTypeOK'
  <2>1. load' \in [Call -> LoadState] /\ load'[k].version = load[k].version
    BY <1>12 DEF Checkout
  <2>2. \A l \in Call \ {k} : load'[l] = load[l]
    BY <1>12 DEF Checkout
  <2>3. faulted' \in BOOLEAN /\ overlapped' = overlapped
    BY <1>12 DEF Checkout
  <2>4. tree' \in DAG \cup {None}
    BY <1>12 DEF Checkout
  <2>5. UNCHANGED <<cache, origin, known, git>>
    BY <1>12 DEF Checkout
  <2> QED
    BY <1>12, <2>1, <2>2, <2>3, <2>4, <2>5 DEF Checkout
<1>13. CASE Push
  BY <1>13 DEF Push
<1>14. CASE UNCHANGED wvars
  BY <1>14 DEF wvars
<1> QED
  BY <1>1, <1>2, <1>3, <1>4, <1>5, <1>6, <1>7, <1>8, <1>9, <1>10, <1>11,
     <1>12, <1>13, <1>14
     DEF LoaderNext, LoadStep, ProgramStep

\* A call begins alone, or calls overlap.
LEMMA OneLoadStep ==
    ASSUME LoaderInv, [LoaderNext]_wvars, LoaderTypeOK', ~overlapped'
    PROVE  OneLoad'
<1> USE MainAssumption, NoneAssumption, BoundAssumption
    DEF LoaderInv, LoaderTypeOK, LoadState, LoadPlace, DAG, Version, MoveTo, Continue,
        MayFail, hist, OneLoad, OfThePast, OwnVersion, MadeFrom, CloneFirst, InProgress
<1>1. ASSUME NEW k \in Call, NEW u \in Version, Load(k, u)
      PROVE  OneLoad'
  <2>1. \A l \in Call : ~InProgress(l)
    BY <1>1 DEF Load
  <2>2. \A l \in Call \ {k} : load'[l] = load[l]
    BY <1>1 DEF Load
  <2> QED
    BY <2>1, <2>2
<1>2. ASSUME NEW k \in Call, ExecEnds(k)
      PROVE  OneLoad'
  BY <1>2 DEF ExecEnds
<1>3. ASSUME NEW k \in Call, ExecTimeout(k)
      PROVE  OneLoad'
  BY <1>3 DEF ExecTimeout
<1>4. ASSUME NEW k \in Call, PipeCloses(k)
      PROVE  OneLoad'
  BY <1>4 DEF PipeCloses
<1>5. ASSUME NEW k \in Call, ExecBegin(k)
      PROVE  OneLoad'
  BY <1>5 DEF ExecBegin
<1>6. ASSUME NEW k \in Call, Store(k)
      PROVE  OneLoad'
  BY <1>6 DEF Store
<1>7. ASSUME NEW k \in Call, Stat(k)
      PROVE  OneLoad'
  BY <1>7 DEF Stat
<1>8. ASSUME NEW k \in Call, CloneBegin(k)
      PROVE  OneLoad'
  BY <1>8 DEF CloneBegin
<1>9. ASSUME NEW k \in Call, CloneEnd(k)
      PROVE  OneLoad'
  BY <1>9 DEF CloneEnd
<1>10. ASSUME NEW k \in Call, CloneFails(k)
      PROVE  OneLoad'
  BY <1>10 DEF CloneFails
<1>11. ASSUME NEW k \in Call, Fetch(k)
      PROVE  OneLoad'
  BY <1>11 DEF Fetch, Learn
<1>12. ASSUME NEW k \in Call, Checkout(k)
      PROVE  OneLoad'
  BY <1>12 DEF Checkout
<1>13. CASE Push
  BY <1>13 DEF Push
<1>14. CASE UNCHANGED wvars
  BY <1>14 DEF wvars
<1> QED
  BY <1>1, <1>2, <1>3, <1>4, <1>5, <1>6, <1>7, <1>8, <1>9, <1>10, <1>11,
     <1>12, <1>13, <1>14
     DEF LoaderNext, LoadStep, ProgramStep

\* Commits are only fetched from what the remote has, and the cache is filled from
\* what the call holds.
LEMMA OfThePastStep ==
    ASSUME LoaderInv, [LoaderNext]_wvars, LoaderTypeOK', ~overlapped'
    PROVE  OfThePast'
<1> USE MainAssumption, NoneAssumption, BoundAssumption
    DEF LoaderInv, LoaderTypeOK, LoadState, LoadPlace, DAG, Version, MoveTo, Continue,
        MayFail, hist, OneLoad, OfThePast, OwnVersion, MadeFrom, CloneFirst, InProgress
<1>1. ASSUME NEW k \in Call, NEW u \in Version, Load(k, u)
      PROVE  OfThePast'
  BY <1>1 DEF Load
<1>2. ASSUME NEW k \in Call, ExecEnds(k)
      PROVE  OfThePast'
  BY <1>2 DEF ExecEnds
<1>3. ASSUME NEW k \in Call, ExecTimeout(k)
      PROVE  OfThePast'
  BY <1>3 DEF ExecTimeout
<1>4. ASSUME NEW k \in Call, PipeCloses(k)
      PROVE  OfThePast'
  BY <1>4 DEF PipeCloses
<1>5. ASSUME NEW k \in Call, ExecBegin(k)
      PROVE  OfThePast'
  BY <1>5 DEF ExecBegin
<1>6. ASSUME NEW k \in Call, Store(k)
      PROVE  OfThePast'
  BY <1>6 DEF Store
<1>7. ASSUME NEW k \in Call, Stat(k)
      PROVE  OfThePast'
  BY <1>7 DEF Stat
<1>8. ASSUME NEW k \in Call, CloneBegin(k)
      PROVE  OfThePast'
  BY <1>8 DEF CloneBegin
<1>9. ASSUME NEW k \in Call, CloneEnd(k)
      PROVE  OfThePast'
  BY <1>9 DEF CloneEnd
<1>10. ASSUME NEW k \in Call, CloneFails(k)
      PROVE  OfThePast'
  BY <1>10 DEF CloneFails
<1>11. ASSUME NEW k \in Call, Fetch(k)
      PROVE  OfThePast'
  BY <1>11 DEF Fetch, Learn
<1>12. ASSUME NEW k \in Call, Checkout(k)
      PROVE  OfThePast'
  BY <1>12 DEF Checkout
<1>13. CASE Push
  BY <1>13 DEF Push
<1>14. CASE UNCHANGED wvars
  BY <1>14 DEF wvars
<1> QED
  BY <1>1, <1>2, <1>3, <1>4, <1>5, <1>6, <1>7, <1>8, <1>9, <1>10, <1>11,
     <1>12, <1>13, <1>14
     DEF LoaderNext, LoadStep, ProgramStep

\* Nobody else switches the work tree between the checkout and the execution.
LEMMA OwnVersionStep ==
    ASSUME LoaderInv, [LoaderNext]_wvars, LoaderTypeOK', ~overlapped'
    PROVE  (\A l \in Call : OwnVersion(l))'
<1> USE MainAssumption, NoneAssumption, BoundAssumption
    DEF LoaderInv, LoaderTypeOK, LoadState, LoadPlace, DAG, Version, MoveTo, Continue,
        MayFail, hist, OneLoad, OfThePast, OwnVersion, MadeFrom, CloneFirst, InProgress
<1>1. ASSUME NEW k \in Call, NEW u \in Version, Load(k, u)
      PROVE  (\A l \in Call : OwnVersion(l))'
  BY <1>1 DEF Load
<1>2. ASSUME NEW k \in Call, ExecEnds(k)
      PROVE  (\A l \in Call : OwnVersion(l))'
  BY <1>2 DEF ExecEnds
<1>3. ASSUME NEW k \in Call, ExecTimeout(k)
      PROVE  (\A l \in Call : OwnVersion(l))'
  BY <1>3 DEF ExecTimeout
<1>4. ASSUME NEW k \in Call, PipeCloses(k)
      PROVE  (\A l \in Call : OwnVersion(l))'
  BY <1>4 DEF PipeCloses
<1>5. ASSUME NEW k \in Call, ExecBegin(k)
      PROVE  (\A l \in Call : OwnVersion(l))'
  BY <1>5 DEF ExecBegin
<1>6. ASSUME NEW k \in Call, Store(k)
      PROVE  (\A l \in Call : OwnVersion(l))'
  BY <1>6 DEF Store
<1>7. ASSUME NEW k \in Call, Stat(k)
      PROVE  (\A l \in Call : OwnVersion(l))'
  BY <1>7 DEF Stat
<1>8. ASSUME NEW k \in Call, CloneBegin(k)
      PROVE  (\A l \in Call : OwnVersion(l))'
  BY <1>8 DEF CloneBegin
<1>9. ASSUME NEW k \in Call, CloneEnd(k)
      PROVE  (\A l \in Call : OwnVersion(l))'
  BY <1>9 DEF CloneEnd
<1>10. ASSUME NEW k \in Call, CloneFails(k)
      PROVE  (\A l \in Call : OwnVersion(l))'
  BY <1>10 DEF CloneFails
<1>11. ASSUME NEW k \in Call, Fetch(k)
      PROVE  (\A l \in Call : OwnVersion(l))'
  BY <1>11 DEF Fetch, Learn
<1>12. ASSUME NEW k \in Call, Checkout(k)
      PROVE  (\A l \in Call : OwnVersion(l))'
  BY <1>12 DEF Checkout
<1>13. CASE Push
  BY <1>13 DEF Push
<1>14. CASE UNCHANGED wvars
  BY <1>14 DEF wvars
<1> QED
  BY <1>1, <1>2, <1>3, <1>4, <1>5, <1>6, <1>7, <1>8, <1>9, <1>10, <1>11,
     <1>12, <1>13, <1>14
     DEF LoaderNext, LoadStep, ProgramStep

\* Without faults only the call that makes the clone can fail.
LEMMA CloneFirstStep ==
    ASSUME LoaderInv, [LoaderNext]_wvars, LoaderTypeOK', ~overlapped'
    PROVE  (~faulted => CloneFirst)'
<1> USE MainAssumption, NoneAssumption, BoundAssumption
    DEF LoaderInv, LoaderTypeOK, LoadState, LoadPlace, DAG, Version, MoveTo, Continue,
        MayFail, hist, OneLoad, OfThePast, OwnVersion, MadeFrom, CloneFirst, InProgress
<1>1. ASSUME NEW k \in Call, NEW u \in Version, Load(k, u)
      PROVE  (~faulted => CloneFirst)'
  BY <1>1 DEF Load
<1>2. ASSUME NEW k \in Call, ExecEnds(k)
      PROVE  (~faulted => CloneFirst)'
  <2>1. CASE load'[k].pc = "store"
    BY <1>2, <2>1 DEF ExecEnds
  <2>2. CASE load'[k].pc = "held"
    BY <1>2, <2>2 DEF ExecEnds
  <2>3. CASE faulted'
    BY <2>3
  <2> QED
    BY <1>2, <2>1, <2>2, <2>3 DEF ExecEnds
<1>3. ASSUME NEW k \in Call, ExecTimeout(k)
      PROVE  (~faulted => CloneFirst)'
  BY <1>3 DEF ExecTimeout
<1>4. ASSUME NEW k \in Call, PipeCloses(k)
      PROVE  (~faulted => CloneFirst)'
  BY <1>4 DEF PipeCloses
<1>5. ASSUME NEW k \in Call, ExecBegin(k)
      PROVE  (~faulted => CloneFirst)'
  BY <1>5 DEF ExecBegin
<1>6. ASSUME NEW k \in Call, Store(k)
      PROVE  (~faulted => CloneFirst)'
  BY <1>6 DEF Store
<1>7. ASSUME NEW k \in Call, Stat(k)
      PROVE  (~faulted => CloneFirst)'
  BY <1>7 DEF Stat
<1>8. ASSUME NEW k \in Call, CloneBegin(k)
      PROVE  (~faulted => CloneFirst)'
  BY <1>8 DEF CloneBegin
<1>9. ASSUME NEW k \in Call, CloneEnd(k)
      PROVE  (~faulted => CloneFirst)'
  BY <1>9 DEF CloneEnd
<1>10. ASSUME NEW k \in Call, CloneFails(k)
      PROVE  (~faulted => CloneFirst)'
  BY <1>10 DEF CloneFails
<1>11. ASSUME NEW k \in Call, Fetch(k)
      PROVE  (~faulted => CloneFirst)'
  <2> SUFFICES ASSUME ~faulted'
               PROVE  CloneFirst'
    OBVIOUS
  <2>1. CloneFirst /\ git = "ready" /\ load[k].pc = "fetch"
    BY <1>11 DEF Fetch
  <2>2. /\ load' = [load EXCEPT ![k].pc = "checkout"] /\ git' = "ready"
        /\ known' = [v \in Version |-> Learn(v)]
    BY <1>11, <2>1 DEF Fetch
  <2>3. \A v \in Version : known'[v] # None
    BY <2>2 DEF Learn
  <2>4. known'[Main] # None
    BY <2>3
  <2>5. /\ \A l \in Call : load'[l].first = load[l].first
        /\ \A l \in Call : load'[l].version = load[l].version
        /\ \A l \in Call \ {k} : load'[l] = load[l]
        /\ load'[k].pc = "checkout"
    BY <2>2
  <2>6. \A i, l \in Call : load'[i].first /\ load'[l].first => i = l
    BY <2>1, <2>5
  <2>7. ASSUME NEW l \in Call
        PROVE  /\ load'[l].pc \notin {"clone", "cloning", "killed"}
               /\ load'[l].pc = "failed" =>
                    load'[l].first /\ load'[l].version \in Tag
    BY <2>1, <2>5
  <2> QED
    BY <2>2, <2>3, <2>4, <2>6, <2>7
<1>12. ASSUME NEW k \in Call, Checkout(k)
      PROVE  (~faulted => CloneFirst)'
  <2>1. CASE load'[k].pc = "exec"
    BY <1>12, <2>1 DEF Checkout
  <2>2. CASE load'[k].pc = "failed" /\ ~faulted'
    BY <1>12, <2>2 DEF Checkout
  <2> QED
    BY <1>12, <2>1, <2>2 DEF Checkout
<1>13. CASE Push
  BY <1>13 DEF Push
<1>14. CASE UNCHANGED wvars
  BY <1>14 DEF wvars
<1> QED
  BY <1>1, <1>2, <1>3, <1>4, <1>5, <1>6, <1>7, <1>8, <1>9, <1>10, <1>11,
     <1>12, <1>13, <1>14
     DEF LoaderNext, LoadStep, ProgramStep

\* The four parts together.
LEMMA LoaderInvStep == LoaderInv /\ [LoaderNext]_wvars => LoaderInv'
<1> SUFFICES ASSUME LoaderInv, [LoaderNext]_wvars
             PROVE  LoaderInv'
  OBVIOUS
<1>1. LoaderTypeOK'
  BY LoaderTypeStep DEF LoaderInv
<1>2. ASSUME ~overlapped'
      PROVE  OneLoad' /\ OfThePast' /\ (\A l \in Call : OwnVersion(l))'
             /\ (~faulted => CloneFirst)'
  BY <1>1, <1>2, OneLoadStep, OfThePastStep, OwnVersionStep, CloneFirstStep
<1> QED
  BY <1>1, <1>2 DEF LoaderInv

-----------------------------------------------------------------------------
(* The loader: theorems *)

\* Every reachable state of the loader satisfies the invariant
\* (loader.go:37-63).
THEOREM LoaderTypeCorrect == LoaderSpec => []LoaderInv
<1>1. LoaderInit => LoaderInv
  BY LoaderInvInit
<1>2. LoaderInv /\ [LoaderNext]_wvars => LoaderInv'
  BY LoaderInvStep
<1> QED
  BY <1>1, <1>2, PTL DEF LoaderSpec

\* For any number of calls, tags and pushes, and whatever fails, is killed or is
\* left half-made: the cache is exact until two calls overlap (loader.go:36-63).
THEOREM LoaderCacheExact == LoaderSpec => []CacheExact
<1>1. LoaderInv => CacheExact
  BY DEF LoaderInv, OfThePast, MadeFrom, CacheExact
<1> QED
  BY <1>1, LoaderTypeCorrect, PTL

\* For any number of calls, tags and pushes: when calls do not overlap and nothing
\* fails by itself or is killed, the only load of an existing version that may fail
\* is one of a tag by the call that makes the clone (loader.go:75, 81).
THEOREM LoaderOthersSucceed == LoaderSpec => []OthersSucceed
<1>1. LoaderInv => OthersSucceed
  BY DEF LoaderInv, CloneFirst, OthersSucceed
<1> QED
  BY <1>1, LoaderTypeCorrect, PTL

-----------------------------------------------------------------------------
(* The bus: its inductive invariant *)

FrameState == [call : Calls, pc : {"begin", "lock", "append", "read", "call"},
               todo : Seq(Handler), called : SUBSET Handler,
               must : SUBSET Handler]

BusTypeOK ==
    /\ handlers \in [EventType -> Seq(Handler)]
    /\ frames \in [Thread -> Seq(FrameState)]
    /\ subscribed \subseteq Handler \X EventType

\* h is a member of the list.
Listed(list, h) == \E i \in 1..Len(list) : list[i] = h

\* What a Publish must call is registered until it reads the handlers, and called
\* or still to be called after that.
FrameInv(hs, f) ==
    f.call.op = "Publish" =>
      /\ f.pc = "read" => \A h \in f.must : Listed(hs[f.call.type], h)
      /\ f.pc = "call" => \A h \in f.must : h \in f.called \/ Listed(f.todo, h)

FramesInv(hs, fs) ==
    \A t \in Thread : \A i \in 1..Len(fs[t]) : FrameInv(hs, fs[t][i])

\* A handler whose Subscribe has returned is registered.
Kept(hs, subs) == \A h \in Handler, e \in EventType :
                    <<h, e>> \in subs => Listed(hs[e], h)

BusInv ==
    /\ BusTypeOK
    /\ Kept(handlers, subscribed)
    /\ FramesInv(handlers, frames)

-----------------------------------------------------------------------------
(* The bus: lemmas *)

\* A call begins with nothing to call and nothing it must.
LEMMA FrameType ==
    ASSUME NEW call \in Calls
    PROVE  Frame(call) \in FrameState /\ \A hs : FrameInv(hs, Frame(call))
<1>1. <<>> \in Seq(Handler)
  OBVIOUS
<1> QED
  BY <1>1 DEF Frame, FrameState, FrameInv

\* The frame a goroutine works in.
LEMMA CurrentFrame ==
    ASSUME BusInv, NEW t \in Thread, frames[t] # <<>>
    PROVE  /\ Current(t) \in FrameState
           /\ FrameInv(handlers, Current(t))
           /\ Len(frames[t]) \in Nat \ {0}
<1>1. frames[t] \in Seq(FrameState)
  BY DEF BusInv, BusTypeOK
<1>2. Len(frames[t]) \in 1..Len(frames[t])
  BY <1>1
<1> QED
  BY <1>1, <1>2 DEF Current, BusInv, FramesInv

\* A call of a Publish is for one type.
LEMMA CallType ==
    ASSUME NEW f \in FrameState
    PROVE  /\ f.call.op = "Publish" => f.call.type \in EventType
           /\ f.call.op = "Subscribe" => f.call.h \in Handler
                                         /\ f.call.types \in SUBSET EventType
BY DEF FrameState, Calls

\* A change of the innermost frame.
LEMMA ChangeFrames ==
    ASSUME BusInv, NEW t \in Thread, frames[t] # <<>>,
           NEW f \in FrameState, FrameInv(handlers, f), Change(t, f)
    PROVE  /\ frames' \in [Thread -> Seq(FrameState)]
           /\ FramesInv(handlers, frames')
<1>1. frames[t] \in Seq(FrameState) /\ Len(frames[t]) \in Nat \ {0}
  BY CurrentFrame DEF BusInv, BusTypeOK
<1> DEFINE changed == [frames[t] EXCEPT ![Len(frames[t])] = f]
<1>2. /\ changed \in Seq(FrameState)
      /\ Len(changed) = Len(frames[t])
      /\ \A i \in 1..Len(frames[t]) :
           changed[i] = IF i = Len(frames[t]) THEN f ELSE frames[t][i]
  BY <1>1
<1>3. frames' = [frames EXCEPT ![t] = changed]
  BY DEF Change
<1> HIDE DEF changed
<1> QED
  BY <1>2, <1>3 DEF BusInv, BusTypeOK, FramesInv

\* A return to the frame below.
LEMMA PopFrames ==
    ASSUME BusInv, NEW t \in Thread, frames[t] # <<>>, Pop(t)
    PROVE  /\ frames' \in [Thread -> Seq(FrameState)]
           /\ FramesInv(handlers, frames')
<1>1. frames[t] \in Seq(FrameState) /\ Len(frames[t]) \in Nat \ {0}
  BY CurrentFrame DEF BusInv, BusTypeOK
<1> DEFINE rest == SubSeq(frames[t], 1, Len(frames[t]) - 1)
<1>2. /\ rest \in Seq(FrameState)
      /\ Len(rest) = Len(frames[t]) - 1
      /\ \A i \in 1..Len(rest) : rest[i] = frames[t][i]
  BY <1>1, SubSeqProperties
<1>3. frames' = [frames EXCEPT ![t] = rest]
  BY DEF Pop
<1> HIDE DEF rest
<1>4. frames' \in [Thread -> Seq(FrameState)]
  BY <1>2, <1>3 DEF BusInv, BusTypeOK
<1>5. ASSUME NEW u \in Thread, NEW i \in 1..Len(frames'[u])
      PROVE  FrameInv(handlers, frames'[u][i])
  <2>1. CASE u = t
    <3>1. frames'[t] = rest
      BY <1>3 DEF BusInv, BusTypeOK
    <3>2. i \in 1..Len(frames[t]) /\ frames'[u][i] = frames[t][i]
      BY <1>1, <1>2, <2>1, <3>1
    <3> QED
      BY <3>2 DEF BusInv, FramesInv
  <2>2. CASE u # t
    BY <1>3, <2>2 DEF BusInv, BusTypeOK, FramesInv
  <2> QED
    BY <2>1, <2>2
<1> QED
  BY <1>4, <1>5 DEF FramesInv

\* Nobody is taken off the lists.
LEMMA Growing ==
    ASSUME BusInv, NEW t \in Thread, SubscribeAppend(t)
    PROVE  /\ handlers' \in [EventType -> Seq(Handler)]
           /\ \A e \in EventType : \A h : Listed(handlers[e], h) => Listed(handlers'[e], h)
           /\ Current(t).call.h \in Handler
           /\ \A e \in Current(t).call.types :
                e \in EventType /\ Listed(handlers'[e], Current(t).call.h)
<1>1. frames[t] # <<>> /\ Current(t).call.op = "Subscribe"
  BY DEF SubscribeAppend, At, Current
<1> DEFINE c == Current(t).call
<1>2. c.h \in Handler /\ c.types \in SUBSET EventType
  BY <1>1, CurrentFrame, CallType
<1>3. handlers' = [e \in EventType |-> IF e \in c.types THEN Append(handlers[e], c.h)
                                       ELSE handlers[e]]
  BY DEF SubscribeAppend
<1> HIDE DEF c
<1>4. ASSUME NEW e \in EventType
      PROVE  /\ handlers'[e] \in Seq(Handler)
             /\ \A h : Listed(handlers[e], h) => Listed(handlers'[e], h)
             /\ e \in c.types => Listed(handlers'[e], c.h)
  <2>1. handlers[e] \in Seq(Handler)
    BY DEF BusInv, BusTypeOK
  <2>2. CASE e \in c.types
    <3>1. handlers'[e] = Append(handlers[e], c.h)
      BY <1>3, <2>2
    <3> QED
      BY <1>2, <2>1, <3>1 DEF Listed
  <2>3. CASE e \notin c.types
    BY <1>3, <2>1, <2>3
  <2> QED
    BY <2>2, <2>3
<1> QED
  BY <1>2, <1>3, <1>4 DEF c

\* The frames of the calls of a handler are put on top.
LEMMA CallFrames ==
    ASSUME BusInv, NEW t \in Thread, PublishCall(t)
    PROVE  /\ frames' \in [Thread -> Seq(FrameState)]
           /\ FramesInv(handlers, frames')
<1> DEFINE top == Current(t)
           h == Head(top.todo)
           calls == Reaction[h]
           below == SubSeq(frames[t], 1, Len(frames[t]) - 1)
           same == [top EXCEPT !.todo = Tail(@), !.called = @ \cup {h}]
           new == [i \in 1..Len(calls) |-> Frame(calls[Len(calls) + 1 - i])]
<1>1. /\ frames[t] # <<>> /\ top.call.op = "Publish" /\ top.pc = "call"
      /\ top.todo # <<>>
  BY DEF PublishCall, At, Current
<1>2. top \in FrameState /\ FrameInv(handlers, top) /\ Len(frames[t]) \in Nat \ {0}
  BY <1>1, CurrentFrame
<1>3. h \in Handler /\ Tail(top.todo) \in Seq(Handler)
  BY <1>1, <1>2 DEF FrameState
<1>4. same \in FrameState
  BY <1>2, <1>3 DEF FrameState
<1>5. FrameInv(handlers, same)
  <2>1. \A g \in top.must : g \in top.called \/ Listed(top.todo, g)
    BY <1>1, <1>2 DEF FrameInv
  <2>2. ASSUME NEW g, Listed(top.todo, g), g # h
        PROVE  Listed(Tail(top.todo), g)
    <3>1. top.todo \in Seq(Handler)
      BY <1>2 DEF FrameState
    <3>2. PICK i \in 1..Len(top.todo) : top.todo[i] = g
      BY <2>2 DEF Listed
    <3>3. i - 1 \in 1..Len(Tail(top.todo)) /\ Tail(top.todo)[i - 1] = g
      BY <1>1, <2>2, <3>1, <3>2
    <3> QED
      BY <3>3 DEF Listed
  <2>3. /\ same.must = top.must /\ same.called = top.called \cup {h}
        /\ same.todo = Tail(top.todo) /\ same.pc = "call"
    BY <1>1, <1>2 DEF FrameState
  <2> QED
    BY <2>1, <2>2, <2>3 DEF FrameInv
<1>6. /\ new \in Seq(FrameState)
      /\ \A i \in 1..Len(new) : FrameInv(handlers, new[i])
  <2>1. calls \in Seq(Calls)
    BY <1>3, ReactionAssumption
  <2>2. \A i \in 1..Len(calls) : calls[Len(calls) + 1 - i] \in Calls
    BY <2>1
  <2> QED
    BY <2>1, <2>2, FrameType
<1>7. /\ below \in Seq(FrameState)
      /\ Len(below) = Len(frames[t]) - 1
      /\ \A i \in 1..Len(below) : FrameInv(handlers, below[i])
  <2>1. frames[t] \in Seq(FrameState)
    BY DEF BusInv, BusTypeOK
  <2>2. \A i \in 1..Len(frames[t]) : FrameInv(handlers, frames[t][i])
    BY DEF BusInv, FramesInv
  <2> QED
    BY <1>2, <2>1, <2>2, SubSeqProperties
<1>8. frames' = [frames EXCEPT ![t] = Append(below, same) \o new]
  BY DEF PublishCall
<1> HIDE DEF top, h, calls, below, same, new
<1> DEFINE stack == Append(below, same) \o new
<1>9. /\ stack \in Seq(FrameState)
      /\ \A i \in 1..Len(stack) : FrameInv(handlers, stack[i])
  <2>1. Append(below, same) \in Seq(FrameState)
    BY <1>4, <1>7
  <2>2. \A i \in 1..Len(Append(below, same)) :
          FrameInv(handlers, Append(below, same)[i])
    BY <1>4, <1>5, <1>7
  <2> QED
    BY <1>6, <2>1, <2>2
<1> HIDE DEF stack
<1>10. frames' = [frames EXCEPT ![t] = stack]
  BY <1>8 DEF stack
<1>11. frames' \in [Thread -> Seq(FrameState)]
  BY <1>9, <1>10 DEF BusInv, BusTypeOK
<1>12. ASSUME NEW u \in Thread, NEW i \in 1..Len(frames'[u])
       PROVE  FrameInv(handlers, frames'[u][i])
  <2>1. CASE u = t
    BY <1>9, <1>10, <2>1 DEF BusInv, BusTypeOK
  <2>2. CASE u # t
    BY <1>10, <2>2 DEF BusInv, BusTypeOK, FramesInv
  <2> QED
    BY <2>1, <2>2
<1> QED
  BY <1>11, <1>12 DEF FramesInv

-----------------------------------------------------------------------------
(* The bus: the invariant is inductive *)

\* Nobody is subscribed, and all calls are at their beginning.
LEMMA BusInvInit == BusInit => BusInv
<1> SUFFICES ASSUME BusInit
             PROVE  BusInv
  OBVIOUS
<1>1. \A t \in Thread : Frame(Task[t]) \in FrameState
                        /\ FrameInv(handlers, Frame(Task[t]))
  BY FrameType, TaskAssumption
<1>2. BusTypeOK
  BY <1>1 DEF BusInit, BusTypeOK
<1>3. Kept(handlers, subscribed)
  BY DEF BusInit, Kept
<1>4. FramesInv(handlers, frames)
  BY <1>1 DEF BusInit, FramesInv
<1> QED
  BY <1>2, <1>3, <1>4 DEF BusInv

\* Every step of a goroutine keeps the invariant.
LEMMA BusInvStep == BusInv /\ [BusNext]_busvars => BusInv'
<1> SUFFICES ASSUME BusInv, [BusNext]_busvars
             PROVE  BusInv'
  OBVIOUS
<1>1. ASSUME NEW t \in Thread, SubscribeLock(t)
      PROVE  BusInv'
  <2>1. frames[t] # <<>> /\ Current(t).call.op = "Subscribe"
    BY <1>1 DEF SubscribeLock, At, Current
  <2> DEFINE g == [Current(t) EXCEPT !.pc = "lock"]
  <2>2. g \in FrameState /\ FrameInv(handlers, g)
    BY <2>1, CurrentFrame DEF FrameState, FrameInv
  <2>3. Change(t, g) /\ UNCHANGED <<handlers, subscribed>>
    BY <1>1 DEF SubscribeLock
  <2> HIDE DEF g
  <2> QED
    BY <2>1, <2>2, <2>3, ChangeFrames DEF BusInv, BusTypeOK
<1>2. ASSUME NEW t \in Thread, SubscribeLocked(t)
      PROVE  BusInv'
  <2>1. frames[t] # <<>> /\ Current(t).call.op = "Subscribe"
    BY <1>2 DEF SubscribeLocked, At, Current
  <2> DEFINE g == [Current(t) EXCEPT !.pc = "append"]
  <2>2. g \in FrameState /\ FrameInv(handlers, g)
    BY <2>1, CurrentFrame DEF FrameState, FrameInv
  <2>3. Change(t, g) /\ UNCHANGED <<handlers, subscribed>>
    BY <1>2 DEF SubscribeLocked
  <2> HIDE DEF g
  <2> QED
    BY <2>1, <2>2, <2>3, ChangeFrames DEF BusInv, BusTypeOK
<1>3. ASSUME NEW t \in Thread, SubscribeAppend(t)
      PROVE  BusInv'
  <2>1. frames[t] # <<>>
    BY <1>3 DEF SubscribeAppend, At
  <2>2. /\ frames' \in [Thread -> Seq(FrameState)]
        /\ FramesInv(handlers, frames')
    BY <1>3, <2>1, PopFrames DEF SubscribeAppend
  <2> DEFINE c == Current(t).call
  <2>3. subscribed' = subscribed \cup ({c.h} \X c.types)
    BY <1>3 DEF SubscribeAppend
  <2>4. /\ handlers' \in [EventType -> Seq(Handler)]
        /\ \A e \in EventType : \A h : Listed(handlers[e], h) => Listed(handlers'[e], h)
        /\ c.h \in Handler
        /\ \A e \in c.types : e \in EventType /\ Listed(handlers'[e], c.h)
    BY <1>3, Growing
  <2> HIDE DEF c
  <2>5. Kept(handlers', subscribed')
    BY <2>3, <2>4 DEF BusInv, Kept
  <2>6. ASSUME NEW f \in FrameState, FrameInv(handlers, f)
        PROVE  FrameInv(handlers', f)
    BY <2>4, <2>6, CallType DEF FrameInv, FrameState
  <2>7. FramesInv(handlers', frames')
    <3> SUFFICES ASSUME NEW u \in Thread, NEW i \in 1..Len(frames'[u])
                 PROVE  FrameInv(handlers', frames'[u][i])
      BY DEF FramesInv
    <3>1. frames'[u][i] \in FrameState /\ FrameInv(handlers, frames'[u][i])
      BY <2>2 DEF FramesInv
    <3> QED
      BY <2>6, <3>1
  <2>8. subscribed' \subseteq Handler \X EventType
    BY <2>3, <2>4 DEF BusInv, BusTypeOK
  <2> QED
    BY <2>2, <2>4, <2>5, <2>7, <2>8 DEF BusInv, BusTypeOK
<1>4. ASSUME NEW t \in Thread, PublishRLock(t)
      PROVE  BusInv'
  <2>1. frames[t] # <<>> /\ Current(t).call.op = "Publish"
    BY <1>4 DEF PublishRLock, At, Current
  <2> DEFINE e == Current(t).call.type
             m == {h \in Handler : <<h, e>> \in subscribed}
             g == [Current(t) EXCEPT !.pc = "read", !.must = m]
  <2>2. Current(t) \in FrameState /\ e \in EventType
    BY <2>1, CurrentFrame, CallType
  <2>3. \A h \in m : Listed(handlers[e], h)
    BY <2>2 DEF BusInv, Kept
  <2>4. g \in FrameState /\ FrameInv(handlers, g)
    BY <2>1, <2>2, <2>3 DEF FrameState, FrameInv
  <2>5. Change(t, g) /\ UNCHANGED <<handlers, subscribed>>
    BY <1>4 DEF PublishRLock
  <2> HIDE DEF g
  <2> QED
    BY <2>1, <2>4, <2>5, ChangeFrames DEF BusInv, BusTypeOK
<1>5. ASSUME NEW t \in Thread, PublishRead(t)
      PROVE  BusInv'
  <2>1. /\ frames[t] # <<>> /\ Current(t).call.op = "Publish"
        /\ Current(t).pc = "read"
    BY <1>5 DEF PublishRead, At, Current
  <2> DEFINE e == Current(t).call.type
             g == [Current(t) EXCEPT !.pc = "call", !.todo = handlers[e]]
  <2>2. /\ Current(t) \in FrameState /\ FrameInv(handlers, Current(t))
        /\ handlers[e] \in Seq(Handler)
    BY <2>1, CurrentFrame, CallType DEF BusInv, BusTypeOK
  <2>3. \A h \in Current(t).must : Listed(handlers[e], h)
    BY <2>1, <2>2 DEF FrameInv
  <2>4. g \in FrameState /\ FrameInv(handlers, g)
    BY <2>1, <2>2, <2>3 DEF FrameState, FrameInv
  <2>5. Change(t, g) /\ UNCHANGED <<handlers, subscribed>>
    BY <1>5 DEF PublishRead
  <2> HIDE DEF g
  <2> QED
    BY <2>1, <2>4, <2>5, ChangeFrames DEF BusInv, BusTypeOK
<1>6. ASSUME NEW t \in Thread, PublishCall(t)
      PROVE  BusInv'
  <2>1. UNCHANGED <<handlers, subscribed>>
    BY <1>6 DEF PublishCall
  <2> QED
    BY <1>6, <2>1, CallFrames DEF BusInv, BusTypeOK
<1>7. ASSUME NEW t \in Thread, PublishReturn(t)
      PROVE  BusInv'
  <2>1. frames[t] # <<>> /\ Pop(t) /\ UNCHANGED <<handlers, subscribed>>
    BY <1>7 DEF PublishReturn, At
  <2> QED
    BY <2>1, PopFrames DEF BusInv, BusTypeOK
<1>8. CASE UNCHANGED busvars
  BY <1>8 DEF busvars, BusInv, BusTypeOK
<1> QED
  BY <1>1, <1>2, <1>3, <1>4, <1>5, <1>6, <1>7, <1>8 DEF BusNext, BusStep

-----------------------------------------------------------------------------
(* The bus: theorems *)

\* Every reachable state of the bus satisfies the invariant: registered handlers
\* stay registered, and a Publish keeps account of whom it must call
\* (bus.go:38-58).
THEOREM BusTypeCorrect == BusSpec => []BusInv
<1>1. BusInit => BusInv
  BY BusInvInit
<1>2. BusInv /\ [BusNext]_busvars => BusInv'
  BY BusInvStep
<1> QED
  BY <1>1, <1>2, PTL DEF BusSpec

\* For any goroutines, handlers and event types, whatever handlers call in turn:
\* a Publish that is done has called everybody it must (bus.go:40-46, 50-57).
THEOREM BusNoEventMissed == BusSpec => []NoEventMissed
<1>1. BusInv => NoEventMissed
  <2> SUFFICES ASSUME BusInv, NEW t \in Thread, At(t, "Publish", "call"),
                      Current(t).todo = <<>>
               PROVE  Current(t).must \subseteq Current(t).called
    BY DEF NoEventMissed
  <2>1. /\ frames[t] # <<>> /\ Current(t).call.op = "Publish"
        /\ Current(t).pc = "call"
    BY DEF At, Current
  <2>2. FrameInv(handlers, Current(t))
    BY <2>1, CurrentFrame
  <2> QED
    BY <2>1, <2>2 DEF FrameInv, Listed
<1> QED
  BY <1>1, BusTypeCorrect, PTL
=============================================================================
