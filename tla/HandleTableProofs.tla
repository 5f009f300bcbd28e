------------------------- MODULE HandleTableProofs -------------------------
(***************************************************************************)
(* Theorems about HandleTable, for every number of handles, every object   *)
(* and every size of the memory of invalidated ids.                        *)
(***************************************************************************)
EXTENDS HandleTable, NumberLemmas, SequenceTheorems

\* The recorded lineage of a live handle is its parent and its parent's lineage.
LineageFollowsParent ==
    \A x \in Live :
        lineage[x] = IF x \in DOMAIN parent
                     THEN lineage[parent[x]] \cup {parent[x]} ELSE {}

\* Ancestors of an ancestor are ancestors, and are older.
LineageTransitive ==
    \A x \in Issued : \A g \in lineage[x] : lineage[g] \subseteq lineage[x]

\* The inductive invariant: what a cascade needs to know about the forest.
TreeInv ==
    /\ TypeOK
    /\ ForestConsistent
    /\ LineageFollowsParent
    /\ LineageTransitive
    /\ LineageLive

-----------------------------------------------------------------------------
(* Lemmas.                                                                 *)

\* What TypeOK says of the ids, without the rest of it.
LEMMA IdTypes ==
    ASSUME TypeOK
    PROVE  /\ Live \subseteq Issued
           /\ Issued \subseteq Nat \ {0}
           /\ DOMAIN parent \subseteq Live
           /\ \A x \in DOMAIN parent : parent[x] \in Live
           /\ \A x \in Issued : lineage[x] \subseteq Issued
<1>1. Issued \subseteq Nat \ {0}
    BY DEF Issued, TypeOK
<1> QED
    BY <1>1 DEF TypeOK

\* parent and children describe the same edges.
LEMMA ChildEdges ==
    ASSUME TypeOK, ForestConsistent
    PROVE  \A p : ChildrenOf(p) = {x \in DOMAIN parent : parent[x] = p}
BY DEF TypeOK, ForestConsistent, ChildrenOf, ParentOf, Issued, Live, None

\* The worklist of pop_cascade finds exactly the handles derived, at any depth,
\* from the one destroyed.
LEMMA DoomedIsDescendants ==
    ASSUME TreeInv, NEW h \in Live
    PROVE  Doomed(h) = {x \in Live : h \in lineage[x]}
<1> DEFINE D == {x \in Live : h \in lineage[x]}
<1>0. /\ DOMAIN parent \subseteq Live
      /\ \A p : ChildrenOf(p) = {x \in DOMAIN parent : parent[x] = p}
      /\ \A x \in DOMAIN parent :
            lineage[x] = lineage[parent[x]] \cup {parent[x]}
    BY ChildEdges DEF TreeInv, TypeOK, LineageFollowsParent
<1>1. Doomed(h) \subseteq D
    <2>1. ChildrenOf(h) \subseteq D
        BY <1>0
    <2>2. \A x \in D : ChildrenOf(x) \subseteq D
        BY <1>0
    <2>3. D \in SUBSET Live
        OBVIOUS
    <2> QED
        BY <2>1, <2>2, <2>3 DEF Doomed
<1>2. D \subseteq Doomed(h)
    <2> SUFFICES ASSUME NEW S \in SUBSET Live,
                        ChildrenOf(h) \subseteq S,
                        \A x \in S : ChildrenOf(x) \subseteq S
                 PROVE  D \subseteq S
        BY DEF Doomed
    <2> SUFFICES ASSUME D \ S # {}
                 PROVE  FALSE
        OBVIOUS
    <2>1. D \ S \in SUBSET Nat
        BY DEF TreeInv, TypeOK, Issued, Live
    <2>2. PICK x \in D \ S : \A y \in D \ S : ~ (y < x)
        BY <2>1, LeastElement
    <2>3. x \in DOMAIN parent /\ h \in lineage[parent[x]] \cup {parent[x]}
        BY <2>2 DEF TreeInv, LineageFollowsParent
    <2>4. parent[x] \in Live /\ parent[x] < x /\ x \in ChildrenOf(parent[x])
        BY <2>3 DEF TreeInv, TypeOK, ForestConsistent
    <2>5. CASE parent[x] = h
        BY <2>2, <2>4, <2>5
    <2>6. CASE h \in lineage[parent[x]]
        BY <2>2, <2>4, <2>6
    <2> QED
        BY <2>3, <2>5, <2>6
<1> QED
    BY <1>1, <1>2

\* The worklist is a sequence of live handles, and visits only doomed ones.
LEMMA WorklistType ==
    ASSUME TypeOK, NEW h, NEW doomed \in WorklistOrders(h)
    PROVE  doomed \in Seq(Issued) /\ Range(doomed) \subseteq Doomed(h)
<1>1. Doomed(h) \subseteq Issued
    BY IdTypes DEF Doomed
<1>2. IsFiniteSet(Doomed(h))
    <2>1. IsFiniteSet(1 .. (nextId - 1))
        <3>1. 1 \in Int /\ nextId - 1 \in Int
            BY DEF TypeOK
        <3> QED
            BY <3>1, FS_Interval
    <2> QED
        BY <1>1, <2>1, FS_Subset DEF Issued
<1>3. Cardinality(Doomed(h)) \in Nat
    BY <1>2, FS_CardinalityType
<1>4. doomed \in [1 .. Cardinality(Doomed(h)) -> Doomed(h)]
    BY DEF WorklistOrders, SetToSeqs
<1> QED
    BY <1>1, <1>3, <1>4 DEF Range

\* Remembering invalidated handles keeps the memory well-typed.
LEMMA RememberType ==
    ASSUME TypeOK, NEW owner \in Issued,
           NEW doomed \in Seq(Issued), Remember(doomed, owner)
    PROVE  /\ invalidatedOrder' \in Seq(Issued)
           /\ DOMAIN invalidated' \subseteq Issued
           /\ invalidated' \in [DOMAIN invalidated' -> Issued]
<1> DEFINE all == invalidatedOrder \o doomed
           excess == IF Len(all) > InvalidatedMemory
                     THEN Len(all) - InvalidatedMemory ELSE 0
<1>1. all \in Seq(Issued) /\ Len(all) \in Nat
    BY DEF TypeOK
<1>2. excess \in 0 .. Len(all)
    BY <1>1, InvalidatedMemoryAssumption
<1>3. invalidatedOrder' = SubSeq(all, excess + 1, Len(all))
    BY DEF Remember
<1>4. invalidatedOrder' \in Seq(Issued)
    <2> HIDE DEF all, excess
    <2> QED
        BY <1>1, <1>2, <1>3
<1>5. Range(doomed) \subseteq Issued
    BY DEF Range
<1>6. /\ DOMAIN invalidated' \subseteq DOMAIN invalidated \cup Range(doomed)
      /\ \A x \in DOMAIN invalidated' :
            invalidated'[x] = IF x \in Range(doomed) THEN owner ELSE invalidated[x]
      /\ invalidated' = [x \in DOMAIN invalidated' |-> invalidated'[x]]
    BY DEF Remember, Without
<1> QED
    BY <1>4, <1>5, <1>6 DEF TypeOK

-----------------------------------------------------------------------------
(* The invariant is inductive.                                             *)

\* The table starts as an empty forest.
LEMMA InitTree == Init => TreeInv
BY MaxHandlesAssumption, InvalidatedMemoryAssumption
   DEF Init, TreeInv, TypeOK, ForestConsistent, LineageFollowsParent,
       LineageTransitive, LineageLive, Live, Issued, ChildrenOf, ParentOf, None

\* put adds one handle, a root or a child of a live parent, to the forest.
LEMMA PutKeepsTree ==
    ASSUME TreeInv, NEW obj \in Objects, NEW own \in BOOLEAN,
           NEW par \in Issued \cup {None}, Put(obj, own, par)
    PROVE  TreeInv'
<1>1. /\ nextId \in Nat \ {0} /\ nextId' = nextId + 1
      /\ Issued' = Issued \cup {nextId} /\ nextId \notin Issued
      /\ Live' = Live \cup {nextId} /\ nextId \notin Live
      /\ Live \subseteq Issued
    BY MaxHandlesAssumption DEF TreeInv, TypeOK, Put, Issued, Live, Assign
<1>2. TypeOK'
    <2>1. nextId' \in 1 .. (MaxHandles + 1)
        BY MaxHandlesAssumption DEF TreeInv, TypeOK, Put
    <2>2. /\ items' \in [Live' -> Objects]
          /\ owned' \in [Live' -> BOOLEAN]
        BY <1>1 DEF TreeInv, TypeOK, Put, Assign, Live
    <2>3. CASE par \in Live
        <3>1. /\ DOMAIN parent' \subseteq Live'
              /\ parent' \in [DOMAIN parent' -> Live']
            BY <1>1, <2>3 DEF TreeInv, TypeOK, Put, Adopt, Assign
        <3>2. ChildrenOf(par) \subseteq Live
            BY <2>3 DEF TreeInv, TypeOK, ChildrenOf
        <3>3. /\ DOMAIN children' \subseteq Live'
              /\ children' \in [DOMAIN children' -> SUBSET Live']
            BY <1>1, <2>3, <3>2 DEF TreeInv, TypeOK, Put, Adopt, Assign
        <3>4. lineage' \in [Issued' -> SUBSET Issued']
            BY <1>1, <2>3 DEF TreeInv, TypeOK, Put, Adopt, Assign
        <3> QED
            BY <1>1, <2>1, <2>2, <3>1, <3>3, <3>4
               DEF TreeInv, TypeOK, Put, Live
    <2>4. CASE par \notin Live
        <3>1. lineage' \in [Issued' -> SUBSET Issued']
            BY <1>1, <2>4 DEF TreeInv, TypeOK, Put, Adopt, Assign
        <3> QED
            BY <1>1, <2>1, <2>2, <2>4, <3>1
               DEF TreeInv, TypeOK, Put, Adopt, Live
    <2> QED
        BY <2>3, <2>4
<1>3. /\ \A x \in Live : lineage'[x] = lineage[x]
      /\ \A x \in Issued : lineage'[x] = lineage[x]
      /\ lineage'[nextId] = IF par \in Live THEN lineage[par] \cup {par} ELSE {}
    BY <1>1 DEF TreeInv, TypeOK, Put, Adopt, Assign
<1>4. ForestConsistent'
    <2>0. \A p : ChildrenOf(p) = {x \in DOMAIN parent : parent[x] = p}
        BY ChildEdges DEF TreeInv
    <2>1. CASE par \in Live
        <3>1. \A p : ChildrenOf(p)' = IF p = par THEN ChildrenOf(p) \cup {nextId}
                                                 ELSE ChildrenOf(p)
            <4>1. /\ DOMAIN children' = DOMAIN children \cup {par}
                  /\ children'[par] = ChildrenOf(par) \cup {nextId}
                  /\ \A p \in DOMAIN children \ {par} : children'[p] = children[p]
                BY <2>1 DEF Put, Adopt, Assign
            <4> QED
                BY <4>1 DEF ChildrenOf
        <3>2. /\ DOMAIN parent' = DOMAIN parent \cup {nextId}
              /\ parent'[nextId] = par
              /\ \A x \in DOMAIN parent : parent'[x] = parent[x]
            BY <1>1, <2>1 DEF TreeInv, TypeOK, Put, Adopt, Assign
        <3>3. par < nextId
            BY <1>1, <2>1 DEF TreeInv, TypeOK, Issued
        <3>4. \A p \in DOMAIN children' : children'[p] = ChildrenOf(p)'
            BY DEF ChildrenOf
        <3> QED
            BY <1>1, <2>0, <3>1, <3>2, <3>3, <3>4
               DEF TreeInv, ForestConsistent, ParentOf
    <2>2. CASE par \notin Live
        BY <2>2 DEF TreeInv, ForestConsistent, Put, Adopt, ChildrenOf, ParentOf
    <2> QED
        BY <2>1, <2>2
<1>5. LineageFollowsParent'
    <2>1. nextId \notin DOMAIN parent
        BY <1>1 DEF TreeInv, TypeOK
    <2>2. CASE par \in Live
        <3>1. /\ DOMAIN parent' = DOMAIN parent \cup {nextId}
              /\ parent'[nextId] = par
              /\ \A x \in DOMAIN parent : parent'[x] = parent[x]
            BY <2>1, <2>2 DEF Put, Adopt, Assign
        <3>2. \A x \in Live : /\ x \in DOMAIN parent' <=> x \in DOMAIN parent
                              /\ x \in DOMAIN parent => /\ parent'[x] = parent[x]
                                                       /\ parent[x] \in Live
            BY <1>1, <3>1, IdTypes DEF TreeInv
        <3>3. \A x \in Live :
                lineage'[x] = IF x \in DOMAIN parent'
                              THEN lineage'[parent'[x]] \cup {parent'[x]} ELSE {}
            BY <1>3, <3>2 DEF TreeInv, LineageFollowsParent
        <3>4. lineage'[nextId] = lineage'[parent'[nextId]] \cup {parent'[nextId]}
            BY <1>3, <2>2, <3>1
        <3> QED
            BY <1>1, <3>1, <3>3, <3>4 DEF LineageFollowsParent
    <2>3. CASE par \notin Live
        <3>1. parent' = parent
            BY <2>3 DEF Put, Adopt
        <3> QED
            BY <1>1, <1>3, <2>1, <2>3, <3>1 DEF TreeInv, TypeOK, LineageFollowsParent
    <2> QED
        BY <2>2, <2>3
<1>6. LineageTransitive'
    BY <1>1, <1>3 DEF TreeInv, TypeOK, LineageTransitive
<1>7. LineageLive'
    BY <1>1, <1>3 DEF TreeInv, TypeOK, LineageLive
<1> QED
    BY <1>2, <1>4, <1>5, <1>6, <1>7 DEF TreeInv

\* pop_cascade takes a whole subtree out of the forest, rooted at an owned handle.
LEMMA PopKeepsTree ==
    ASSUME TreeInv, NEW h \in Handles, PopCascade(h)
    PROVE  /\ TreeInv'
           /\ owned[h]
           /\ h \in Live
           /\ Live \ Live' = {h} \cup {x \in Live : h \in lineage[x]}
<1> DEFINE gone == Doomed(h) \cup {h}
<1>1. h \in Live /\ owned[h]
    BY DEF PopCascade, PopVerdict, GetVerdict
<1>2. gone = {h} \cup {x \in Live : h \in lineage[x]}
    BY <1>1, DoomedIsDescendants
<1>3. Live' = Live \ gone /\ Issued' = Issued /\ lineage' = lineage
    BY DEF PopCascade, Discard, Without, Live, Issued
<1>4. \A x \in Live \ gone :
        /\ lineage[x] \cap gone = {}
        /\ x \in DOMAIN parent => parent[x] \notin gone
    <2>1. \A x \in Live \ gone : lineage[x] \cap gone = {}
        BY <1>2 DEF TreeInv, TypeOK, LineageTransitive
    <2> QED
        BY <2>1 DEF TreeInv, LineageFollowsParent
<1>5. /\ DOMAIN parent' = DOMAIN parent \ gone
      /\ \A x \in DOMAIN parent' : parent'[x] = parent[x]
    BY DEF PopCascade, Discard, Without
<1>6. /\ DOMAIN children' = DOMAIN children \ gone
      /\ \A p \in DOMAIN children' : children'[p] = children[p] \ gone
    BY DEF PopCascade, Discard, TreeInv, ForestConsistent
<1> HIDE DEF gone
<1>7. TypeOK'
    <2>1. PICK doomed \in WorklistOrders(h) : Remember(doomed, h)
        BY DEF PopCascade
    <2>2. /\ invalidatedOrder' \in Seq(Issued)
          /\ DOMAIN invalidated' \subseteq Issued
          /\ invalidated' \in [DOMAIN invalidated' -> Issued]
        BY <1>1, <2>1, WorklistType, RememberType DEF TreeInv, TypeOK, Live
    <2>3. /\ items' \in [Live' -> Objects]
          /\ owned' \in [Live' -> BOOLEAN]
          /\ Live' \subseteq Issued
        BY <1>3 DEF TreeInv, TypeOK, PopCascade, Discard, Without, Live, gone
    <2>4. /\ DOMAIN parent' \subseteq Live'
          /\ parent' \in [DOMAIN parent' -> Live']
        <3>1. \A x \in DOMAIN parent' : parent'[x] \in Live'
            BY <1>3, <1>4, <1>5, IdTypes DEF TreeInv
        <3>2. parent' = [x \in DOMAIN parent' |-> parent'[x]]
            BY DEF PopCascade, Discard, Without
        <3> QED
            BY <1>3, <1>5, <3>1, <3>2 DEF TreeInv, TypeOK
    <2>5. /\ DOMAIN children' \subseteq Live'
          /\ children' \in [DOMAIN children' -> SUBSET Live']
        <3>1. children' = [x \in DOMAIN children' |-> children'[x]]
            BY DEF PopCascade, Discard
        <3> QED
            BY <1>3, <1>6, <3>1 DEF TreeInv, TypeOK
    <2>6. freed' \subseteq Issued
        BY <1>1 DEF TreeInv, TypeOK, PopCascade
    <2>7. nextId' = nextId
        BY DEF PopCascade
    <2> QED
        BY <1>3, <2>2, <2>3, <2>4, <2>5, <2>6, <2>7 DEF TreeInv, TypeOK, Live
<1>8. ForestConsistent'
    <2>1. \A p : ChildrenOf(p) = {x \in DOMAIN parent : parent[x] = p}
        BY ChildEdges DEF TreeInv
    <2>2. \A p \in Live \ gone : ChildrenOf(p)' = ChildrenOf(p) \ gone
        BY <1>6 DEF ChildrenOf
    <2>3. \A p \in DOMAIN children' : children'[p] = ChildrenOf(p)'
        BY DEF ChildrenOf
    <2>4. \A x \in DOMAIN parent' : parent'[x] \in Live \ gone /\ x \notin gone
        BY <1>4, <1>5, IdTypes DEF TreeInv
    <2>5. DOMAIN children' \subseteq Live \ gone
        BY <1>6 DEF TreeInv, TypeOK
    <2> QED
        BY <1>5, <2>1, <2>2, <2>3, <2>4, <2>5
           DEF TreeInv, ForestConsistent, ParentOf
<1>9. LineageFollowsParent'
    BY <1>3, <1>5 DEF TreeInv, LineageFollowsParent
<1>10. LineageTransitive'
    BY <1>3 DEF TreeInv, LineageTransitive
<1>11. LineageLive'
    BY <1>3, <1>4 DEF TreeInv, LineageLive
<1> QED
    BY <1>1, <1>2, <1>3, <1>7, <1>8, <1>9, <1>10, <1>11 DEF TreeInv, TypeOK, gone

\* No call on the table breaks the forest.
LEMMA NextKeepsTree == TreeInv /\ [Next]_vars => TreeInv'
<1> SUFFICES ASSUME TreeInv, [Next]_vars
             PROVE  TreeInv'
    OBVIOUS
<1>1. ASSUME NEW obj \in Objects, NEW own \in BOOLEAN,
             NEW par \in Issued \cup {None}, Put(obj, own, par)
      PROVE  TreeInv'
    BY <1>1, PutKeepsTree
<1>2. ASSUME NEW h \in Handles, PopCascade(h)
      PROVE  TreeInv'
    BY <1>2, PopKeepsTree
<1>3. CASE UNCHANGED vars
    BY <1>3 DEF TreeInv, TypeOK, ForestConsistent, LineageFollowsParent,
        LineageTransitive, LineageLive, Live, Issued, ChildrenOf, ParentOf,
        vars, tableVars, historyVars
<1> QED
    BY <1>1, <1>2, <1>3 DEF Next, RefusePop

-----------------------------------------------------------------------------
(* Theorems.                                                               *)

\* The forest of handles stays well-formed in every execution.
THEOREM TreeInvariant == Spec => []TreeInv
BY InitTree, NextKeepsTree, PTL DEF Spec

\* Every dictionary of the table keeps its type.
THEOREM TypeCorrect == Spec => []TypeOK
<1>1. TreeInv => TypeOK
    BY DEF TreeInv
<1> QED
    BY <1>1, TreeInvariant, PTL

\* handles.py:34: no handle is served after anything it was derived from has
\* been destroyed.
THEOREM NoHandleOutlivesItsOwner == Spec => []LineageLive
<1>1. TreeInv => LineageLive
    BY DEF TreeInv
<1> QED
    BY <1>1, TreeInvariant, PTL

\* pop_cascade removes exactly an owned handle and everything derived from it.
THEOREM CascadeIsExact == Spec => CascadeExact
<1> DEFINE A == \/ Live \subseteq Live'
                \/ \E h \in Live :
                      /\ owned[h]
                      /\ Live \ Live' = {h} \cup {x \in Live : h \in lineage[x]}
<1>1. TreeInv /\ [Next]_vars => [A]_vars
    <2> SUFFICES ASSUME TreeInv, Next
                 PROVE  A \/ UNCHANGED vars
        OBVIOUS
    <2>1. ASSUME NEW obj \in Objects, NEW own \in BOOLEAN,
                 NEW par \in Issued \cup {None}, Put(obj, own, par)
          PROVE  Live \subseteq Live'
        BY <2>1 DEF Put, Assign, Live
    <2>2. ASSUME NEW h \in Handles, PopCascade(h)
          PROVE  A
        BY <2>2, PopKeepsTree
    <2> QED
        BY <2>1, <2>2 DEF Next, RefusePop
<1> QED
    BY <1>1, TreeInvariant, PTL DEF Spec, CascadeExact

\* An id that has died is never served again.
THEOREM IdsAreNeverReused == Spec => DeadStayDead
<1>1. TreeInv /\ [Next]_vars
        => [\A h \in DOMAIN lineage : h \notin Live => h \notin Live']_vars
    <2> SUFFICES ASSUME TreeInv, Next, NEW h \in DOMAIN lineage, h \notin Live
                 PROVE  h \notin Live' \/ UNCHANGED vars
        OBVIOUS
    <2>1. ASSUME NEW obj \in Objects, NEW own \in BOOLEAN,
                 NEW par \in Issued \cup {None}, Put(obj, own, par)
          PROVE  h \notin Live'
        BY <2>1 DEF TreeInv, TypeOK, Put, Assign, Live, Issued
    <2>2. ASSUME NEW g \in Handles, PopCascade(g)
          PROVE  h \notin Live'
        BY <2>2 DEF PopCascade, Discard, Without, Live
    <2> QED
        BY <2>1, <2>2 DEF Next, RefusePop
<1> QED
    BY <1>1, TreeInvariant, PTL DEF Spec, DeadStayDead

\* Neither operation makes a stale error name the wrong owner.
LEMMA NextKeepsKiller ==
    TreeInv /\ StaleNamesKiller /\ [Next]_vars => StaleNamesKiller'
<1> SUFFICES ASSUME TreeInv, StaleNamesKiller, [Next]_vars
             PROVE  StaleNamesKiller'
    OBVIOUS
<1>1. ASSUME NEW obj \in Objects, NEW own \in BOOLEAN,
             NEW par \in Issued \cup {None}, Put(obj, own, par)
      PROVE  StaleNamesKiller'
    <2>1. /\ Live' = Live \cup {nextId} /\ nextId \notin Issued
          /\ invalidated' = invalidated /\ freed' = freed
        BY <1>1 DEF Put, Assign, Live, Issued, TreeInv, TypeOK
    <2>2. \A x \in Issued : lineage'[x] = lineage[x]
        BY <1>1, <2>1 DEF Put, Adopt, Assign, TreeInv, TypeOK
    <2> QED
        BY <2>1, <2>2 DEF StaleNamesKiller, TreeInv, TypeOK
<1>2. ASSUME NEW h \in Handles, PopCascade(h)
      PROVE  StaleNamesKiller'
    <2>1. PICK doomed \in WorklistOrders(h) : Remember(doomed, h)
        BY <1>2 DEF PopCascade
    <2>2. Live' = Live \ (Doomed(h) \cup {h}) /\ lineage' = lineage
          /\ freed' = freed \cup {h}
        BY <1>2 DEF PopCascade, Discard, Without, Live
    <2>3. Range(doomed) \subseteq Doomed(h)
        BY <2>1, WorklistType DEF TreeInv
    <2>4. /\ DOMAIN invalidated' \subseteq DOMAIN invalidated \cup Range(doomed)
          /\ \A x \in DOMAIN invalidated' :
                invalidated'[x] = IF x \in Range(doomed) THEN h
                                                        ELSE invalidated[x]
        BY <2>1 DEF Remember, Without
    <2>5. \A x \in Doomed(h) : h \in lineage[x]
        BY <1>2, PopKeepsTree, DoomedIsDescendants
    <2> QED
        BY <2>2, <2>3, <2>4, <2>5 DEF StaleNamesKiller
<1>3. CASE UNCHANGED vars
    BY <1>3 DEF StaleNamesKiller, Live, vars, tableVars, historyVars
<1> QED
    BY <1>1, <1>2, <1>3 DEF Next, RefusePop

\* A stale error names an owner the handle was derived from and that the client
\* destroyed.
THEOREM StaleErrorIsTruthful == Spec => []StaleNamesKiller
<1>1. Init => StaleNamesKiller
    BY DEF Init, StaleNamesKiller
<1> QED
    BY <1>1, NextKeepsKiller, TreeInvariant, PTL DEF Spec

\* parent and children stay each other's inverse, whatever is put or popped.
THEOREM ForestStaysConsistent == Spec => []ForestConsistent
<1>1. TreeInv => ForestConsistent
    BY DEF TreeInv
<1> QED
    BY <1>1, TreeInvariant, PTL

-----------------------------------------------------------------------------
(* The memory of invalidated ids.                                          *)

\* The worklist visits every doomed handle, and visits it once.
LEMMA WorklistIsComplete ==
    ASSUME TypeOK, NEW h, NEW doomed \in WorklistOrders(h)
    PROVE  IsInjective(doomed) /\ Range(doomed) = Doomed(h)
<1> DEFINE n == Cardinality(Doomed(h))
<1>1. IsFiniteSet(Doomed(h))
    <2>1. Doomed(h) \subseteq 1 .. (nextId - 1)
        BY IdTypes DEF Doomed, Issued
    <2>2. IsFiniteSet(1 .. (nextId - 1))
        <3>1. 1 \in Int /\ nextId - 1 \in Int
            BY DEF TypeOK
        <3> QED
            BY <3>1, FS_Interval
    <2> QED
        BY <2>1, <2>2, FS_Subset
<1>2. n \in Nat
    BY <1>1, FS_CardinalityType
<1>3. /\ doomed \in [1 .. n -> Doomed(h)]
      /\ \A i, j \in 1 .. n : i # j => doomed[i] # doomed[j]
    BY DEF WorklistOrders, SetToSeqs
<1> HIDE DEF n
<1>4. doomed \in Injection(1 .. n, Doomed(h))
    BY <1>3 DEF Injection, IsInjective
<1>5. Cardinality(1 .. n) = n
    BY <1>2, FS_Interval
<1>6. doomed \in Surjection(1 .. n, Doomed(h))
    BY <1>1, <1>4, <1>5, FS_Injection DEF n
<1> QED
    BY <1>3, <1>4, <1>6 DEF Injection, Surjection, Range

\* Appending new ids and forgetting the oldest beyond the capacity leaves the
\* order and the dictionary with the same ids, each once, within the capacity;
\* and nothing is forgotten until the capacity is reached.
LEMMA RememberKeepsMemory ==
    ASSUME TypeOK,
           IsInjective(invalidatedOrder),
           Range(invalidatedOrder) = DOMAIN invalidated,
           NEW owner, NEW doomed \in Seq(Issued), IsInjective(doomed),
           Range(doomed) \cap DOMAIN invalidated = {},
           Remember(doomed, owner)
    PROVE  /\ IsInjective(invalidatedOrder')
           /\ Range(invalidatedOrder') = DOMAIN invalidated'
           /\ Len(invalidatedOrder') <= InvalidatedMemory
           /\ \/ DOMAIN invalidated' = DOMAIN invalidated \cup Range(doomed)
              \/ Len(invalidatedOrder') = InvalidatedMemory
           /\ Len(invalidatedOrder) = InvalidatedMemory
                => Len(invalidatedOrder') = InvalidatedMemory
<1> DEFINE old == invalidatedOrder
           all == old \o doomed
           n == Len(all)
           excess == IF n > InvalidatedMemory THEN n - InvalidatedMemory ELSE 0
           forgotten == {all[i] : i \in 1 .. excess}
<1>1. /\ old \in Seq(Issued) /\ all \in Seq(Issued)
      /\ n \in Nat /\ Len(old) \in Nat /\ Len(doomed) \in Nat /\ n = Len(old) + Len(doomed)
      /\ excess \in 0 .. n
      /\ InvalidatedMemory \in Nat
    BY InvalidatedMemoryAssumption DEF TypeOK
<1>2. /\ DOMAIN old = 1 .. Len(old) /\ DOMAIN doomed = 1 .. Len(doomed)
      /\ \A i \in 1 .. n : all[i] = IF i <= Len(old) THEN old[i]
                                                     ELSE doomed[i - Len(old)]
    BY <1>1, ConcatProperties
<1>3. \A i \in 1 .. Len(old), j \in 1 .. Len(doomed) : old[i] # doomed[j]
    BY <1>2 DEF Range
<1>4. \A i, j \in 1 .. n : all[i] = all[j] => i = j
    <2> SUFFICES ASSUME NEW i \in 1 .. n, NEW j \in 1 .. n, all[i] = all[j]
                 PROVE  i = j
        OBVIOUS
    <2>0. \A a, b \in 1 .. Len(old) : old[a] = old[b] => a = b
        BY <1>2 DEF IsInjective
    <2> HIDE DEF old, all, n, excess, forgotten
    <2>1. CASE i <= Len(old) /\ j <= Len(old)
        <3>1. i \in 1 .. Len(old) /\ j \in 1 .. Len(old)
            BY <1>1, <2>1
        <3>2. old[i] = old[j]
            BY <1>2, <2>1
        <3> QED
            BY <2>0, <3>1, <3>2
    <2>2. CASE i <= Len(old) /\ ~(j <= Len(old))
        <3>1. i \in 1 .. Len(old) /\ j - Len(old) \in 1 .. Len(doomed)
            BY <1>1, <2>2
        <3> QED
            BY <1>2, <1>3, <2>2, <3>1
    <2>3. CASE ~(i <= Len(old)) /\ j <= Len(old)
        <3>1. j \in 1 .. Len(old) /\ i - Len(old) \in 1 .. Len(doomed)
            BY <1>1, <2>3
        <3> QED
            BY <1>2, <1>3, <2>3, <3>1
    <2>4. CASE ~(i <= Len(old)) /\ ~(j <= Len(old))
        <3>1. /\ i - Len(old) \in 1 .. Len(doomed) /\ j - Len(old) \in 1 .. Len(doomed)
              /\ doomed[i - Len(old)] = doomed[j - Len(old)]
            BY <1>1, <1>2, <2>4
        <3>2. i - Len(old) = j - Len(old)
            BY <1>2, <3>1 DEF IsInjective
        <3> QED
            BY <1>1, <3>2
    <2> QED
        BY <2>1, <2>2, <2>3, <2>4
<1>5. {all[i] : i \in 1 .. n} = DOMAIN invalidated \cup Range(doomed)
    <2> HIDE DEF old, all, n, excess, forgotten
    <2>1. {all[i] : i \in 1 .. n} \subseteq Range(old) \cup Range(doomed)
        <3> SUFFICES ASSUME NEW i \in 1 .. n
                     PROVE  all[i] \in Range(old) \cup Range(doomed)
            OBVIOUS
        <3>1. CASE i <= Len(old)
            <4>1. i \in DOMAIN old /\ all[i] = old[i]
                BY <1>1, <1>2, <3>1
            <4> QED
                BY <4>1 DEF Range
        <3>2. CASE ~(i <= Len(old))
            <4>1. i - Len(old) \in DOMAIN doomed /\ all[i] = doomed[i - Len(old)]
                BY <1>1, <1>2, <3>2
            <4> QED
                BY <4>1 DEF Range
        <3> QED
            BY <3>1, <3>2
    <2>2. Range(old) \subseteq {all[i] : i \in 1 .. n}
        <3>1. \A i \in 1 .. Len(old) : i \in 1 .. n /\ all[i] = old[i]
            BY <1>1, <1>2
        <3> QED
            BY <1>2, <3>1 DEF Range
    <2>3. \A j \in 1 .. Len(doomed) : /\ j + Len(old) \in 1 .. n
                                      /\ all[j + Len(old)] = doomed[j]
        <3> TAKE j \in 1 .. Len(doomed)
        <3>1. /\ j + Len(old) \in 1 .. n /\ ~ (j + Len(old) <= Len(old))
              /\ (j + Len(old)) - Len(old) = j
            BY <1>1
        <3>2. all[j + Len(old)] = doomed[(j + Len(old)) - Len(old)]
            BY <1>2, <3>1
        <3> QED
            BY <3>1, <3>2
    <2>4. Range(doomed) \subseteq {all[i] : i \in 1 .. n}
        BY <1>2, <2>3 DEF Range
    <2> QED
        BY <2>1, <2>2, <2>4 DEF old
<1>6. /\ invalidatedOrder' = SubSeq(all, excess + 1, n)
      /\ DOMAIN invalidated' = (DOMAIN invalidated \cup Range(doomed)) \ forgotten
    BY DEF Remember, Without
<1> HIDE DEF all, n, excess, forgotten
<1>7. /\ Len(invalidatedOrder') = n - excess
      /\ DOMAIN invalidatedOrder' = 1 .. (n - excess)
      /\ \A i \in 1 .. (n - excess) : invalidatedOrder'[i] = all[i + excess]
    BY <1>1, <1>6, SubSeqProperties DEF n
<1>8. \A i \in 1 .. (n - excess) : i + excess \in 1 .. n
    BY <1>1
<1>9. IsInjective(invalidatedOrder')
    <2> SUFFICES ASSUME NEW i \in 1 .. (n - excess), NEW j \in 1 .. (n - excess),
                        all[i + excess] = all[j + excess]
                 PROVE  i = j
        BY <1>7 DEF IsInjective
    <2>1. i + excess = j + excess
        BY <1>4, <1>8
    <2> QED
        BY <1>1, <2>1
<1>10. Range(invalidatedOrder') = DOMAIN invalidated'
    <2>1. Range(invalidatedOrder') \subseteq DOMAIN invalidated'
        <3> SUFFICES ASSUME NEW i \in 1 .. (n - excess)
                     PROVE  all[i + excess] \in DOMAIN invalidated'
            BY <1>7 DEF Range
        <3>1. \A j \in 1 .. excess : j \in 1 .. n /\ j # i + excess
            BY <1>1
        <3>2. all[i + excess] \notin forgotten
            BY <1>4, <1>8, <3>1 DEF forgotten
        <3> QED
            BY <1>5, <1>6, <1>8, <3>2
    <2>2. DOMAIN invalidated' \subseteq Range(invalidatedOrder')
        <3> SUFFICES ASSUME NEW x \in DOMAIN invalidated'
                     PROVE  x \in Range(invalidatedOrder')
            OBVIOUS
        <3>1. PICK i \in 1 .. n : x = all[i]
            BY <1>5, <1>6
        <3>2. i \notin 1 .. excess
            BY <1>6, <3>1 DEF forgotten
        <3>3. i - excess \in 1 .. (n - excess) /\ (i - excess) + excess = i
            BY <1>1, <3>2
        <3> QED
            BY <1>7, <3>1, <3>3 DEF Range
    <2> QED
        BY <2>1, <2>2
<1>11. \/ excess = 0 /\ n <= InvalidatedMemory
       \/ n - excess = InvalidatedMemory
    BY <1>1 DEF excess
<1>12. excess = 0 => forgotten = {}
    BY DEF forgotten
<1> QED
    BY <1>1, <1>6, <1>7, <1>9, <1>10, <1>11, <1>12

\* Neither operation loses an id before the memory is full.
LEMMA NextKeepsMemory ==
    TreeInv /\ StaleNamesKiller /\ StaleUntilForgotten /\ [Next]_vars
        => StaleUntilForgotten'
<1> SUFFICES ASSUME TreeInv, StaleNamesKiller, StaleUntilForgotten,
                    [Next]_vars
             PROVE  StaleUntilForgotten'
    OBVIOUS
<1> TypeOK
    BY DEF TreeInv
<1>0. \A h : h \notin Live => (GetVerdict(h) = "stale" <=> h \in DOMAIN invalidated)
    BY DEF GetVerdict
<1>1. ASSUME NEW obj \in Objects, NEW own \in BOOLEAN,
             NEW par \in Issued \cup {None}, Put(obj, own, par)
      PROVE  StaleUntilForgotten'
    <2>1. /\ Live' = Live \cup {nextId} /\ Issued' = Issued \cup {nextId}
          /\ invalidated' = invalidated /\ freed' = freed
          /\ invalidatedOrder' = invalidatedOrder
        BY <1>1 DEF Put, Assign, Live, Issued, TypeOK
    <2> QED
        BY <2>1 DEF StaleUntilForgotten, GetVerdict
<1>2. ASSUME NEW h \in Handles, PopCascade(h)
      PROVE  StaleUntilForgotten'
    <2>1. PICK doomed \in WorklistOrders(h) : Remember(doomed, h)
        BY <1>2 DEF PopCascade
    <2>2. /\ Live' = Live \ (Doomed(h) \cup {h}) /\ Issued' = Issued
          /\ freed' = freed \cup {h}
        BY <1>2 DEF PopCascade, Discard, Without, Live, Issued
    <2>3. /\ doomed \in Seq(Issued) /\ IsInjective(doomed)
          /\ Range(doomed) = Doomed(h)
        BY <2>1, WorklistType, WorklistIsComplete
    <2>4. Range(doomed) \cap DOMAIN invalidated = {}
        BY <2>3 DEF StaleNamesKiller, Doomed
    <2>5. /\ IsInjective(invalidatedOrder')
          /\ Range(invalidatedOrder') = DOMAIN invalidated'
          /\ Len(invalidatedOrder') <= InvalidatedMemory
          /\ \/ DOMAIN invalidated' = DOMAIN invalidated \cup Range(doomed)
             \/ Len(invalidatedOrder') = InvalidatedMemory
        BY <2>1, <2>3, <2>4, RememberKeepsMemory DEF StaleUntilForgotten
    <2>6. ASSUME NEW x \in Issued' \ (Live' \cup freed'),
                 Len(invalidatedOrder') # InvalidatedMemory
          PROVE  GetVerdict(x)' = "stale"
        <3>1. Len(invalidatedOrder) # InvalidatedMemory
            BY <2>1, <2>3, <2>4, <2>6, RememberKeepsMemory DEF StaleUntilForgotten
        <3>2. x \in DOMAIN invalidated'
            BY <2>2, <2>3, <2>5, <2>6, <3>1, <1>0 DEF StaleUntilForgotten
        <3> QED
            BY <2>6, <3>2 DEF GetVerdict
    <2> QED
        BY <2>5, <2>6 DEF StaleUntilForgotten
<1>3. CASE UNCHANGED vars
    BY <1>3 DEF StaleUntilForgotten, GetVerdict, Live, Issued,
        vars, tableVars, historyVars
<1> QED
    BY <1>1, <1>2, <1>3 DEF Next, RefusePop

\* The two kinds of error are told apart until the memory overflows: an id that
\* died by a cascade reads as stale, unless the memory is full of later ones.
THEOREM StaleIdsAreRemembered == Spec => []StaleUntilForgotten
<1>1. Init => StaleUntilForgotten
    BY InvalidatedMemoryAssumption
       DEF Init, StaleUntilForgotten, IsInjective, Range, Issued
<1> QED
    BY <1>1, NextKeepsMemory, TreeInvariant, StaleErrorIsTruthful, PTL DEF Spec

-----------------------------------------------------------------------------
(* The invariants together, for the modules that refine the table.         *)

TableInv == TreeInv /\ StaleNamesKiller /\ StaleUntilForgotten

\* The empty table satisfies them.
LEMMA InitTable == Init => TableInv
BY InitTree, InvalidatedMemoryAssumption
   DEF Init, TableInv, StaleNamesKiller, StaleUntilForgotten, IsInjective,
       Range, Issued

\* put and pop_cascade keep them.
LEMMA NextKeepsTable == TableInv /\ [Next]_vars => TableInv'
BY NextKeepsTree, NextKeepsKiller, NextKeepsMemory DEF TableInv
=============================================================================
