------------------------- MODULE CapabilitiesProofs -------------------------
(***************************************************************************)
(* Theorems about Capabilities, for every set of addresses, every number   *)
(* of handles and every set of idioms a library may use; and about         *)
(* Workers, for every number of threads and every pool.                    *)
(***************************************************************************)
EXTENDS Workers, HandleTableProofs

\* The heap is a set of trees: every node belongs to the tree of a root.
HeapInv ==
    /\ Allocated \subseteq Addresses
    /\ \A a \in Allocated : heap[a] \in Roots

\* No owned handle was derived from another, so no cascade takes one out.
OwnedUnderived == \A h \in Live : owned[h] => lineage[h] = {}

\* A handle into a tree is, or was derived from, every handle that may destroy
\* the tree.
Anchored ==
    Lacks(Evasive) =>
        \A g \in Live : items[g] \in Allocated =>
            \A h \in Live : owned[h] /\ items[h] = heap[items[g]]
                => g = h \/ h \in lineage[g]

\* What a destructor needs to know about the table and the heap.
CapInv ==
    /\ TreeInv /\ HeapInv /\ OwnedUnderived
    /\ OwnedIsDistinctRoot /\ EveryRootReclaimable
    /\ Anchored /\ ServedAlive

-----------------------------------------------------------------------------
(* What a step does to the heap and to the table.                          *)

\* A new tree, and its owned handle (or an unowned one of which nothing was traced).
Born(root, nodes, own) ==
    /\ root \in Free /\ nodes \in SUBSET (Free \ {root})
    /\ own \in BOOLEAN /\ (own \/ "out_unresolved" \in idioms)
    /\ Allocate(root, nodes) /\ Put(root, own, None)

\* Nodes of a tree that become a tree of their own, with an owned handle.
Detached(n, sub) ==
    /\ "detach" \in idioms
    /\ n \in sub /\ sub \in SUBSET (Allocated \ Roots)
    /\ heap' = [x \in Allocated |-> IF x \in sub THEN n ELSE heap[x]]
    /\ Put(n, TRUE, None)

\* Another handle to what is there already, without the right to destroy it.
Aliased(result, par) ==
    /\ par \in Live \cup {None}
    /\ \/ result = Static
       \/ /\ result \in Allocated
          /\ \/ ~Lacks(Evasive)
             \/ /\ par \in Live /\ items[par] \in Allocated
                /\ heap[result] = heap[items[par]]
    /\ UNCHANGED heap /\ Put(result, FALSE, par)

Buffered == UNCHANGED heap /\ Put(Buffer, TRUE, None)

Grown(n, root) == n \in Free /\ root \in Roots /\ Allocate(root, {n}) /\ UNCHANGED vars

Pruned(n) ==
    /\ "prune" \in idioms /\ n \in Allocated \ Roots
    /\ heap' = Without(heap, {n}) /\ UNCHANGED vars

Attached(r, s) ==
    /\ "attach" \in idioms /\ r \in Roots /\ s \in Roots \ {r}
    /\ heap' = [x \in Allocated |-> IF heap[x] = r THEN s ELSE heap[x]]
    /\ UNCHANGED vars

Destroyed(h) ==
    /\ h \in Handles /\ h \in Live /\ owned[h] /\ items[h] \in Roots
    /\ heap' = Without(heap, Tree(items[h]))
    /\ PopCascade(h)

Idle == UNCHANGED <<vars, heap>>

Effect ==
    \/ \E root \in Free : \E nodes \in SUBSET (Free \ {root}) : \E own \in BOOLEAN :
            Born(root, nodes, own)
    \/ \E n \in Allocated : \E sub \in SUBSET (Allocated \ Roots) : Detached(n, sub)
    \/ \E result \in Allocated \cup {Static} : \E par \in Live \cup {None} : Aliased(result, par)
    \/ Buffered
    \/ \E n \in Free : \E root \in Roots : Grown(n, root)
    \/ \E n \in Allocated : Pruned(n)
    \/ \E r, s \in Roots : Attached(r, s)
    \/ \E h \in Live : Destroyed(h)
    \/ Idle

\* Every call has one of these effects.
LEMMA StepEffect ==
    ASSUME TypeOK, HeapInv, [CapNext]_capVars
    PROVE  Effect /\ idioms' = idioms
<1>1. None \notin Live
    BY IdTypes DEF None
<1>2. ASSUME NEW h \in Handles \cup {None}, Creates(h)
      PROVE  Effect
    <2>1. CASE \E root \in Free : \E nodes \in SUBSET (Free \ {root}) :
                    Allocate(root, nodes) /\ Register(root, TRUE, None)
        <3>1. PICK root \in Free : \E nodes \in SUBSET (Free \ {root}) :
                    Allocate(root, nodes) /\ Register(root, TRUE, None)
            BY <2>1
        <3>2. PICK nodes \in SUBSET (Free \ {root}) :
                    Allocate(root, nodes) /\ Register(root, TRUE, None)
            BY <3>1
        <3>3. root # Null
            BY ObjectsAssumption, DistinctAssumption DEF Free
        <3>4. Born(root, nodes, TRUE)
            BY <3>2, <3>3 DEF Born, Register
        <3> QED
            BY <3>4 DEF Effect
    <2>2. CASE UNCHANGED heap /\ Register(Null, TRUE, None)
        BY <2>2 DEF Register, Effect, Idle
    <2>3. CASE /\ "detach" \in idioms
               /\ \E a \in Allocated : PointsTo(h, a) /\
                     \E n \in Tree(heap[a]) \ {heap[a]} :
                     \E sub \in SUBSET (Tree(heap[a]) \ {heap[a]}) :
                         /\ n \in sub
                         /\ heap' = [x \in Allocated |->
                                       IF x \in sub THEN n ELSE heap[x]]
                         /\ Register(n, TRUE, None)
        <3>1. PICK a \in Allocated :
                     \E n \in Tree(heap[a]) \ {heap[a]} :
                     \E sub \in SUBSET (Tree(heap[a]) \ {heap[a]}) :
                         /\ n \in sub
                         /\ heap' = [x \in Allocated |->
                                       IF x \in sub THEN n ELSE heap[x]]
                         /\ Register(n, TRUE, None)
            BY <2>3
        <3>2. PICK n \in Tree(heap[a]) \ {heap[a]}, sub \in SUBSET (Tree(heap[a]) \ {heap[a]}) :
                         /\ n \in sub
                         /\ heap' = [x \in Allocated |->
                                       IF x \in sub THEN n ELSE heap[x]]
                         /\ Register(n, TRUE, None)
            BY <3>1
        <3>3. sub \in SUBSET (Allocated \ Roots) /\ n \in Allocated
            BY DEF Tree, Roots
        <3>4. n # Null
            BY <3>3, ObjectsAssumption, DistinctAssumption DEF HeapInv
        <3>5. Detached(n, sub)
            BY <2>3, <3>2, <3>3, <3>4 DEF Detached, Register
        <3> QED
            BY <3>3, <3>5 DEF Effect
    <2> QED
        BY <1>2, <2>1, <2>2, <2>3 DEF Creates
<1>3. ASSUME NEW h \in Handles \cup {None}, NEW result \in Borrowable(h), NEW par \in Live \cup {None},
             par = h \/ ~Lacks(Evasive), UNCHANGED heap, Register(result, FALSE, par)
      PROVE  Effect
    <2>1. CASE result = Null
        BY <1>3, <2>1 DEF Register, Effect, Idle
    <2>2. CASE result = Static
        <3>1. Static # Null
            BY ObjectsAssumption, DistinctAssumption
        <3>2. Aliased(result, par)
            BY <1>3, <2>2, <3>1 DEF Aliased, Register
        <3> QED
            BY <2>2, <3>2 DEF Effect
    <2>3. CASE result \notin {Static, Null}
        <3>1. result \in Allocated /\ \E a \in Allocated : PointsTo(h, a) /\ heap[result] = heap[a]
            BY <2>3 DEF Borrowable
        <3>2. h \in Live /\ items[h] \in Allocated /\ heap[result] = heap[items[h]]
            BY <3>1 DEF PointsTo
        <3>3. Aliased(result, par)
            BY <1>3, <2>3, <3>1, <3>2 DEF Aliased, Register
        <3> QED
            BY <3>1, <3>3 DEF Effect
    <2> QED
        BY <2>1, <2>2, <2>3
<1>4. ASSUME NEW h \in Handles \cup {None}, OutHandle(h)
      PROVE  Effect
    <2>1. CASE \E root \in Free : \E nodes \in SUBSET (Free \ {root}) :
                 \E own \in IF "out_unresolved" \in idioms THEN BOOLEAN ELSE {TRUE} :
                    Allocate(root, nodes) /\ Register(root, own, None)
        <3>1. PICK root \in Free : \E nodes \in SUBSET (Free \ {root}) :
                 \E own \in IF "out_unresolved" \in idioms THEN BOOLEAN ELSE {TRUE} :
                    Allocate(root, nodes) /\ Register(root, own, None)
            BY <2>1
        <3>2. PICK nodes \in SUBSET (Free \ {root}),
                   own \in IF "out_unresolved" \in idioms THEN BOOLEAN ELSE {TRUE} :
                    Allocate(root, nodes) /\ Register(root, own, None)
            BY <3>1
        <3>3. root # Null
            BY ObjectsAssumption, DistinctAssumption DEF Free
        <3>4. own \in BOOLEAN /\ (own \/ "out_unresolved" \in idioms)
            OBVIOUS
        <3>5. Born(root, nodes, own)
            BY <3>2, <3>3, <3>4 DEF Born, Register
        <3> QED
            BY <3>4, <3>5 DEF Effect
    <2>2. CASE UNCHANGED heap /\ Register(Null, TRUE, None)
        BY <2>2 DEF Register, Effect, Idle
    <2>3. CASE /\ "out_borrows" \in idioms
               /\ \E result \in Borrowable(h) :
                     UNCHANGED heap /\ Register(result, FALSE, None)
        <3>1. ~Lacks(Evasive)
            BY <2>3 DEF Lacks, Evasive
        <3> QED
            BY <1>3, <2>3, <3>1
    <2> QED
        BY <1>4, <2>1, <2>2, <2>3 DEF OutHandle
<1>5. ASSUME NEW h \in Handles \cup {None}, NEW k \in Handles \cup {None}, Borrows(h, k)
      PROVE  Effect
    <2>1. h \in Live \cup {None}
        BY <1>5 DEF Borrows, Accepted
    <2>2. PICK result \in Borrowable(h) \cup
                  (IF "second_argument" \in idioms THEN Borrowable(k) ELSE {}) :
            Register(result, FALSE, h)
        BY <1>5 DEF Borrows
    <2>3. CASE result \in Borrowable(h)
        BY <1>3, <1>5, <2>1, <2>2, <2>3 DEF Borrows
    <2>4. CASE result \in Borrowable(k) /\ "second_argument" \in idioms
        <3>1. ~Lacks(Evasive)
            BY <2>4 DEF Lacks, Evasive
        <3> QED
            BY <1>3, <1>5, <2>1, <2>2, <2>4, <3>1 DEF Borrows
    <2> QED
        BY <2>2, <2>3, <2>4
<1>6. ASSUME NEW h \in Handles \cup {None}, NEW k \in Handles \cup {None}, Uses(h, k)
      PROVE  Effect
    <2>1. PICK a \in Allocated :
            \/ \E n \in Free : Allocate(heap[a], {n})
            \/ /\ "prune" \in idioms
               /\ \E n \in Tree(heap[a]) \ {heap[a]} : heap' = Without(heap, {n})
            \/ /\ "attach" \in idioms
               /\ \E r \in Roots \ {heap[a]} :
                    heap' = [x \in Allocated |-> IF heap[x] = r THEN heap[a] ELSE heap[x]]
        BY <1>6 DEF Uses
    <2>2. heap[a] \in Roots /\ UNCHANGED vars
        BY <1>6 DEF HeapInv, Uses
    <2>3. CASE \E n \in Free : Allocate(heap[a], {n})
        <3>1. \E n \in Free : Grown(n, heap[a])
            BY <2>2, <2>3 DEF Grown
        <3> QED
            BY <2>2, <3>1 DEF Effect
    <2>4. CASE /\ "prune" \in idioms
               /\ \E n \in Tree(heap[a]) \ {heap[a]} : heap' = Without(heap, {n})
        <3>1. PICK n \in Tree(heap[a]) \ {heap[a]} : heap' = Without(heap, {n})
            BY <2>4
        <3>2. n \in Allocated \ Roots
            BY DEF Tree, Roots
        <3>3. Pruned(n)
            BY <2>2, <2>4, <3>1, <3>2 DEF Pruned
        <3> QED
            BY <3>2, <3>3 DEF Effect
    <2>5. CASE /\ "attach" \in idioms
               /\ \E r \in Roots \ {heap[a]} :
                    heap' = [x \in Allocated |-> IF heap[x] = r THEN heap[a] ELSE heap[x]]
        <3>1. PICK r \in Roots \ {heap[a]} :
                    heap' = [x \in Allocated |-> IF heap[x] = r THEN heap[a] ELSE heap[x]]
            BY <2>5
        <3>2. Attached(r, heap[a])
            BY <2>2, <2>5, <3>1 DEF Attached
        <3> QED
            BY <2>2, <3>2 DEF Effect
    <2> QED
        BY <2>1, <2>3, <2>4, <2>5
<1>7. ASSUME NEW h \in Handles, Destroys(h)
      PROVE  Effect
    <2>1. Destroyed(h) /\ h \in Live
        BY <1>7 DEF Destroys, MayDestroy, Destroyed
    <2> QED
        BY <2>1 DEF Effect
<1>8. ASSUME AllocState PROVE Effect
    <2>1. Buffered
        <3>1. UNCHANGED heap /\ Put(Buffer, TRUE, None)
            BY <1>8 DEF AllocState
        <3> QED
            BY <3>1, Zenon DEF Buffered
    <2> QED
        BY <2>1 DEF Effect
<1>9. ASSUME NEW h \in Handles, UseAfterFree(h) \/ InvalidFree(h)
      PROVE  Effect
    <2>1. Idle
        BY <1>9 DEF UseAfterFree, InvalidFree, Idle
    <2> QED
        BY <2>1 DEF Effect
<1>10. ASSUME NEW state \in Handles, NEW id \in Handles, StateCallWithHandle(state, id)
       PROVE  Effect
    BY <1>10 DEF StateCallWithHandle, Effect, Idle
<1>11. ASSUME UNCHANGED capVars PROVE Effect
    BY <1>11 DEF capVars, Effect, Idle
<1>12. idioms' = idioms
    BY DEF CapNext, Creates, OutHandle, Borrows, Uses, Destroys, UseAfterFree, InvalidFree,
           StateCallWithHandle, AllocState, Running, capVars
<1> QED
    BY <1>2, <1>4, <1>5, <1>6, <1>7, <1>8, <1>9, <1>10, <1>11, <1>12 DEF CapNext

\* put leaves everything as it was but for the new handle.
LEMMA PutEffect ==
    ASSUME TreeInv, NEW obj, NEW own \in BOOLEAN, NEW par \in Live \cup {None},
           Put(obj, own, par)
    PROVE  /\ nextId \notin Live /\ Live' = Live \cup {nextId}
           /\ items'[nextId] = obj /\ (owned'[nextId] <=> own)
           /\ lineage'[nextId] = IF par \in Live THEN lineage[par] \cup {par} ELSE {}
           /\ \A x \in Live : /\ items'[x] = items[x] /\ (owned'[x] <=> owned[x])
                              /\ lineage'[x] = lineage[x]
<1>1. /\ Live \subseteq Issued /\ nextId \notin Issued /\ DOMAIN lineage = Issued
      /\ DOMAIN items = Live /\ DOMAIN owned = Live
    BY IdTypes DEF TreeInv, TypeOK, Issued, Live
<1>2. /\ items' = Assign(items, nextId, obj) /\ owned' = Assign(owned, nextId, own)
      /\ Adopt(nextId, par)
    BY DEF Put
<1>3. /\ Live' = Live \cup {nextId} /\ items'[nextId] = obj
      /\ \A x \in Live : items'[x] = items[x]
    BY <1>1, <1>2 DEF Assign, Live
<1>4. owned'[nextId] = own /\ \A x \in Live : owned'[x] = owned[x]
    BY <1>1, <1>2 DEF Assign
<1>5. /\ lineage'[nextId] = IF par \in Live THEN lineage[par] \cup {par} ELSE {}
      /\ \A x \in Live : lineage'[x] = lineage[x]
    <2>1. CASE par \in Live
        BY <1>1, <1>2, <2>1 DEF Adopt, Assign
    <2>2. CASE par \notin Live
        BY <1>1, <1>2, <2>2 DEF Adopt, Assign
    <2> QED
        BY <2>1, <2>2
<1> QED
    BY <1>1, <1>3, <1>4, <1>5

\* pop_cascade leaves the survivors as they were.
LEMMA PopEffect ==
    ASSUME TreeInv, NEW h \in Live, h \in Handles, PopCascade(h)
    PROVE  /\ Live' = Live \ ({h} \cup {x \in Live : h \in lineage[x]})
           /\ \A x \in Live' : /\ items'[x] = items[x] /\ (owned'[x] <=> owned[x])
                               /\ lineage'[x] = lineage[x]
<1>1. Live' \subseteq Live
    BY DEF PopCascade, Discard, Without, Live
<1>2. Live \ Live' = {h} \cup {x \in Live : h \in lineage[x]}
    BY PopKeepsTree
<1>3. DOMAIN owned = Live /\ DOMAIN items = Live
    BY DEF TreeInv, TypeOK, Live
<1>4. \A x \in Live' : /\ items'[x] = items[x] /\ owned'[x] = owned[x]
                       /\ lineage'[x] = lineage[x]
    BY <1>3 DEF PopCascade, Discard, Without, Live
<1> QED
    BY <1>1, <1>2, <1>4

\* malloc adds the new nodes to the tree of their root.
LEMMA AllocateEffect ==
    ASSUME NEW root, NEW nodes, Allocate(root, nodes)
    PROVE  /\ Allocated' = Allocated \cup {root} \cup nodes
           /\ \A x \in Allocated : heap'[x] = heap[x]
           /\ \A x \in ({root} \cup nodes) \ Allocated : heap'[x] = root
BY DEF Allocate, Allocated

\* What has no effect on the table or changes it through put and pop_cascade alone.
LEMMA TableStep ==
    ASSUME TreeInv, HeapInv, Effect
    PROVE  [Next]_vars /\ TreeInv'
<1>1. /\ Addresses \cup {Static, Buffer} \subseteq Objects /\ Allocated \subseteq Objects
      /\ Free \subseteq Objects
    BY ObjectsAssumption DEF HeapInv, Free
<1>2. Live \subseteq Issued
    BY IdTypes DEF TreeInv
<1>3. ASSUME NEW obj \in Objects, NEW own \in BOOLEAN, NEW par \in Live \cup {None},
             Put(obj, own, par)
      PROVE  Next
    BY <1>2, <1>3 DEF Next
<1>4. [Next]_vars
    <2>1. ASSUME NEW root \in Free, NEW nodes, NEW own \in BOOLEAN, Born(root, nodes, own)
          PROVE  Next
        BY <1>1, <1>3, <2>1 DEF Born
    <2>2. ASSUME NEW n \in Allocated, NEW sub, Detached(n, sub)
          PROVE  Next
        BY <1>1, <1>3, <2>2 DEF Detached
    <2>3. ASSUME NEW result \in Allocated \cup {Static}, NEW par \in Live \cup {None},
                 Aliased(result, par)
          PROVE  Next
        BY <1>1, <1>3, <2>3 DEF Aliased
    <2>4. CASE Buffered
        BY <1>1, <1>3, <2>4 DEF Buffered
    <2>5. ASSUME NEW n, NEW r, NEW s, Grown(n, r) \/ Pruned(n) \/ Attached(r, s) \/ Idle
          PROVE  UNCHANGED vars
        BY <2>5 DEF Grown, Pruned, Attached, Idle
    <2>6. ASSUME NEW h \in Live, Destroyed(h)
          PROVE  Next
        BY <2>6 DEF Destroyed, Next
    <2> QED
        BY <2>1, <2>2, <2>3, <2>4, <2>5, <2>6 DEF Effect
<1> QED
    BY <1>4, NextKeepsTree

-----------------------------------------------------------------------------
(* What each effect preserves.                                             *)

\* A new object comes back with a handle of its own, owned if C says whose it is.
LEMMA BornKeeps ==
    ASSUME CapInv, TreeInv', idioms' = idioms,
           NEW root \in Free, NEW nodes \in SUBSET (Free \ {root}), NEW own \in BOOLEAN,
           Born(root, nodes, own)
    PROVE  CapInv'
<1>1. /\ Allocated' = Allocated \cup {root} \cup nodes
      /\ \A x \in Allocated : heap'[x] = heap[x]
      /\ \A x \in {root} \cup nodes : heap'[x] = root
      /\ Free \cap Allocated = {} /\ Free \subseteq Addresses
    <2>1. Allocate(root, nodes) /\ Free \cap Allocated = {} /\ Free \subseteq Addresses
        BY DEF Born, Free
    <2> QED
        BY <2>1, AllocateEffect
<1>2. /\ nextId \notin Live /\ Live' = Live \cup {nextId}
      /\ items'[nextId] = root /\ (owned'[nextId] <=> own) /\ lineage'[nextId] = {}
      /\ \A x \in Live : /\ items'[x] = items[x] /\ (owned'[x] <=> owned[x])
                         /\ lineage'[x] = lineage[x]
      /\ None \notin Live
    <2>1. None \notin Live
        BY IdTypes DEF CapInv, TreeInv, None
    <2>2. TreeInv /\ Put(root, own, None) /\ None \in Live \cup {None}
        BY DEF Born, CapInv
    <2> QED
        <3>1. CASE own = TRUE
            <4>1. Put(root, TRUE, None)
                BY <2>2, <3>1
            <4> QED
                BY <2>1, <2>2, <3>1, <4>1, PutEffect
        <3>2. CASE own = FALSE
            <4>1. Put(root, FALSE, None)
                BY <2>2, <3>2
            <4> QED
                BY <2>1, <2>2, <3>2, <4>1, PutEffect
        <3> QED
            BY <3>1, <3>2
<1>3. Roots' = Roots \cup {root}
    BY <1>1 DEF Roots
<1>4. HeapInv' /\ OwnedUnderived'
    BY <1>1, <1>2, <1>3 DEF HeapInv, OwnedUnderived, CapInv
<1>5. root # Buffer /\ Buffer \notin Allocated'
    BY <1>1, <1>4, DistinctAssumption DEF HeapInv
<1>6. OwnedIsDistinctRoot'
    BY <1>1, <1>2, <1>3 DEF OwnedIsDistinctRoot, Lacks, CapInv, Roots
<1>7. EveryRootReclaimable'
    BY <1>2, <1>3 DEF EveryRootReclaimable, Lacks, CapInv, Born
<1>8. ServedAlive'
    <2>1. Free' \subseteq Free /\ root \notin Free'
        BY <1>1 DEF Free
    <2> QED
        BY <1>2, <2>1 DEF ServedAlive, NeverHandsOutFreed, Lacks, CapInv
<1>9. Anchored'
    <2> SUFFICES ASSUME Lacks(Evasive), NEW g \in Live', items'[g] \in Allocated',
                        NEW h \in Live', owned'[h], items'[h] = heap'[items'[g]]
                 PROVE  g = h \/ h \in lineage'[g]
        BY DEF Anchored, Lacks
    <2>1. \A x \in Live : items[x] \notin Free
        BY DEF CapInv, ServedAlive, NeverHandsOutFreed
    <2>2. CASE g = nextId
        <3>1. items'[h] = root
            BY <1>1, <1>2, <2>2
        <3> QED
            BY <1>2, <2>1, <2>2, <3>1
    <2>3. CASE g \in Live
        <3>1. items'[g] = items[g] /\ items[g] \in Allocated
            BY <1>1, <1>2, <2>1, <2>3
        <3>2. heap'[items'[g]] = heap[items[g]] /\ heap[items[g]] \in Allocated
            BY <1>1, <3>1 DEF CapInv, HeapInv, Roots
        <3>3. h \in Live
            BY <1>1, <1>2, <3>2
        <3> QED
            BY <1>2, <2>3, <3>1, <3>2, <3>3 DEF Anchored, CapInv
    <2> QED
        BY <1>2, <2>2, <2>3
<1> QED
    BY <1>4, <1>6, <1>7, <1>8, <1>9 DEF CapInv

\* A node that C has unlinked from its object comes back as an object of its own.
LEMMA DetachedKeeps ==
    ASSUME CapInv, TreeInv', idioms' = idioms,
           NEW n \in Allocated, NEW sub \in SUBSET (Allocated \ Roots), Detached(n, sub)
    PROVE  CapInv'
<1>1. /\ n \in sub /\ Allocated' = Allocated
      /\ \A x \in Allocated : heap'[x] = IF x \in sub THEN n ELSE heap[x]
    BY DEF Detached, Allocated
<1>2. /\ nextId \notin Live /\ Live' = Live \cup {nextId}
      /\ items'[nextId] = n /\ owned'[nextId] /\ lineage'[nextId] = {}
      /\ \A x \in Live : /\ items'[x] = items[x] /\ (owned'[x] <=> owned[x])
                         /\ lineage'[x] = lineage[x]
    BY PutEffect, IdTypes DEF Detached, CapInv, TreeInv, None
<1>3. Roots' = Roots \cup {n} /\ n \notin Roots
    BY <1>1 DEF Roots
<1>4. HeapInv' /\ OwnedUnderived'
    BY <1>1, <1>2, <1>3 DEF HeapInv, OwnedUnderived, CapInv
<1>5. OwnedIsDistinctRoot'
    <2>1. n # Buffer
        BY DistinctAssumption DEF HeapInv, CapInv
    <2> QED
        BY <1>2, <1>3, <2>1 DEF OwnedIsDistinctRoot, Lacks, CapInv
<1>6. EveryRootReclaimable'
    BY <1>2, <1>3 DEF EveryRootReclaimable, Lacks, CapInv
<1>7. ServedAlive' /\ Anchored'
    BY DEF Detached, ServedAlive, Anchored, Lacks, Evasive
<1> QED
    BY <1>4, <1>5, <1>6, <1>7 DEF CapInv

\* Another handle, which is not owned, to memory that some object already holds
\* or that is static.
LEMMA AliasedKeeps ==
    ASSUME CapInv, TreeInv', idioms' = idioms,
           NEW result \in Allocated \cup {Static}, NEW par \in Live \cup {None}, Aliased(result, par)
    PROVE  CapInv'
<1>1. heap' = heap /\ Allocated' = Allocated /\ Roots' = Roots /\ Free' = Free
    BY DEF Aliased, Allocated, Roots, Free
<1>2. /\ nextId \notin Live /\ Live' = Live \cup {nextId}
      /\ items'[nextId] = result /\ ~owned'[nextId]
      /\ lineage'[nextId] = IF par \in Live THEN lineage[par] \cup {par} ELSE {}
      /\ \A x \in Live : /\ items'[x] = items[x] /\ (owned'[x] <=> owned[x])
                         /\ lineage'[x] = lineage[x]
    BY PutEffect DEF Aliased, CapInv
<1>3. HeapInv' /\ OwnedUnderived'
    BY <1>1, <1>2 DEF HeapInv, OwnedUnderived, CapInv
<1>4. OwnedIsDistinctRoot' /\ EveryRootReclaimable'
    BY <1>1, <1>2 DEF OwnedIsDistinctRoot, EveryRootReclaimable, Lacks, CapInv
<1>5. ServedAlive'
    <2>1. result \notin Free
        BY DistinctAssumption DEF Free
    <2> QED
        BY <1>1, <1>2, <2>1 DEF ServedAlive, NeverHandsOutFreed, Lacks, CapInv
<1>6. Anchored'
    <2> SUFFICES ASSUME Lacks(Evasive), NEW g \in Live', items'[g] \in Allocated,
                        NEW h \in Live', owned'[h], items'[h] = heap[items'[g]]
                 PROVE  g = h \/ h \in lineage'[g]
        BY <1>1 DEF Anchored, Lacks
    <2>1. h \in Live /\ owned[h] /\ items'[h] = items[h]
        BY <1>2
    <2>2. CASE g \in Live
        BY <1>2, <2>1, <2>2 DEF Anchored, CapInv
    <2>3. CASE g = nextId
        <3>1. result # Static
            BY <1>2, <2>3, DistinctAssumption DEF HeapInv, CapInv
        <3>2. par \in Live /\ items[par] \in Allocated /\ heap[result] = heap[items[par]]
            BY <3>1 DEF Aliased
        <3>3. par = h \/ h \in lineage[par]
            BY <1>2, <2>1, <2>3, <3>2 DEF Anchored, CapInv
        <3> QED
            BY <1>2, <2>3, <3>2, <3>3
    <2> QED
        BY <1>2, <2>2, <2>3
<1> QED
    BY <1>3, <1>4, <1>5, <1>6 DEF CapInv

\* An owned handle to memory the invoker allocated, outside the heap of C.
LEMMA BufferedKeeps ==
    ASSUME CapInv, TreeInv', idioms' = idioms, Buffered
    PROVE  CapInv'
<1>1. heap' = heap /\ Allocated' = Allocated /\ Roots' = Roots /\ Free' = Free
    BY DEF Buffered, Allocated, Roots, Free
<1>2. /\ nextId \notin Live /\ Live' = Live \cup {nextId}
      /\ items'[nextId] = Buffer /\ lineage'[nextId] = {}
      /\ \A x \in Live : /\ items'[x] = items[x] /\ (owned'[x] <=> owned[x])
                         /\ lineage'[x] = lineage[x]
    BY PutEffect, IdTypes DEF Buffered, CapInv, TreeInv, None
<1>3. HeapInv' /\ OwnedUnderived'
    BY <1>1, <1>2 DEF HeapInv, OwnedUnderived, CapInv
<1>4. Buffer \notin Allocated /\ Buffer \notin Free /\ Buffer \notin Roots
    BY DistinctAssumption DEF HeapInv, CapInv, Free, Roots
<1>5. OwnedIsDistinctRoot'
    BY <1>1, <1>2, <1>4 DEF OwnedIsDistinctRoot, Lacks, CapInv
<1>6. EveryRootReclaimable'
    BY <1>1, <1>2 DEF EveryRootReclaimable, Lacks, CapInv
<1>7. ServedAlive'
    BY <1>1, <1>2, <1>4 DEF ServedAlive, NeverHandsOutFreed, Lacks, CapInv
<1>8. Anchored'
    <2> SUFFICES ASSUME Lacks(Evasive), NEW g \in Live', items'[g] \in Allocated,
                        NEW h \in Live', owned'[h], items'[h] = heap[items'[g]]
                 PROVE  g = h \/ h \in lineage'[g]
        BY <1>1 DEF Anchored, Lacks
    <2>1. g \in Live /\ items'[g] = items[g]
        BY <1>2, <1>4
    <2>2. items'[h] # Buffer
        BY <1>4, <2>1 DEF HeapInv, CapInv
    <2>3. h \in Live
        BY <1>2, <2>2
    <2> QED
        BY <1>2, <2>1, <2>3 DEF Anchored, CapInv
<1> QED
    BY <1>3, <1>5, <1>6, <1>7, <1>8 DEF CapInv

\* C gives an object another node.
LEMMA GrownKeeps ==
    ASSUME CapInv, TreeInv', idioms' = idioms,
           NEW n \in Free, NEW root \in Roots, Grown(n, root)
    PROVE  CapInv'
<1>1. /\ Allocated' = Allocated \cup {n}
      /\ \A x \in Allocated : heap'[x] = heap[x]
      /\ heap'[n] = root /\ n \notin Allocated /\ n \in Addresses
      /\ root \in Allocated
    <2>1. Allocate(root, {n}) /\ n \notin Allocated /\ n \in Addresses /\ root \in Allocated
        BY DEF Grown, Free, Roots
    <2> QED
        BY <2>1, AllocateEffect
<1>2. /\ items' = items /\ owned' = owned /\ lineage' = lineage /\ Live' = Live
    BY DEF Grown, vars, tableVars, historyVars, Live
<1>3. Roots' = Roots
    BY <1>1 DEF Roots
<1>4. HeapInv' /\ OwnedUnderived'
    BY <1>1, <1>2, <1>3 DEF HeapInv, OwnedUnderived, CapInv
<1>5. OwnedIsDistinctRoot' /\ EveryRootReclaimable'
    BY <1>2, <1>3 DEF OwnedIsDistinctRoot, EveryRootReclaimable, Lacks, CapInv
<1>6. ServedAlive'
    <2>1. Free' \subseteq Free
        BY <1>1 DEF Free
    <2> QED
        BY <1>2, <2>1 DEF ServedAlive, NeverHandsOutFreed, Lacks, CapInv
<1>7. Anchored'
    <2> SUFFICES ASSUME Lacks(Evasive), NEW g \in Live, items[g] \in Allocated',
                        NEW h \in Live, owned[h], items[h] = heap'[items[g]]
                 PROVE  g = h \/ h \in lineage[g]
        BY <1>2 DEF Anchored, Lacks
    <2>1. items[g] \in Allocated
        BY <1>1 DEF CapInv, ServedAlive, NeverHandsOutFreed
    <2> QED
        BY <1>1, <2>1 DEF Anchored, CapInv
<1> QED
    BY <1>4, <1>5, <1>6, <1>7 DEF CapInv

\* C frees a node of an object, but not the object.
LEMMA PrunedKeeps ==
    ASSUME CapInv, TreeInv', idioms' = idioms, NEW n \in Allocated, Pruned(n)
    PROVE  CapInv'
<1>1. /\ Allocated' = Allocated \ {n}
      /\ \A x \in Allocated \ {n} : heap'[x] = heap[x]
      /\ n \notin Roots
    BY DEF Pruned, Without, Allocated
<1>2. /\ items' = items /\ owned' = owned /\ lineage' = lineage /\ Live' = Live
    BY DEF Pruned, vars, tableVars, historyVars, Live
<1>3. Roots' = Roots
    BY <1>1 DEF Roots
<1>4. HeapInv' /\ OwnedUnderived'
    BY <1>1, <1>2, <1>3 DEF HeapInv, OwnedUnderived, CapInv
<1>5. OwnedIsDistinctRoot' /\ EveryRootReclaimable'
    BY <1>2, <1>3 DEF OwnedIsDistinctRoot, EveryRootReclaimable, Lacks, CapInv
<1>6. ServedAlive' /\ Anchored'
    BY DEF Pruned, ServedAlive, Anchored, Lacks, Evasive
<1> QED
    BY <1>4, <1>5, <1>6 DEF CapInv

\* One object becomes part of another.
LEMMA AttachedKeeps ==
    ASSUME CapInv, TreeInv', idioms' = idioms, NEW r \in Roots, NEW s \in Roots, Attached(r, s)
    PROVE  CapInv'
<1>1. /\ Allocated' = Allocated /\ r # s /\ r \in Allocated /\ s \in Allocated
      /\ \A x \in Allocated : heap'[x] = IF heap[x] = r THEN s ELSE heap[x]
    BY DEF Attached, Allocated, Roots
<1>2. /\ items' = items /\ owned' = owned /\ lineage' = lineage /\ Live' = Live
    BY DEF Attached, vars, tableVars, historyVars, Live
<1>3. Roots' = Roots \ {r}
    BY <1>1 DEF Roots
<1>4. HeapInv' /\ OwnedUnderived'
    BY <1>1, <1>2, <1>3 DEF HeapInv, OwnedUnderived, CapInv
<1>5. EveryRootReclaimable'
    BY <1>2, <1>3 DEF EveryRootReclaimable, Lacks, CapInv
<1>6. ServedAlive' /\ Anchored' /\ OwnedIsDistinctRoot'
    BY DEF Attached, ServedAlive, Anchored, OwnedIsDistinctRoot, Lacks, Evasive
<1> QED
    BY <1>4, <1>5, <1>6 DEF CapInv

\* An object is freed, and its handle dies with every handle derived from it.
LEMMA DestroyedKeeps ==
    ASSUME CapInv, TreeInv', idioms' = idioms, NEW h \in Live, Destroyed(h)
    PROVE  CapInv'
<1> DEFINE r == items[h]
<1>1. /\ Allocated' = Allocated \ Tree(r)
      /\ \A x \in Allocated' : heap'[x] = heap[x] /\ heap[x] # r
      /\ r \in Roots /\ owned[h]
    BY DEF Destroyed, Without, Allocated, Tree
<1>2. /\ Live' = Live \ ({h} \cup {x \in Live : h \in lineage[x]})
      /\ \A x \in Live' : /\ items'[x] = items[x] /\ (owned'[x] <=> owned[x])
                          /\ lineage'[x] = lineage[x]
    BY PopEffect DEF Destroyed, CapInv
<1>3. Roots' = Roots \ {r}
    BY <1>1 DEF Roots, Tree
<1>4. HeapInv' /\ OwnedUnderived'
    BY <1>1, <1>2, <1>3 DEF HeapInv, OwnedUnderived, CapInv
<1>5. OwnedIsDistinctRoot'
    <2> SUFFICES ASSUME Lacks({"attach"}), NEW k \in Live', owned'[k], items'[k] # Buffer
                 PROVE  /\ items'[k] \in Roots'
                        /\ \A g \in Live' : owned'[g] /\ items'[g] = items'[k] => g = k
        BY DEF OwnedIsDistinctRoot, Lacks
    <2>1. k \in Live /\ owned[k] /\ items[k] # Buffer /\ items'[k] = items[k] /\ k # h
        BY <1>2
    <2>2. items[k] \in Roots /\ \A g \in Live : owned[g] /\ items[g] = items[k] => g = k
        BY <2>1 DEF OwnedIsDistinctRoot, CapInv
    <2>3. items[k] # r
        BY <1>1, <2>1, <2>2
    <2> QED
        BY <1>2, <1>3, <2>1, <2>2, <2>3
<1>6. EveryRootReclaimable'
    <2> SUFFICES ASSUME Lacks({"out_unresolved"}), NEW q \in Roots, q # r
                 PROVE  \E k \in Live' : owned'[k] /\ items'[k] = q
        BY <1>3 DEF EveryRootReclaimable, Lacks
    <2>1. PICK k \in Live : owned[k] /\ items[k] = q
        BY DEF EveryRootReclaimable, CapInv
    <2>2. lineage[k] = {} /\ k # h
        BY <2>1 DEF OwnedUnderived, CapInv
    <2> QED
        BY <1>2, <2>1, <2>2
<1>7. ServedAlive'
    <2> SUFFICES ASSUME Lacks(Evasive), NEW g \in Live', items'[g] \in Free'
                 PROVE  FALSE
        BY DEF ServedAlive, NeverHandsOutFreed, Lacks
    <2>1. g \in Live /\ items'[g] = items[g] /\ g # h /\ h \notin lineage[g]
        BY <1>2
    <2>2. items[g] \notin Free /\ items[g] \in Addresses
        BY <2>1 DEF ServedAlive, NeverHandsOutFreed, CapInv, Free
    <2>3. items[g] \in Tree(r)
        BY <1>1, <2>1, <2>2 DEF Free
    <2>4. items[g] \in Allocated /\ heap[items[g]] = r
        BY <2>3 DEF Tree
    <2> QED
        BY <1>1, <2>1, <2>4 DEF Anchored, CapInv
<1>8. Anchored'
    BY <1>1, <1>2 DEF Anchored, Lacks, CapInv
<1> QED
    BY <1>4, <1>5, <1>6, <1>7, <1>8 DEF CapInv

\* A call that changes neither the heap nor the table.
LEMMA IdleKeeps ==
    ASSUME CapInv, TreeInv', idioms' = idioms, Idle
    PROVE  CapInv'
BY DEF Idle, vars, tableVars, historyVars, CapInv, HeapInv, OwnedUnderived, OwnedIsDistinctRoot,
       EveryRootReclaimable, Anchored, ServedAlive, NeverHandsOutFreed, Lacks, Live, Free, Roots,
       Allocated

-----------------------------------------------------------------------------
(* Theorems.                                                               *)

\* The invariant of every sequence of calls.
LEMMA CapInvariant == CapSpec => []CapInv
<1>1. ASSUME CapInit PROVE CapInv
    <2>1. TreeInv
        BY <1>1, InitTree DEF CapInit
    <2>2. Allocated = {} /\ Live = {}
        BY <1>1 DEF CapInit, Init, Allocated, Live
    <2> QED
        BY <2>1, <2>2 DEF CapInv, HeapInv, OwnedUnderived, OwnedIsDistinctRoot, Roots,
            EveryRootReclaimable, Anchored, ServedAlive, NeverHandsOutFreed
<1>2. ASSUME CapInv, [CapNext]_capVars PROVE CapInv'
    <2>1. Effect /\ idioms' = idioms
        BY <1>2, StepEffect DEF CapInv, TreeInv
    <2>2. TreeInv'
        BY <1>2, <2>1, TableStep DEF CapInv
    <2> QED
        BY <1>2, <2>1, <2>2, BornKeeps, DetachedKeeps, AliasedKeeps, BufferedKeeps, GrownKeeps,
           PrunedKeeps, AttachedKeeps, DestroyedKeeps, IdleKeeps DEF Effect
<1> QED
    BY <1>1, <1>2, PTL DEF CapSpec

\* Whatever the library does, a capability changes the table only through put
\* and pop_cascade.
THEOREM CapabilitiesImplementTable == CapSpec => TableSpec
<1>1. CapInit => Init
    BY DEF CapInit
<1>2. CapInv /\ [CapNext]_capVars => [Next]_vars
    BY StepEffect, TableStep DEF CapInv, TreeInv
<1> QED
    BY <1>1, <1>2, CapInvariant, PTL DEF CapSpec, TableSpec, Spec

\* handles.py:34, of the libraries for which it is true: a handle whose object has
\* been freed is never served.
THEOREM HandlesServedAlive == CapSpec => []ServedAlive
<1>1. CapInv => ServedAlive
    BY DEF CapInv
<1> QED
    BY <1>1, CapInvariant, PTL

\* No two owned handles free the same object, and what they free is a whole tree.
THEOREM OwnedHandlesDistinct == CapSpec => []OwnedIsDistinctRoot
<1>1. CapInv => OwnedIsDistinctRoot
    BY DEF CapInv
<1> QED
    BY <1>1, CapInvariant, PTL

\* Every tree on the heap has a handle that may be destroyed.
THEOREM RootsReclaimable == CapSpec => []EveryRootReclaimable
<1>1. CapInv => EveryRootReclaimable
    BY DEF CapInv
<1> QED
    BY <1>1, CapInvariant, PTL

\* No call makes C touch freed memory, free what it must not, or follow an id.
THEOREM NoFaultOccurs == CapSpec => []NoFault
<1>1. ASSUME CapInit PROVE NoFault
    BY <1>1 DEF CapInit, NoFault, NoInvalidFree
<1>2. ASSUME CapInv, NoFault, [CapNext]_capVars PROVE NoFault'
    <2>0. idioms' = idioms
        BY <1>2, StepEffect DEF CapInv, TreeInv
    <2>1. ASSUME NEW h \in Handles, UseAfterFree(h)
          PROVE  NoFault'
        <3>1. faults' = {"use_after_free"} /\ ~Lacks(Evasive)
            BY <1>2, <2>1 DEF UseAfterFree, CapInv, ServedAlive, NeverHandsOutFreed
        <3>2. ~Lacks(Evasive \cup {"state_and_handle"})
            BY <3>1 DEF Lacks
        <3> QED
            BY <2>0, <3>1, <3>2 DEF NoFault, NoInvalidFree, Lacks
    <2>2. ASSUME NEW h \in Handles, InvalidFree(h)
          PROVE  NoFault'
        <3>1. ~Lacks({"attach"})
            BY <1>2, <2>2 DEF InvalidFree, MayDestroy, CapInv, OwnedIsDistinctRoot
        <3>2. ~Lacks(Evasive \cup {"state_and_handle"})
            BY <3>1 DEF Lacks, Evasive
        <3> QED
            BY <2>0, <3>1, <3>2 DEF NoFault, NoInvalidFree, Lacks
    <2>3. ASSUME NEW state \in Handles, NEW id \in Handles, StateCallWithHandle(state, id)
          PROVE  NoFault'
        <3>1. faults' = {"id_as_pointer"} /\ "state_and_handle" \in idioms
            BY <2>3 DEF StateCallWithHandle
        <3>2. ~Lacks(Evasive \cup {"state_and_handle"})
            BY <3>1 DEF Lacks
        <3> QED
            BY <2>0, <3>1, <3>2 DEF NoFault, NoInvalidFree, Lacks
    <2>4. ASSUME faults' = faults
          PROVE  NoFault'
        BY <1>2, <2>0, <2>4 DEF NoFault, NoInvalidFree, Lacks
    <2>5. ASSUME NEW h \in Handles \cup {None}, NEW k \in Handles \cup {None},
                 Creates(h) \/ OutHandle(h) \/ Borrows(h, k) \/ Uses(h, k) \/ Destroys(h)
          PROVE  faults' = faults
        BY <2>5 DEF Creates, OutHandle, Borrows, Uses, Destroys, Running
    <2>6. AllocState \/ UNCHANGED capVars => faults' = faults
        BY DEF AllocState, Running, capVars
    <2>7. CASE CapNext
        BY <2>1, <2>2, <2>3, <2>4, <2>5, <2>6, <2>7 DEF CapNext
    <2> QED
        BY <1>2, <2>4, <2>6, <2>7
<1> QED
    BY <1>1, <1>2, CapInvariant, PTL DEF CapSpec

\* Memory is freed only by destroying the handle that owns it, in the step that
\* takes that handle out of the table.
THEOREM MemoryFreedThroughOwner == CapSpec => FreedOnlyThroughOwner
<1> DEFINE A == Lacks({"prune"}) =>
                    \A a \in Allocated : a \notin Allocated' =>
                        \E h \in Live \ Live' : owned[h] /\ items[h] = heap[a]
<1>1. ASSUME CapInv, [CapNext]_capVars PROVE [A]_capVars
    <2> SUFFICES ASSUME Lacks({"prune"}), NEW a \in Allocated, a \notin Allocated'
                 PROVE  \E h \in Live \ Live' : owned[h] /\ items[h] = heap[a]
        OBVIOUS
    <2>1. Effect
        BY <1>1, StepEffect DEF CapInv, TreeInv
    <2>2. ASSUME NEW root, NEW nodes, Allocate(root, nodes)
          PROVE  FALSE
        BY <2>2, AllocateEffect
    <2>3. ASSUME Allocated' = Allocated
          PROVE  FALSE
        BY <2>3
    <2>4. ASSUME NEW h \in Live, Destroyed(h)
          PROVE  h \notin Live' /\ owned[h] /\ items[h] = heap[a]
        <3>1. h \notin Live'
            BY <1>1, <2>4, PopEffect DEF Destroyed, CapInv
        <3>2. a \in Tree(items[h]) /\ owned[h]
            BY <2>4 DEF Destroyed, Without, Allocated
        <3> QED
            BY <3>1, <3>2 DEF Tree
    <2>5. ASSUME NEW n, NEW r, NEW s, NEW sub, NEW own, NEW result, NEW par,
                 Born(r, sub, own) \/ Grown(n, r)
          PROVE  FALSE
        BY <2>2, <2>5 DEF Born, Grown
    <2>6. ASSUME NEW n, NEW r, NEW s, NEW sub, NEW result, NEW par,
                 Detached(n, sub) \/ Attached(r, s) \/ Aliased(result, par) \/ Buffered \/ Idle
          PROVE  FALSE
        BY <2>3, <2>6 DEF Detached, Attached, Aliased, Buffered, Idle, Allocated
    <2>7. ASSUME NEW n, Pruned(n)
          PROVE  FALSE
        BY <2>7 DEF Pruned, Lacks
    <2> QED
        BY <2>1, <2>4, <2>5, <2>6, <2>7 DEF Effect
<1> QED
    BY <1>1, CapInvariant, PTL DEF CapSpec, FreedOnlyThroughOwner

-----------------------------------------------------------------------------
(* The worker threads.                                                     *)

\* The runs of a server that keep the serial guarantees: calls in flight at the
\* same time are about different trees, or there is one worker.
Orderly == OneCallPerTree \/ OneWorker

\* Calls of different threads name different trees.
Disjoint ==
    \A t, u \in Threads :
        t # u /\ InFlight(t) /\ InFlight(u) => ~SameTree(hid[t], hid[u])

\* The handles whose objects C has destroyed and pop_cascade has not reached yet,
\* and those that no destruction under way will take out.
Dying == {hid[t] : t \in {u \in Threads : pc[u] = "pop"}}
Sound == {g \in Live : Family(g) \cap Dying = {}}

\* The thread holds a new tree for which no handle is registered yet.
Newborn(t) == pc[t] = "register" /\ op[t] = "creates"

\* Sound handles point into trees whose owned handle they are, or derive from.
Rooted ==
    \A g \in Sound :
        \/ items[g] = Static
        \/ /\ items[g] \in Allocated
           /\ \E h \in Family(g) : owned[h] /\ items[h] = heap[items[g]]
OwnedAllocated == \A h \in Live : owned[h] => items[h] # Static
OneOwner ==
    \A g, h \in Sound : owned[g] /\ owned[h] /\ items[g] = items[h] => g = h

\* Every tree has an owned handle that will stay, or is about to get its first.
Reclaimable ==
    \A r \in Roots : \/ \E h \in Sound : owned[h] /\ items[h] = r
                     \/ \E t \in Threads : Newborn(t) /\ ret[t] = r
NewbornsApart ==
    \A t \in Threads : Newborn(t) =>
        /\ ret[t] \in Roots
        /\ \A u \in Threads : Newborn(u) /\ ret[u] = ret[t] => u = t
        /\ \A g \in Sound : owned[g] => items[g] # ret[t]

HandlesInv ==
    /\ TreeInv /\ HeapInv /\ OwnedUnderived /\ OwnedAllocated
    /\ Rooted /\ OneOwner /\ Reclaimable /\ NewbornsApart

\* What one thread knows of the table and the heap at each step of its call.
CallOK(t) ==
    /\ InFlight(t) => t \in pool
    /\ pc[t] \in {"callC", "register", "pop"} => hid[t] \in Live \cup {None}
    /\ pc[t] = "callC" =>
          pointer[t] = IF hid[t] = None THEN Null ELSE items[hid[t]]
    /\ op[t] = "destroys" /\ pc[t] \in {"resolve", "callC", "pop"} =>
          hid[t] \in Live /\ owned[hid[t]]
    /\ pc[t] \in {"check", "pop"} => op[t] = "destroys"
    /\ pc[t] = "register" => op[t] \in {"creates", "borrows"}
    /\ pc[t] = "register" /\ op[t] = "borrows" =>
          \/ ret[t] = Static
          \/ /\ hid[t] \in Live /\ ret[t] \in Allocated
             /\ items[hid[t]] \in Allocated
             /\ heap[ret[t]] = heap[items[hid[t]]]

CallTypes ==
    /\ pool \in Pools
    /\ pc \in [Threads -> Steps] /\ op \in [Threads -> Lifecycles]
    /\ DOMAIN hid = Threads /\ DOMAIN pointer = Threads /\ DOMAIN ret = Threads

CallsInv == CallTypes /\ Disjoint /\ \A t \in Threads : CallOK(t)

WorkerInv == HandlesInv /\ CallsInv /\ faults = {}

-----------------------------------------------------------------------------
(* Families.                                                               *)

\* A family is its handle and everything that handle was derived from, all of it
\* in the table; the family of a member is part of it.
LEMMA FamilyFacts ==
    ASSUME TreeInv
    PROVE  /\ None \notin Live
           /\ \A g \in Live : /\ Family(g) = {g} \cup lineage[g]
                              /\ Family(g) \subseteq Live
                              /\ \A h \in Family(g) : Family(h) \subseteq Family(g)
           /\ \A g : g \notin Live => Family(g) = {g}
<1>1. None \notin Live /\ Live \subseteq Issued
    BY IdTypes DEF TreeInv, None
<1>2. \A g \in Live : Family(g) = {g} \cup lineage[g] /\ lineage[g] \subseteq Live
    BY DEF Family, TreeInv, LineageLive
<1>3. \A g \in Live : \A h \in lineage[g] : lineage[h] \subseteq lineage[g]
    BY <1>1 DEF TreeInv, LineageTransitive
<1> QED
    BY <1>1, <1>2, <1>3 DEF Family

\* Everything a sound handle was derived from is sound.
LEMMA SoundFamily ==
    ASSUME TreeInv, NEW g \in Sound, NEW h \in Family(g)
    PROVE  h \in Sound
BY FamilyFacts DEF Sound

\* A sound owned handle points to the root of a tree.
LEMMA SoundOwnerIsRoot ==
    ASSUME HandlesInv, NEW g \in Sound, owned[g]
    PROVE  items[g] \in Roots /\ Family(g) = {g}
<1>1. g \in Live /\ lineage[g] = {}
    BY DEF Sound, HandlesInv, OwnedUnderived
<1>2. Family(g) = {g}
    BY <1>1, FamilyFacts DEF HandlesInv
<1> QED
    BY <1>1, <1>2 DEF HandlesInv, Rooted, OwnedAllocated, Roots

\* Another thread that is about to pop a handle holds one, of another family.
LEMMA OthersApart ==
    ASSUME WorkerInv, NEW t \in Threads, NEW u \in Threads, t # u,
           InFlight(t), InFlight(u), hid[t] # None, hid[u] # None
    PROVE  Family(hid[t]) \cap Family(hid[u]) = {}
BY DEF WorkerInv, CallsInv, Disjoint, SameTree

\* A thread about to pop holds an owned handle of the table.
LEMMA PoppersHold ==
    ASSUME WorkerInv, NEW u \in Threads, pc[u] = "pop"
    PROVE  InFlight(u) /\ hid[u] \in Live /\ owned[hid[u]] /\ hid[u] # None
<1>1. hid[u] \in Live /\ owned[hid[u]]
    BY DEF WorkerInv, CallsInv, CallOK
<1>2. None \notin Live
    BY FamilyFacts DEF WorkerInv, HandlesInv
<1> QED
    BY <1>1, <1>2 DEF InFlight

\* The handle argument of a call that is not itself about to pop it is sound.
LEMMA ArgumentIsSound ==
    ASSUME WorkerInv, NEW t \in Threads, InFlight(t), pc[t] # "pop", hid[t] \in Live
    PROVE  hid[t] \in Sound
<1>1. None \notin Live
    BY FamilyFacts DEF WorkerInv, HandlesInv
<1>2. ASSUME NEW u \in Threads, pc[u] = "pop"
      PROVE  hid[u] \notin Family(hid[t])
    <2>1. InFlight(u) /\ hid[u] # None /\ u # t
        BY <1>2, PoppersHold
    <2>2. hid[u] \in Family(hid[u])
        BY DEF Family
    <2> QED
        BY <1>1, <2>1, <2>2, OthersApart
<1> QED
    BY <1>2 DEF Sound, Dying

-----------------------------------------------------------------------------
(* What one step of one thread leaves alone.                               *)

OnlyThread(t) ==
    /\ pool' = pool /\ idioms' = idioms
    /\ \A u \in Threads \ {t} :
          /\ pc'[u] = pc[u] /\ op'[u] = op[u] /\ hid'[u] = hid[u]
          /\ pointer'[u] = pointer[u] /\ ret'[u] = ret[u]

\* The steps of a thread are its own.
LEMMA StepFrame ==
    ASSUME CallTypes, NEW t \in Threads,
           \/ \E lifecycle \in Lifecycles, h \in Handles \cup {None} : Start(t, lifecycle, h)
           \/ Step(t)
    PROVE  OnlyThread(t) /\ CallTypes'
<1>1. ASSUME NEW s \in Steps, Go(t, s)
      PROVE  /\ pool' = pool /\ pc' \in [Threads -> Steps] /\ pc'[t] = s
             /\ \A u \in Threads \ {t} : pc'[u] = pc[u]
    BY <1>1 DEF Go, CallTypes
<1>2. ASSUME Return(t)
      PROVE  /\ pool' = pool /\ pc' \in [Threads -> Steps]
             /\ DOMAIN hid' = Threads /\ DOMAIN pointer' = Threads /\ DOMAIN ret' = Threads
             /\ \A u \in Threads \ {t} :
                    /\ pc'[u] = pc[u] /\ hid'[u] = hid[u]
                    /\ pointer'[u] = pointer[u] /\ ret'[u] = ret[u]
    BY <1>2 DEF Return, Go, CallTypes, Steps
<1>3. ASSUME NEW lifecycle \in Lifecycles, NEW h \in Handles \cup {None},
             Start(t, lifecycle, h)
      PROVE  OnlyThread(t) /\ CallTypes'
    <2>1. \E s \in Steps : Go(t, s)
        BY <1>3 DEF Start, Steps
    <2> QED
        BY <1>1, <1>3, <2>1 DEF Start, OnlyThread, CallTypes, capVars
<1>4. CASE Check(t)
    <2>1. CASE Go(t, "resolve") /\ UNCHANGED <<hid, pointer, ret>>
        BY <1>1, <1>4, <2>1 DEF Check, OnlyThread, CallTypes, capVars, Steps
    <2>2. CASE Return(t)
        BY <1>2, <1>4, <2>2 DEF Check, OnlyThread, CallTypes, capVars
    <2> QED
        BY <1>4, <2>1, <2>2 DEF Check
<1>5. CASE Resolve(t)
    <2>1. CASE Return(t)
        BY <1>2, <1>5, <2>1 DEF Resolve, OnlyThread, CallTypes, capVars
    <2>2. CASE ~Return(t)
        BY <1>1, <1>5, <2>2 DEF Resolve, OnlyThread, CallTypes, capVars, Steps
    <2> QED
        BY <2>1, <2>2
<1>6. CASE CallC(t)
    <2>1. op' = op /\ idioms' = idioms
        BY <1>6 DEF CallC
    <2>2. \/ Return(t)
          \/ /\ Go(t, "register") \/ Go(t, "pop")
             /\ UNCHANGED <<hid, pointer>>
             /\ ret' = ret \/ \E p : ret' = [ret EXCEPT ![t] = p]
        BY <1>6 DEF CallC
    <2>3. CASE Return(t)
        BY <1>2, <2>1, <2>3 DEF OnlyThread, CallTypes
    <2>4. CASE /\ Go(t, "register") \/ Go(t, "pop")
               /\ UNCHANGED <<hid, pointer>>
               /\ ret' = ret \/ \E p : ret' = [ret EXCEPT ![t] = p]
        BY <1>1, <2>1, <2>4 DEF OnlyThread, CallTypes, Steps
    <2> QED
        BY <2>2, <2>3, <2>4
<1>7. CASE RegisterResult(t) \/ PopHandle(t)
    BY <1>2, <1>7 DEF RegisterResult, PopHandle, OnlyThread, CallTypes
<1> QED
    BY <1>3, <1>4, <1>5, <1>6, <1>7 DEF Step

\* The facts another thread relies on survive when its handle, and what it borrowed,
\* do.
LEMMA OthersKeep ==
    ASSUME WorkerInv, NEW t \in Threads, OnlyThread(t), NEW u \in Threads \ {t},
           hid[u] \in Live =>
              /\ hid[u] \in Live' /\ items'[hid[u]] = items[hid[u]]
              /\ owned'[hid[u]] <=> owned[hid[u]],
           hid[u] \in Live /\ pc[u] = "register" /\ ret[u] \in Allocated
              /\ items[hid[u]] \in Allocated /\ heap[ret[u]] = heap[items[hid[u]]] =>
              /\ ret[u] \in Allocated' /\ items[hid[u]] \in Allocated'
              /\ heap'[ret[u]] = heap'[items[hid[u]]]
    PROVE  CallOK(u)'
<1>1. CallOK(u)
    BY DEF WorkerInv, CallsInv
<1>2. /\ pool' = pool /\ pc'[u] = pc[u] /\ op'[u] = op[u] /\ hid'[u] = hid[u]
      /\ pointer'[u] = pointer[u] /\ ret'[u] = ret[u]
    BY DEF OnlyThread
<1>3. None \notin Live
    BY FamilyFacts DEF WorkerInv, HandlesInv
<1> QED
    BY <1>1, <1>2, <1>3 DEF CallOK, InFlight

\* Calls under way stay apart when no family of theirs grows.
LEMMA StayApart ==
    ASSUME WorkerInv, NEW t \in Threads, OnlyThread(t),
           InFlight(t)' => InFlight(t) /\ hid'[t] \in {hid[t], None},
           \A u \in Threads : InFlight(u)' => Family(hid[u])' \subseteq Family(hid[u])
    PROVE  Disjoint'
<1> SUFFICES ASSUME NEW u \in Threads, NEW v \in Threads, u # v,
                    InFlight(u)', InFlight(v)', SameTree(hid[u], hid[v])'
             PROVE  FALSE
    BY DEF Disjoint
<1>1. /\ InFlight(u) /\ hid'[u] \in {hid[u], None}
      /\ InFlight(v) /\ hid'[v] \in {hid[v], None}
    BY DEF OnlyThread, InFlight
<1>2. /\ hid'[u] # None /\ hid'[v] # None
      /\ Family(hid[u])' \cap Family(hid[v])' # {}
    BY DEF SameTree, None
<1>3. hid[u] # None /\ hid[v] # None
    BY <1>1, <1>2
<1>4. Family(hid[u]) \cap Family(hid[v]) = {}
    BY <1>1, <1>3, OthersApart
<1> QED
    BY <1>2, <1>4

-----------------------------------------------------------------------------
(* What a step does to the handles.                                        *)

\* The threads whose calls are not about to pop, before and after.
LEMMA SameDying ==
    ASSUME NEW t \in Threads, OnlyThread(t), pc[t] # "pop", pc'[t] # "pop"
    PROVE  Dying' = Dying
BY DEF OnlyThread, Dying

\* A step that neither begins nor ends a wait for a first handle.
LEMMA SameNewborns ==
    ASSUME NEW t \in Threads, OnlyThread(t), ~Newborn(t), ~Newborn(t)'
    PROVE  \A u \in Threads : /\ Newborn(u)' <=> Newborn(u)
                              /\ Newborn(u) => ret'[u] = ret[u]
BY DEF OnlyThread, Newborn

\* With the table the same, so are the families.
LEMMA SameTable ==
    ASSUME UNCHANGED vars
    PROVE  /\ Live' = Live /\ items' = items /\ owned' = owned /\ lineage' = lineage
           /\ \A g : Family(g)' = Family(g)
           /\ TreeInv => TreeInv'
           /\ OwnedUnderived => OwnedUnderived'
           /\ OwnedAllocated => OwnedAllocated'
<1>1. /\ Live' = Live /\ items' = items /\ owned' = owned /\ lineage' = lineage
    BY DEF vars, tableVars, historyVars, Live
<1>2. TreeInv => TreeInv'
    BY NextKeepsTree
<1> QED
    BY <1>1, <1>2 DEF Family, OwnedUnderived, OwnedAllocated

\* A step that touches neither the table nor the heap, at no decisive moment.
LEMMA QuietKeeps ==
    ASSUME WorkerInv, NEW t \in Threads, OnlyThread(t), UNCHANGED <<vars, heap>>,
           pc[t] # "pop", pc'[t] # "pop", ~Newborn(t), ~Newborn(t)'
    PROVE  HandlesInv'
<1>1. /\ Live' = Live /\ items' = items /\ owned' = owned /\ heap' = heap
      /\ \A g : Family(g)' = Family(g)
      /\ TreeInv' /\ OwnedUnderived' /\ OwnedAllocated'
    BY SameTable DEF WorkerInv, HandlesInv
<1>2. Sound' = Sound
    BY <1>1, SameDying DEF Sound
<1>3. Roots' = Roots /\ Allocated' = Allocated /\ HeapInv'
    BY <1>1 DEF Roots, Allocated, HeapInv, WorkerInv, HandlesInv
<1>4. Rooted' /\ OneOwner'
    BY <1>1, <1>2, <1>3 DEF Rooted, OneOwner, WorkerInv, HandlesInv
<1>5. Reclaimable' /\ NewbornsApart'
    <2>1. \A u \in Threads : /\ Newborn(u)' <=> Newborn(u)
                             /\ Newborn(u) => ret'[u] = ret[u]
        BY SameNewborns
    <2> QED
        BY <1>1, <1>2, <1>3, <2>1 DEF Reclaimable, NewbornsApart, WorkerInv, HandlesInv
<1> QED
    BY <1>1, <1>3, <1>4, <1>5 DEF HandlesInv

\* creates, in C: a new tree that has no handle yet.
LEMMA TreeAllocated ==
    ASSUME WorkerInv, NEW t \in Threads, OnlyThread(t), UNCHANGED vars,
           NEW root \in Free, NEW nodes \in SUBSET (Free \ {root}), Allocate(root, nodes),
           pc[t] = "callC", pc'[t] = "register", op'[t] = "creates", ret'[t] = root
    PROVE  /\ HandlesInv'
           /\ \A x \in Allocated : x \in Allocated' /\ heap'[x] = heap[x]
<1>1. /\ Live' = Live /\ items' = items /\ owned' = owned
      /\ \A g : Family(g)' = Family(g)
      /\ TreeInv' /\ OwnedUnderived' /\ OwnedAllocated'
    BY SameTable DEF WorkerInv, HandlesInv
<1>2. Sound' = Sound
    BY <1>1, SameDying DEF Sound
<1>3. /\ Allocated' = Allocated \cup {root} \cup nodes
      /\ \A x \in Allocated : heap'[x] = heap[x]
      /\ \A x \in {root} \cup nodes : heap'[x] = root
      /\ Free \cap Allocated = {} /\ Free \subseteq Addresses
    <2>1. Free \cap Allocated = {} /\ Free \subseteq Addresses
        BY DEF Free
    <2> QED
        BY <2>1, AllocateEffect
<1>4. Roots' = Roots \cup {root} /\ HeapInv'
    BY <1>3 DEF Roots, HeapInv, WorkerInv, HandlesInv
<1>5. \A g \in Sound : items[g] # root
    <2>1. root # Static
        BY <1>3, DistinctAssumption
    <2> QED
        BY <1>3, <2>1 DEF WorkerInv, HandlesInv, Rooted
<1>6. Rooted'
    <2>1. \A x \in Allocated : x \in Allocated' /\ heap'[x] = heap[x]
        BY <1>3
    <2> QED
        BY <1>1, <1>2, <2>1 DEF Rooted, WorkerInv, HandlesInv
<1>7. OneOwner'
    BY <1>1, <1>2 DEF OneOwner, WorkerInv, HandlesInv
<1>8. /\ ~Newborn(t) /\ Newborn(t)'
      /\ \A u \in Threads \ {t} : (Newborn(u)' <=> Newborn(u)) /\ ret'[u] = ret[u]
    BY DEF Newborn, OnlyThread
<1>9. Reclaimable'
    BY <1>1, <1>2, <1>4, <1>8 DEF Reclaimable, WorkerInv, HandlesInv
<1>10. NewbornsApart'
    <2>1. \A u \in Threads : Newborn(u) => ret[u] # root
        BY <1>3 DEF NewbornsApart, WorkerInv, HandlesInv, Roots
    <2> QED
        BY <1>1, <1>2, <1>4, <1>5, <1>8, <2>1 DEF NewbornsApart, WorkerInv, HandlesInv
<1> QED
    BY <1>1, <1>3, <1>4, <1>6, <1>7, <1>9, <1>10 DEF HandlesInv

\* uses, in C: a new node in the tree of the argument.
LEMMA NodeAllocated ==
    ASSUME WorkerInv, NEW t \in Threads, OnlyThread(t), UNCHANGED vars,
           NEW a \in Allocated, NEW n \in Free, Allocate(heap[a], {n}),
           pc[t] # "pop", pc'[t] # "pop", ~Newborn(t), ~Newborn(t)'
    PROVE  /\ HandlesInv'
           /\ \A x \in Allocated : x \in Allocated' /\ heap'[x] = heap[x]
<1>1. /\ Live' = Live /\ items' = items /\ owned' = owned
      /\ \A g : Family(g)' = Family(g)
      /\ TreeInv' /\ OwnedUnderived' /\ OwnedAllocated'
    BY SameTable DEF WorkerInv, HandlesInv
<1>2. Sound' = Sound
    BY <1>1, SameDying DEF Sound
<1>3. /\ Allocated' = Allocated \cup {n}
      /\ \A x \in Allocated : heap'[x] = heap[x]
      /\ heap'[n] = heap[a] /\ heap[a] \in Roots
      /\ n \notin Allocated /\ n \in Addresses
    <2>1. n \notin Allocated /\ n \in Addresses
        BY DEF Free
    <2>2. heap[a] \in Roots /\ heap[a] \in Allocated
        BY DEF WorkerInv, HandlesInv, HeapInv, Roots
    <2> QED
        BY <2>1, <2>2, AllocateEffect
<1>4. Roots' = Roots /\ HeapInv'
    BY <1>3 DEF Roots, HeapInv, WorkerInv, HandlesInv
<1>5. Rooted'
    <2>1. \A x \in Allocated : x \in Allocated' /\ heap'[x] = heap[x]
        BY <1>3
    <2> QED
        BY <1>1, <1>2, <2>1 DEF Rooted, WorkerInv, HandlesInv
<1>6. OneOwner'
    BY <1>1, <1>2 DEF OneOwner, WorkerInv, HandlesInv
<1>7. Reclaimable' /\ NewbornsApart'
    <2>1. \A u \in Threads : /\ Newborn(u)' <=> Newborn(u)
                             /\ Newborn(u) => ret'[u] = ret[u]
        BY SameNewborns
    <2> QED
        BY <1>1, <1>2, <1>4, <2>1 DEF Reclaimable, NewbornsApart, WorkerInv, HandlesInv
<1> QED
    BY <1>1, <1>3, <1>4, <1>5, <1>6, <1>7 DEF HandlesInv

\* destroys, in C: the tree of the argument is gone, and with it every handle of
\* the argument's family is as good as dead, though still in the table.
LEMMA TreeFreed ==
    ASSUME WorkerInv, NEW t \in Threads, OnlyThread(t), UNCHANGED vars,
           pc[t] = "callC", op[t] = "destroys", hid'[t] = hid[t], pc'[t] = "pop",
           heap' = Without(heap, Tree(items[hid[t]]))
    PROVE  /\ HandlesInv'
           /\ \A g \in Sound : hid[t] \notin Family(g) /\ items[g] \in Allocated =>
                 items[g] \in Allocated' /\ heap[items[g]] # items[hid[t]]
           /\ \A x \in Allocated : heap[x] # items[hid[t]] =>
                 x \in Allocated' /\ heap'[x] = heap[x]
<1> DEFINE h == hid[t]
           r == items[h]
<1>1. /\ Live' = Live /\ items' = items /\ owned' = owned
      /\ \A g : Family(g)' = Family(g)
      /\ TreeInv' /\ OwnedUnderived' /\ OwnedAllocated'
    BY SameTable DEF WorkerInv, HandlesInv
<1>2. h \in Sound /\ owned[h] /\ r \in Roots
    <2>1. h \in Live /\ owned[h]
        BY DEF WorkerInv, CallsInv, CallOK
    <2>2. h \in Sound
        BY <2>1, ArgumentIsSound DEF InFlight
    <2> QED
        BY <2>1, <2>2, SoundOwnerIsRoot DEF WorkerInv
<1>3. Dying' = Dying \cup {h}
    BY DEF Dying, OnlyThread
<1>4. Sound' = {g \in Sound : h \notin Family(g)}
    BY <1>1, <1>3 DEF Sound
<1>5. /\ Allocated' = Allocated \ Tree(r)
      /\ \A x \in Allocated' : heap'[x] = heap[x]
      /\ \A x \in Allocated : heap[x] # r => x \in Allocated'
      /\ Roots' = Roots \ {r}
    BY <1>2 DEF Without, Allocated, Tree, Roots
<1>6. HeapInv'
    BY <1>5 DEF HeapInv, WorkerInv, HandlesInv, Tree
<1>7. ASSUME NEW g \in Sound, h \notin Family(g), items[g] \in Allocated
      PROVE  items[g] \in Allocated' /\ heap[items[g]] # r
    <2>1. items[g] # Static
        BY <1>7, DistinctAssumption DEF WorkerInv, HandlesInv, HeapInv
    <2>2. PICK k \in Family(g) : owned[k] /\ items[k] = heap[items[g]]
        BY <2>1 DEF WorkerInv, HandlesInv, Rooted
    <2>3. k \in Sound
        BY <2>2, SoundFamily DEF WorkerInv, HandlesInv
    <2>4. heap[items[g]] # r
        BY <1>2, <1>7, <2>2, <2>3 DEF WorkerInv, HandlesInv, OneOwner
    <2> QED
        BY <1>5, <1>7, <2>4
<1>8. Rooted'
    <2>1. ASSUME NEW g \in Sound'
          PROVE  \/ items'[g] = Static
                 \/ /\ items'[g] \in Allocated'
                    /\ \E k \in Family(g)' : owned'[k] /\ items'[k] = heap'[items'[g]]
        <3>1. g \in Sound /\ h \notin Family(g)
            BY <1>4
        <3>2. CASE items[g] = Static
            BY <1>1, <3>2
        <3>3. CASE items[g] # Static
            <4>1. /\ items[g] \in Allocated
                  /\ \E k \in Family(g) : owned[k] /\ items[k] = heap[items[g]]
                BY <3>1, <3>3 DEF WorkerInv, HandlesInv, Rooted
            <4>2. items[g] \in Allocated' /\ heap'[items[g]] = heap[items[g]]
                BY <1>5, <1>7, <3>1, <4>1
            <4> QED
                BY <1>1, <4>1, <4>2
        <3> QED
            BY <3>2, <3>3
    <2> QED
        BY <2>1 DEF Rooted
<1>9. OneOwner'
    BY <1>1, <1>4 DEF OneOwner, WorkerInv, HandlesInv
<1>10. /\ ~Newborn(t) /\ ~Newborn(t)'
       /\ \A u \in Threads : /\ Newborn(u)' <=> Newborn(u)
                             /\ Newborn(u) => ret'[u] = ret[u]
    <2>1. ~Newborn(t) /\ ~Newborn(t)'
        BY DEF Newborn
    <2> QED
        BY <2>1, SameNewborns
<1>11. Reclaimable'
    <2>1. ASSUME NEW q \in Roots, q # r, NEW k \in Sound, owned[k], items[k] = q
          PROVE  k \in Sound'
        <3>1. Family(k) = {k} /\ k # h
            BY <2>1, SoundOwnerIsRoot DEF WorkerInv
        <3> QED
            BY <1>4, <2>1, <3>1
    <2> QED
        BY <1>1, <1>5, <1>10, <2>1 DEF Reclaimable, WorkerInv, HandlesInv
<1>12. NewbornsApart'
    <2>1. \A u \in Threads : Newborn(u) => ret[u] # r
        BY <1>2 DEF NewbornsApart, WorkerInv, HandlesInv
    <2> QED
        BY <1>1, <1>4, <1>5, <1>10, <2>1 DEF NewbornsApart, WorkerInv, HandlesInv
<1> QED
    BY <1>1, <1>5, <1>6, <1>7, <1>8, <1>9, <1>11, <1>12 DEF HandlesInv

\* put, after creates and borrows: the new handle is sound, and every other stays so.
LEMMA Registered ==
    ASSUME WorkerInv, NEW t \in Threads, OnlyThread(t), UNCHANGED heap,
           RegisterResult(t), pc'[t] = "idle", NEW n, n = nextId
    PROVE  /\ HandlesInv'
           /\ \A x \in Live : /\ x \in Live' /\ items'[x] = items[x]
                              /\ owned'[x] <=> owned[x]
                              /\ Family(x)' = Family(x)
           /\ Live' = Live \cup {n} /\ n \notin Live /\ n # None
           /\ \/ Family(n)' = {n}
              \/ hid[t] \in Live /\ Family(n)' = {n} \cup Family(hid[t])
           /\ \A x \in Live : n \notin Family(x)
<1> DEFINE par == IF op[t] = "borrows" THEN hid[t] ELSE None
           own == op[t] = "creates"
<1>1. pc[t] = "register" /\ Put(ret[t], own, par)
    BY DEF RegisterResult
<1>2. CallOK(t) /\ TreeInv /\ None \notin Live
    BY FamilyFacts DEF WorkerInv, CallsInv, HandlesInv
<1>3. op[t] \in {"creates", "borrows"} /\ par \in Live \cup {None} /\ own \in BOOLEAN
    BY <1>1, <1>2 DEF CallOK
<1>4. /\ n \notin Live /\ Live' = Live \cup {n}
      /\ items'[n] = ret[t] /\ (owned'[n] <=> own)
      /\ lineage'[n] = IF par \in Live THEN lineage[par] \cup {par} ELSE {}
      /\ \A x \in Live : /\ items'[x] = items[x] /\ (owned'[x] <=> owned[x])
                         /\ lineage'[x] = lineage[x]
    <2> HIDE DEF par, own
    <2>1. /\ nextId \notin Live /\ Live' = Live \cup {nextId}
          /\ items'[nextId] = ret[t] /\ (owned'[nextId] <=> own)
          /\ lineage'[nextId] = IF par \in Live THEN lineage[par] \cup {par} ELSE {}
          /\ \A x \in Live : /\ items'[x] = items[x] /\ (owned'[x] <=> owned[x])
                             /\ lineage'[x] = lineage[x]
        BY <1>1, <1>2, <1>3, PutEffect
    <2> QED
        BY <2>1
<1>5. /\ \A x \in Live : Family(x)' = Family(x)
      /\ Family(n)' = {n} \cup (IF par \in Live THEN Family(par) ELSE {})
    BY <1>4 DEF Family
<1>6. ret[t] \in Roots \/ (op[t] = "borrows" /\ ret[t] \in Allocated \cup {Static})
    BY <1>1, <1>2, <1>3 DEF CallOK, WorkerInv, HandlesInv, NewbornsApart, Newborn
<1>7. TreeInv'
    <2>1. ret[t] \in Objects
        BY <1>6, ObjectsAssumption DEF WorkerInv, HandlesInv, HeapInv, Roots
    <2>2. par \in Issued \cup {None}
        BY <1>2, <1>3, IdTypes DEF TreeInv
    <2> HIDE DEF par, own
    <2> QED
        BY <1>1, <1>2, <1>3, <2>1, <2>2, PutKeepsTree
<1>8. Dying' = Dying /\ Dying \subseteq Live
    <2>1. Dying' = Dying
        BY <1>1, SameDying
    <2> QED
        BY <2>1, PoppersHold DEF Dying
<1>9. Sound' = Sound \cup {n} /\ (par \in Live => par \in Sound)
    <2>1. par \in Live => par \in Sound
        BY <1>1, ArgumentIsSound, <1>2 DEF InFlight
    <2>2. Family(n)' \cap Dying = {}
        BY <1>4, <1>5, <1>8, <2>1 DEF Sound
    <2> QED
        BY <1>4, <1>5, <1>8, <2>1, <2>2 DEF Sound
<1>10. Roots' = Roots /\ Allocated' = Allocated /\ HeapInv'
    BY DEF Roots, Allocated, HeapInv, WorkerInv, HandlesInv
<1>11. OwnedUnderived' /\ OwnedAllocated'
    <2>1. own => lineage'[n] = {} /\ ret[t] # Static
        <3>1. Static \notin Allocated
            BY DistinctAssumption DEF WorkerInv, HandlesInv, HeapInv
        <3> QED
            BY <1>2, <1>4, <1>6, <3>1 DEF Roots
    <2> QED
        BY <1>4, <2>1 DEF OwnedUnderived, OwnedAllocated, WorkerInv, HandlesInv
<1>12. Rooted'
    <2>1. ASSUME NEW g \in Sound
          PROVE  \/ items'[g] = Static
                 \/ /\ items'[g] \in Allocated'
                    /\ \E k \in Family(g)' : owned'[k] /\ items'[k] = heap'[items'[g]]
        <3>1. g \in Live /\ Family(g) \subseteq Live
            BY <1>2, FamilyFacts DEF Sound
        <3> QED
            BY <1>4, <1>5, <1>10, <3>1 DEF Rooted, WorkerInv, HandlesInv
    <2>2. \/ items'[n] = Static
          \/ /\ items'[n] \in Allocated'
             /\ \E k \in Family(n)' : owned'[k] /\ items'[k] = heap'[items'[n]]
        <3>1. CASE own
            BY <1>3, <1>4, <1>5, <1>6, <1>10, <3>1 DEF Roots
        <3>2. CASE ~own /\ ret[t] # Static
            <4>1. /\ par \in Sound /\ ret[t] \in Allocated
                  /\ items[par] \in Allocated /\ heap[ret[t]] = heap[items[par]]
                BY <1>1, <1>2, <1>3, <1>9, <3>2 DEF CallOK
            <4>2. items[par] # Static
                BY <4>1, DistinctAssumption DEF WorkerInv, HandlesInv, HeapInv
            <4>3. PICK k \in Family(par) : owned[k] /\ items[k] = heap[items[par]]
                BY <4>1, <4>2 DEF Rooted, WorkerInv, HandlesInv
            <4>4. k \in Live /\ k \in Family(n)'
                BY <1>2, <1>5, <4>1, <4>3, FamilyFacts DEF Sound
            <4> QED
                BY <1>4, <1>10, <4>1, <4>3, <4>4
        <3>3. CASE ret[t] = Static
            BY <1>4, <3>3
        <3> QED
            BY <3>1, <3>2, <3>3
    <2> QED
        BY <1>9, <2>1, <2>2 DEF Rooted
<1>13. /\ ~Newborn(t)' /\ (Newborn(t) <=> own)
       /\ \A u \in Threads \ {t} : (Newborn(u)' <=> Newborn(u)) /\ ret'[u] = ret[u]
    BY <1>1 DEF Newborn, OnlyThread
<1>14. OneOwner'
    <2>1. own => \A g \in Sound : owned[g] => items[g] # ret[t]
        BY <1>13 DEF NewbornsApart, WorkerInv, HandlesInv
    <2>2. Sound \subseteq Live
        BY DEF Sound
    <2> QED
        BY <1>4, <1>9, <2>1, <2>2 DEF OneOwner, WorkerInv, HandlesInv
<1>15. Reclaimable'
    <2>1. Sound \subseteq Live
        BY DEF Sound
    <2> QED
        BY <1>4, <1>9, <1>10, <1>13, <2>1 DEF Reclaimable, WorkerInv, HandlesInv
<1>16. NewbornsApart'
    <2>1. Sound \subseteq Live
        BY DEF Sound
    <2>2. \A u \in Threads \ {t} : own /\ Newborn(u) => ret[u] # ret[t]
        BY <1>13 DEF NewbornsApart, WorkerInv, HandlesInv
    <2> QED
        BY <1>4, <1>9, <1>10, <1>13, <2>1, <2>2 DEF NewbornsApart, WorkerInv, HandlesInv
<1>17. /\ \/ Family(n)' = {n}
          \/ hid[t] \in Live /\ Family(n)' = {n} \cup Family(hid[t])
       /\ n # None
    <2>1. nextId # None
        BY DEF TreeInv, TypeOK, None, WorkerInv, HandlesInv
    <2> QED
        BY <1>2, <1>5, <2>1
<1>18. \A x \in Live : n \notin Family(x)
    BY <1>2, <1>4, FamilyFacts
<1> QED
    BY <1>4, <1>5, <1>7, <1>10, <1>11, <1>12, <1>14, <1>15, <1>16, <1>17, <1>18 DEF HandlesInv

\* pop_cascade, after destroys: what leaves the table was unsound already.
LEMMA Popped ==
    ASSUME WorkerInv, NEW t \in Threads, OnlyThread(t), UNCHANGED heap,
           pc[t] = "pop", pc'[t] = "idle", PopCascade(hid[t])
    PROVE  /\ HandlesInv'
           /\ Live' = {x \in Live : hid[t] \notin Family(x)}
           /\ \A x \in Live' : /\ items'[x] = items[x]
                               /\ owned'[x] <=> owned[x]
                               /\ Family(x)' = Family(x)
<1> DEFINE h == hid[t]
<1>1. h \in Live /\ h \in Handles /\ InFlight(t) /\ h # None /\ TreeInv
    <2>1. h \in Live /\ InFlight(t) /\ TreeInv /\ h # None
        BY PoppersHold DEF WorkerInv, HandlesInv
    <2>2. h \in 1 .. (nextId - 1) /\ nextId \in 1 .. (MaxHandles + 1)
        BY <2>1, IdTypes DEF TreeInv, TypeOK, Issued
    <2> QED
        BY <2>1, <2>2, MaxHandlesAssumption DEF Handles
<1>2. /\ Live' = Live \ ({h} \cup {x \in Live : h \in lineage[x]})
      /\ \A x \in Live' : /\ items'[x] = items[x] /\ (owned'[x] <=> owned[x])
                          /\ lineage'[x] = lineage[x]
    BY <1>1, PopEffect
<1>3. TreeInv'
    BY <1>1, PopKeepsTree
<1>4. /\ Live' = {x \in Live : h \notin Family(x)}
      /\ \A x \in Live' : Family(x)' = Family(x)
    BY <1>1, <1>2, FamilyFacts DEF Family
<1>5. Dying = Dying' \cup {h} /\ h \notin Dying'
    <2>1. ASSUME NEW u \in Threads \ {t}, pc[u] = "pop"
          PROVE  hid[u] # h
        <3>1. Family(h) \cap Family(hid[u]) = {}
            BY <1>1, <2>1, PoppersHold, OthersApart
        <3> QED
            BY <3>1 DEF Family
    <2> QED
        BY <2>1 DEF Dying, OnlyThread
<1>6. Sound' = Sound
    BY <1>4, <1>5 DEF Sound
<1>7. \A x \in Sound : x \in Live' /\ \A y \in Family(x) : y \in Live'
    <2>1. \A x \in Sound : x \in Live'
        BY <1>6 DEF Sound
    <2> QED
        BY <1>1, <2>1, SoundFamily
<1>8. Roots' = Roots /\ Allocated' = Allocated /\ HeapInv'
    BY DEF Roots, Allocated, HeapInv, WorkerInv, HandlesInv
<1>9. OwnedUnderived' /\ OwnedAllocated'
    BY <1>2 DEF OwnedUnderived, OwnedAllocated, WorkerInv, HandlesInv
<1>10. Rooted'
    <2>1. ASSUME NEW g \in Sound'
          PROVE  \/ items'[g] = Static
                 \/ /\ items'[g] \in Allocated'
                    /\ \E k \in Family(g)' : owned'[k] /\ items'[k] = heap'[items'[g]]
        <3>1. g \in Sound /\ g \in Live' /\ Family(g)' = Family(g)
            BY <1>4, <1>6, <1>7
        <3> QED
            BY <1>2, <1>7, <1>8, <3>1 DEF Rooted, WorkerInv, HandlesInv
    <2> QED
        BY <2>1 DEF Rooted
<1>11. OneOwner'
    BY <1>2, <1>6, <1>7 DEF OneOwner, WorkerInv, HandlesInv
<1>12. Reclaimable' /\ NewbornsApart'
    <2>1. \A u \in Threads : /\ Newborn(u)' <=> Newborn(u)
                             /\ Newborn(u) => ret'[u] = ret[u]
        <3>1. ~Newborn(t) /\ ~Newborn(t)'
            BY DEF Newborn
        <3> QED
            BY <3>1, SameNewborns
    <2>2. Reclaimable'
        BY <1>2, <1>6, <1>7, <1>8, <2>1 DEF Reclaimable, WorkerInv, HandlesInv
    <2>3. NewbornsApart'
        BY <1>2, <1>6, <1>7, <1>8, <2>1 DEF NewbornsApart, WorkerInv, HandlesInv
    <2> QED
        BY <2>2, <2>3
<1> QED
    BY <1>2, <1>3, <1>4, <1>8, <1>9, <1>10, <1>11, <1>12 DEF HandlesInv

-----------------------------------------------------------------------------
(* The steps of invoke.                                                    *)

\* With one worker, one call at a time.
LEMMA OneInFlight ==
    ASSUME WorkerInv, OneWorker, NEW t \in pool, NEW u \in pool
    PROVE  t = u
<1>1. IsFiniteSet(pool)
    BY PoolsAssumption DEF WorkerInv, CallsInv, CallTypes
<1>2. \E x : pool = {x}
    BY <1>1, FS_Singleton DEF OneWorker
<1> QED
    BY <1>2

\* A call begins.
LEMMA StartKeeps ==
    ASSUME WorkerInv, Orderly, NEW t \in Threads, NEW lifecycle \in Lifecycles,
           NEW h \in Handles \cup {None}, Start(t, lifecycle, h)
    PROVE  WorkerInv'
<1>1. OnlyThread(t) /\ CallTypes'
    BY StepFrame DEF WorkerInv, CallsInv
<1>2. /\ UNCHANGED vars /\ UNCHANGED heap /\ faults' = {}
      /\ t \in pool /\ pc[t] = "idle"
      /\ pc'[t] \in {"check", "resolve"} /\ (pc'[t] = "check" => op'[t] = "destroys")
      /\ (op'[t] = "destroys" => pc'[t] = "check")
      /\ hid'[t] = h
    BY DEF Start, Go, InFlight, capVars, WorkerInv, CallsInv, CallTypes
<1>3. HandlesInv'
    <2>1. pc[t] # "pop" /\ pc'[t] # "pop" /\ ~Newborn(t) /\ ~Newborn(t)'
        BY <1>2 DEF Newborn
    <2> QED
        BY <1>1, <1>2, <2>1, QuietKeeps
<1>4. /\ Live' = Live /\ items' = items /\ owned' = owned /\ Allocated' = Allocated
      /\ \A g : Family(g)' = Family(g)
    BY <1>2, SameTable DEF Allocated
<1>5. CallOK(t)'
    BY <1>1, <1>2 DEF CallOK, OnlyThread
<1>6. \A u \in Threads \ {t} : CallOK(u)'
    BY <1>1, <1>2, <1>4, OthersKeep
<1>7. Disjoint'
    <2>1. ASSUME NEW u \in Threads \ {t}, InFlight(u)
          PROVE  ~SameTree(hid[u], h)
        <3>1. CASE OneCallPerTree
            BY <2>1, <3>1 DEF Start
        <3>2. CASE OneWorker
            <4>1. u \in pool
                BY <2>1 DEF WorkerInv, CallsInv, CallOK
            <4> QED
                BY <1>2, <3>2, <4>1, OneInFlight
        <3> QED
            BY <3>1, <3>2 DEF Orderly
    <2>2. \A a, b : SameTree(a, b)' <=> SameTree(a, b)
        BY <1>4 DEF SameTree, None
    <2>3. \A a, b : SameTree(a, b) <=> SameTree(b, a)
        BY DEF SameTree
    <2>4. \A u \in Threads \ {t} : hid'[u] = hid[u] /\ (InFlight(u)' <=> InFlight(u))
        BY <1>1 DEF OnlyThread, InFlight
    <2>5. ASSUME NEW u \in Threads, NEW v \in Threads, u # v, InFlight(u)', InFlight(v)'
          PROVE  ~SameTree(hid'[u], hid'[v])
        <3>1. CASE u # t /\ v # t
            BY <2>4, <2>5, <3>1 DEF WorkerInv, CallsInv, Disjoint
        <3>2. CASE u = t
            BY <1>2, <2>1, <2>3, <2>4, <2>5, <3>2
        <3>3. CASE v = t
            BY <1>2, <2>1, <2>4, <2>5, <3>3
        <3> QED
            BY <3>1, <3>2, <3>3
    <2>6. ASSUME NEW u \in Threads, NEW v \in Threads, u # v, InFlight(u)', InFlight(v)'
          PROVE  ~SameTree(hid[u], hid[v])'
        BY <2>5, <2>6, <1>4 DEF SameTree, None
    <2> QED
        BY <2>6 DEF Disjoint
<1> QED
    BY <1>1, <1>2, <1>3, <1>5, <1>6, <1>7 DEF WorkerInv, CallsInv

\* The checks before the C call.
LEMMA LookupKeeps ==
    ASSUME WorkerInv, NEW t \in Threads, Check(t) \/ Resolve(t)
    PROVE  WorkerInv'
<1>1. OnlyThread(t) /\ CallTypes'
    BY StepFrame DEF WorkerInv, CallsInv, Step
<1>2. /\ UNCHANGED vars /\ UNCHANGED heap /\ faults' = {} /\ op' = op
      /\ pc[t] \in {"check", "resolve"} /\ CallOK(t) /\ None \notin Live
    BY FamilyFacts DEF Check, Resolve, capVars, WorkerInv, CallsInv, HandlesInv
<1>3. \/ pc'[t] = "idle"
      \/ /\ pc[t] = "check" /\ pc'[t] = "resolve" /\ hid'[t] = hid[t]
         /\ hid[t] \in Live /\ owned[hid[t]]
      \/ /\ pc[t] = "resolve" /\ pc'[t] = "callC" /\ hid'[t] = hid[t]
         /\ hid[t] \in Live \cup {None}
         /\ pointer'[t] = IF hid[t] = None THEN Null ELSE items[hid[t]]
    BY DEF Check, Resolve, Return, Go, Accepted, WorkerInv, CallsInv, CallTypes
<1>4. HandlesInv'
    <2>1. pc[t] # "pop" /\ pc'[t] # "pop" /\ ~Newborn(t) /\ ~Newborn(t)'
        BY <1>2, <1>3 DEF Newborn
    <2> QED
        BY <1>1, <1>2, <2>1, QuietKeeps
<1>5. /\ Live' = Live /\ items' = items /\ owned' = owned /\ Allocated' = Allocated
      /\ \A g : Family(g)' = Family(g)
    BY <1>2, SameTable DEF Allocated
<1>6. CallOK(t)'
    BY <1>1, <1>2, <1>3, <1>5 DEF CallOK, OnlyThread, InFlight
<1>7. \A u \in Threads \ {t} : CallOK(u)'
    BY <1>1, <1>2, <1>5, OthersKeep
<1>8. Disjoint'
    <2>1. InFlight(t)' => InFlight(t) /\ hid'[t] = hid[t]
        BY <1>2, <1>3 DEF InFlight
    <2>2. \A u \in Threads : InFlight(u)' => hid'[u] = hid[u]
        BY <1>1, <2>1 DEF OnlyThread
    <2>3. \A u \in Threads : InFlight(u)' => Family(hid[u])' \subseteq Family(hid[u])
        BY <1>5, <2>2 DEF Family
    <2> QED
        BY <1>1, <2>1, <2>3, StayApart
<1> QED
    BY <1>1, <1>2, <1>4, <1>6, <1>7, <1>8 DEF WorkerInv, CallsInv

\* What a call hands to C is NULL, static or allocated, and a root if it is to be
\* destroyed: the C function survives.
LEMMA CallSurvives ==
    ASSUME WorkerInv, NEW t \in Threads, pc[t] = "callC"
    PROVE  Survives(t)
<1>1. CallOK(t) /\ InFlight(t)
    BY DEF WorkerInv, CallsInv, InFlight
<1>2. hid[t] # None => hid[t] \in Sound
    BY <1>1, ArgumentIsSound DEF CallOK
<1>3. None \notin Live
    BY FamilyFacts DEF WorkerInv, HandlesInv
<1>4. CASE op[t] = "destroys"
    <2>1. hid[t] \in Live /\ owned[hid[t]] /\ pointer[t] = items[hid[t]]
        BY <1>1, <1>3, <1>4 DEF CallOK
    <2>2. items[hid[t]] \in Roots
        BY <1>2, <1>3, <2>1, SoundOwnerIsRoot DEF WorkerInv
    <2> QED
        BY <1>4, <2>1, <2>2 DEF Survives
<1>5. CASE op[t] # "destroys"
    BY <1>1, <1>2, <1>5 DEF Survives, CallOK, WorkerInv, HandlesInv, Rooted
<1> QED
    BY <1>4, <1>5

\* What CallC does, the C function having survived.
CallEffect(t) ==
    \/ /\ op[t] = "creates" /\ pc'[t] = "register" /\ hid'[t] = hid[t]
       /\ \E root \in Free : \E nodes \in SUBSET (Free \ {root}) :
            Allocate(root, nodes) /\ ret'[t] = root
    \/ /\ op[t] = "borrows" /\ pc'[t] = "register" /\ hid'[t] = hid[t]
       /\ ret'[t] \in Within(pointer[t]) \ {Null} /\ UNCHANGED heap
    \/ /\ op[t] = "uses" /\ pc'[t] = "idle" /\ hid'[t] = None
       /\ pointer[t] \in Allocated
       /\ \E n \in Free : Allocate(heap[pointer[t]], {n})
    \/ /\ op[t] = "destroys" /\ pc'[t] = "pop" /\ hid'[t] = hid[t]
       /\ heap' = Without(heap, Tree(pointer[t]))
    \/ pc'[t] = "idle" /\ hid'[t] = None /\ UNCHANGED heap

\* CallC has one of these effects, and no fault.
LEMMA CallHasEffect ==
    ASSUME WorkerInv, NEW t \in Threads, CallC(t)
    PROVE  CallEffect(t) /\ faults' = {} /\ UNCHANGED vars /\ op' = op /\ before' = heap
<1>1. /\ pc \in [Threads -> Steps]
      /\ DOMAIN hid = Threads /\ DOMAIN ret = Threads
    BY DEF WorkerInv, CallsInv, CallTypes
<1>2. Survives(t) /\ faults = {}
    BY CallSurvives DEF CallC, WorkerInv
<1>3. Return(t) => pc'[t] = "idle" /\ hid'[t] = None
    BY <1>1 DEF Return, Go
<1>4. \A s : Go(t, s) => pc'[t] = s
    BY <1>1 DEF Go
<1>5. UNCHANGED vars /\ faults' = {} /\ op' = op /\ before' = heap
    BY <1>2 DEF CallC
<1>6. CASE /\ op[t] = "creates"
           /\ \E root \in Free : \E nodes \in SUBSET (Free \ {root}) :
                 /\ Allocate(root, nodes)
                 /\ ret' = [ret EXCEPT ![t] = root]
           /\ Go(t, "register") /\ UNCHANGED <<hid, pointer>>
    BY <1>1, <1>4, <1>5, <1>6 DEF CallEffect
<1>7. CASE op[t] = "creates" /\ Return(t) /\ UNCHANGED heap
    BY <1>3, <1>5, <1>7 DEF CallEffect
<1>8. CASE /\ op[t] = "borrows"
           /\ \E p \in Within(pointer[t]) :
                 IF p = Null THEN Return(t)
                 ELSE /\ ret' = [ret EXCEPT ![t] = p]
                      /\ Go(t, "register") /\ UNCHANGED <<hid, pointer>>
           /\ UNCHANGED heap
    <2>1. PICK p \in Within(pointer[t]) :
                 IF p = Null THEN Return(t)
                 ELSE /\ ret' = [ret EXCEPT ![t] = p]
                      /\ Go(t, "register") /\ UNCHANGED <<hid, pointer>>
        BY <1>8
    <2>2. CASE p = Null
        BY <1>3, <1>5, <1>8, <2>1, <2>2 DEF CallEffect
    <2>3. CASE p # Null
        BY <1>1, <1>4, <1>5, <1>8, <2>1, <2>3 DEF CallEffect
    <2> QED
        BY <2>2, <2>3
<1>9. CASE /\ op[t] = "uses"
           /\ \/ UNCHANGED heap
              \/ /\ pointer[t] \in Allocated
                 /\ \E n \in Free : Allocate(heap[pointer[t]], {n})
           /\ Return(t)
    BY <1>3, <1>5, <1>9 DEF CallEffect
<1>10. CASE /\ op[t] = "destroys"
            /\ heap' = Without(heap, Tree(pointer[t]))
            /\ Go(t, "pop") /\ UNCHANGED <<hid, pointer, ret>>
    BY <1>4, <1>5, <1>10 DEF CallEffect
<1> QED
    BY <1>2, <1>6, <1>7, <1>8, <1>9, <1>10 DEF CallC

\* The C call: the calls of other threads keep their handles, and what they borrowed
\* is never in the tree that is destroyed.
LEMMA CallKeeps ==
    ASSUME WorkerInv, NEW t \in Threads, CallC(t)
    PROVE  WorkerInv'
<1>1. OnlyThread(t) /\ CallTypes'
    BY StepFrame DEF WorkerInv, CallsInv, Step
<1>2. CallEffect(t) /\ faults' = {} /\ UNCHANGED vars /\ op' = op
    BY CallHasEffect
<1>3. pc[t] = "callC" /\ InFlight(t) /\ CallOK(t) /\ None \notin Live
    BY FamilyFacts DEF CallC, InFlight, WorkerInv, CallsInv, HandlesInv
<1>4. /\ Live' = Live /\ items' = items /\ owned' = owned
      /\ \A g : Family(g)' = Family(g)
    BY <1>2, SameTable
<1>5. pool' = pool
    BY <1>1 DEF OnlyThread
<1>6. Disjoint'
    <2>1. InFlight(t)' => hid'[t] = hid[t]
        BY <1>2 DEF CallEffect, InFlight
    <2>2. \A u \in Threads : InFlight(u)' => hid'[u] = hid[u]
        BY <1>1, <2>1 DEF OnlyThread
    <2>3. \A u \in Threads : InFlight(u)' => Family(hid[u])' \subseteq Family(hid[u])
        BY <1>4, <2>2 DEF Family
    <2> QED
        BY <1>1, <1>3, <2>1, <2>3, StayApart
<1> SUFFICES HandlesInv' /\ \A u \in Threads : CallOK(u)'
    BY <1>1, <1>2, <1>6 DEF WorkerInv, CallsInv
<1>7. CASE /\ op[t] = "creates" /\ pc'[t] = "register" /\ hid'[t] = hid[t]
           /\ \E root \in Free : \E nodes \in SUBSET (Free \ {root}) :
                Allocate(root, nodes) /\ ret'[t] = root
    <2>1. /\ HandlesInv'
          /\ \A x \in Allocated : x \in Allocated' /\ heap'[x] = heap[x]
        BY <1>1, <1>2, <1>3, <1>7, TreeAllocated
    <2>2. CallOK(t)'
        BY <1>2, <1>3, <1>4, <1>5, <1>7 DEF CallOK, InFlight
    <2>3. \A u \in Threads \ {t} : CallOK(u)'
        BY <1>1, <1>4, <2>1, OthersKeep
    <2> QED
        BY <1>7, <2>1, <2>2, <2>3
<1>8. CASE /\ op[t] = "borrows" /\ pc'[t] = "register" /\ hid'[t] = hid[t]
           /\ ret'[t] \in Within(pointer[t]) \ {Null} /\ UNCHANGED heap
    <2>1. HandlesInv'
        <3>1. ~Newborn(t) /\ ~Newborn(t)' /\ pc'[t] # "pop"
            BY <1>2, <1>3, <1>8 DEF Newborn
        <3> QED
            BY <1>1, <1>2, <1>3, <1>8, <3>1, QuietKeeps
    <2>2. \/ ret'[t] = Static
          \/ /\ hid[t] \in Live /\ ret'[t] \in Allocated
             /\ items[hid[t]] \in Allocated /\ heap[ret'[t]] = heap[items[hid[t]]]
        <3>1. Null \notin Allocated
            BY ObjectsAssumption, DistinctAssumption DEF WorkerInv, HandlesInv, HeapInv
        <3>2. hid[t] \in Live \cup {None} /\ pointer[t] = IF hid[t] = None THEN Null ELSE items[hid[t]]
            BY <1>3 DEF CallOK
        <3> QED
            BY <1>3, <1>8, <3>1, <3>2 DEF Within
    <2>3. Allocated' = Allocated
        BY <1>8 DEF Allocated
    <2>4. CallOK(t)'
        BY <1>2, <1>3, <1>4, <1>5, <1>8, <2>2, <2>3 DEF CallOK, InFlight
    <2>5. \A u \in Threads \ {t} : CallOK(u)'
        BY <1>1, <1>4, <1>8, <2>3, OthersKeep
    <2> QED
        BY <1>8, <2>1, <2>4, <2>5
<1>9. CASE /\ op[t] = "uses" /\ pc'[t] = "idle" /\ hid'[t] = None
           /\ pointer[t] \in Allocated
           /\ \E n \in Free : Allocate(heap[pointer[t]], {n})
    <2>1. /\ HandlesInv'
          /\ \A x \in Allocated : x \in Allocated' /\ heap'[x] = heap[x]
        <3>1. ~Newborn(t) /\ ~Newborn(t)' /\ pc'[t] # "pop"
            BY <1>3, <1>9 DEF Newborn
        <3> QED
            BY <1>1, <1>2, <1>3, <1>9, <3>1, NodeAllocated
    <2>2. CallOK(t)'
        BY <1>9 DEF CallOK, InFlight
    <2>3. \A u \in Threads \ {t} : CallOK(u)'
        BY <1>1, <1>4, <2>1, OthersKeep
    <2> QED
        BY <1>9, <2>1, <2>2, <2>3
<1>10. CASE /\ op[t] = "destroys" /\ pc'[t] = "pop" /\ hid'[t] = hid[t]
           /\ heap' = Without(heap, Tree(pointer[t]))
    <2>1. hid[t] \in Live /\ owned[hid[t]] /\ pointer[t] = items[hid[t]]
        BY <1>3, <1>10 DEF CallOK
    <2>2. /\ HandlesInv'
          /\ \A g \in Sound : hid[t] \notin Family(g) /\ items[g] \in Allocated =>
                items[g] \in Allocated' /\ heap[items[g]] # items[hid[t]]
          /\ \A x \in Allocated : heap[x] # items[hid[t]] =>
                x \in Allocated' /\ heap'[x] = heap[x]
        BY <1>1, <1>2, <1>3, <1>10, <2>1, TreeFreed
    <2>3. CallOK(t)'
        BY <1>2, <1>3, <1>4, <1>5, <1>10, <2>1 DEF CallOK, InFlight
    <2>4. ASSUME NEW u \in Threads \ {t}
          PROVE  CallOK(u)'
        <3>1. ASSUME hid[u] \in Live, pc[u] = "register", ret[u] \in Allocated,
                     items[hid[u]] \in Allocated, heap[ret[u]] = heap[items[hid[u]]]
              PROVE  /\ ret[u] \in Allocated' /\ items[hid[u]] \in Allocated'
                     /\ heap'[ret[u]] = heap'[items[hid[u]]]
            <4>1. InFlight(u) /\ hid[u] \in Sound
                BY <3>1, ArgumentIsSound DEF InFlight
            <4>2. Family(hid[t]) \cap Family(hid[u]) = {}
                BY <1>3, <2>1, <3>1, <4>1, OthersApart
            <4>3. hid[t] \notin Family(hid[u])
                BY <4>2 DEF Family
            <4> QED
                BY <2>2, <3>1, <4>1, <4>3
        <3> QED
            BY <1>1, <1>4, <3>1, OthersKeep
    <2> QED
        BY <1>10, <2>2, <2>3, <2>4
<1>11. CASE pc'[t] = "idle" /\ hid'[t] = None /\ UNCHANGED heap
    <2>1. HandlesInv'
        <3>1. ~Newborn(t) /\ ~Newborn(t)' /\ pc'[t] # "pop"
            BY <1>3, <1>11 DEF Newborn
        <3> QED
            BY <1>1, <1>2, <1>3, <1>11, <3>1, QuietKeeps
    <2>2. CallOK(t)'
        BY <1>11 DEF CallOK, InFlight
    <2>3. Allocated' = Allocated
        BY <1>11 DEF Allocated
    <2>4. \A u \in Threads \ {t} : CallOK(u)'
        BY <1>1, <1>4, <1>11, <2>3, OthersKeep
    <2> QED
        BY <1>11, <2>1, <2>2, <2>4
<1> QED
    BY <1>2, <1>7, <1>8, <1>9, <1>10, <1>11 DEF CallEffect

\* put, after C: the id may be one that other clients have already named.
LEMMA RegisterKeeps ==
    ASSUME WorkerInv, NEW t \in Threads, RegisterResult(t)
    PROVE  WorkerInv'
<1>1. OnlyThread(t) /\ CallTypes'
    BY StepFrame DEF WorkerInv, CallsInv, Step
<1>2. /\ UNCHANGED heap /\ faults' = {} /\ pc[t] = "register" /\ pc'[t] = "idle"
      /\ Allocated' = Allocated
    BY DEF RegisterResult, Return, Go, WorkerInv, CallsInv, CallTypes, Allocated
<1>3. PICK n : n = nextId
    OBVIOUS
<1>4. /\ HandlesInv'
      /\ \A x \in Live : /\ x \in Live' /\ items'[x] = items[x]
                         /\ owned'[x] <=> owned[x]
                         /\ Family(x)' = Family(x)
      /\ Live' = Live \cup {n} /\ n \notin Live /\ n # None
      /\ \/ Family(n)' = {n}
         \/ hid[t] \in Live /\ Family(n)' = {n} \cup Family(hid[t])
      /\ \A x \in Live : n \notin Family(x)
    BY <1>1, <1>2, <1>3, Registered
<1>5. CallOK(t)'
    BY <1>2 DEF CallOK, InFlight
<1>6. \A u \in Threads \ {t} : CallOK(u)'
    BY <1>1, <1>2, <1>4, OthersKeep
<1>7. Disjoint'
    <2>1. None \notin Live
        BY FamilyFacts DEF WorkerInv, HandlesInv
    <2>2. \A x : x # n => Family(x)' = Family(x) /\ n \notin Family(x)
        <3>1. ASSUME NEW x, x # n, x \notin Live
              PROVE  Family(x)' = Family(x) /\ n \notin Family(x)
            BY <1>4, <3>1 DEF Family
        <3> QED
            BY <1>4, <3>1
    <2>3. ASSUME NEW u \in Threads \ {t}, NEW v \in Threads \ {t}, u # v,
                 InFlight(u), InFlight(v), hid[u] # None, hid[v] # None, hid[v] # n,
                 NEW x, x = hid[u], NEW y, y = hid[v]
          PROVE  Family(x)' \cap Family(y)' = {}
        <3>1. Family(x) \cap Family(y) = {} /\ Family(y)' = Family(y) /\ n \notin Family(y)
            BY <2>2, <2>3, OthersApart
        <3>2. CASE x # n
            BY <2>2, <3>1, <3>2
        <3>3. CASE x = n
            <4>1. hid[t] \in Live => Family(hid[t]) \cap Family(y) = {}
                BY <1>2, <2>1, <2>3, OthersApart DEF InFlight
            <4> QED
                BY <1>4, <3>1, <3>3, <4>1
        <3> QED
            BY <3>2, <3>3
    <2>4. ASSUME NEW u \in Threads, NEW v \in Threads, u # v, InFlight(u)', InFlight(v)',
                 NEW x, x = hid'[u], NEW y, y = hid'[v], SameTree(x, y)'
          PROVE  FALSE
        <3>1. /\ u # t /\ v # t /\ InFlight(u) /\ InFlight(v)
              /\ x = hid[u] /\ y = hid[v]
            BY <1>1, <1>2, <2>4 DEF OnlyThread, InFlight
        <3>2. x # None /\ y # None /\ Family(x)' \cap Family(y)' # {}
            BY <2>4 DEF SameTree, None
        <3>3. Family(x) \cap Family(y) = {}
            BY <2>4, <3>1, <3>2, OthersApart
        <3>4. x # y
            BY <3>3 DEF Family
        <3>5. CASE y # n
            BY <2>3, <2>4, <3>1, <3>2, <3>5
        <3>6. CASE x # n
            BY <2>3, <2>4, <3>1, <3>2, <3>6
        <3> QED
            BY <3>4, <3>5, <3>6
    <2>5. ASSUME NEW u \in Threads, NEW v \in Threads, u # v, InFlight(u)', InFlight(v)',
                 SameTree(hid[u], hid[v])'
          PROVE  FALSE
        BY <2>4, <2>5 DEF SameTree, Family
    <2> QED
        BY <2>5 DEF Disjoint
<1> QED
    BY <1>1, <1>2, <1>4, <1>5, <1>6, <1>7 DEF WorkerInv, CallsInv

\* pop_cascade, after C: it takes out the family of the popped handle only.
LEMMA PopKeeps ==
    ASSUME WorkerInv, NEW t \in Threads, PopHandle(t)
    PROVE  WorkerInv' /\ PopCascade(hid[t])
<1>1. OnlyThread(t) /\ CallTypes'
    BY StepFrame DEF WorkerInv, CallsInv, Step
<1>2. /\ UNCHANGED heap /\ faults' = {} /\ pc[t] = "pop" /\ pc'[t] = "idle"
      /\ Allocated' = Allocated
    BY DEF PopHandle, Return, Go, WorkerInv, CallsInv, CallTypes, Allocated
<1>3. PopCascade(hid[t])
    <2>1. hid[t] \in Live /\ owned[hid[t]]
        BY <1>2, PoppersHold
    <2>2. PopVerdict(hid[t]) = "freed"
        BY <2>1 DEF PopVerdict
    <2> QED
        BY <2>2 DEF PopHandle, RefusePop
<1>4. /\ HandlesInv'
      /\ Live' = {x \in Live : hid[t] \notin Family(x)}
      /\ \A x \in Live' : /\ items'[x] = items[x]
                          /\ owned'[x] <=> owned[x]
                          /\ Family(x)' = Family(x)
    BY <1>1, <1>2, <1>3, Popped
<1>5. CallOK(t)'
    BY <1>2 DEF CallOK, InFlight
<1>6. ASSUME NEW u \in Threads \ {t}
      PROVE  CallOK(u)'
    <2>1. CASE ~InFlight(u)
        BY <1>1, <2>1 DEF OnlyThread, CallOK, InFlight
    <2>2. CASE InFlight(u)
        <3>1. hid[u] \in Live => hid[u] \in Live'
            <4>1. InFlight(t) /\ hid[t] # None /\ hid[t] \in Family(hid[t]) /\ None \notin Live
                BY <1>2, PoppersHold, FamilyFacts DEF Family, WorkerInv, HandlesInv
            <4>2. hid[u] \in Live => Family(hid[t]) \cap Family(hid[u]) = {}
                BY <2>2, <4>1, OthersApart
            <4> QED
                BY <1>4, <4>1, <4>2
        <3> QED
            BY <1>1, <1>2, <1>4, <3>1, OthersKeep
    <2> QED
        BY <2>1, <2>2
<1>7. Disjoint'
    <2>1. \A x : Family(x)' \subseteq Family(x)
        <3>1. \A x : x \notin Live' => Family(x)' = {x}
            BY DEF Family
        <3> QED
            BY <1>4, <3>1 DEF Family
    <2>2. ASSUME NEW u \in Threads, InFlight(u)'
          PROVE  Family(hid[u])' \subseteq Family(hid[u])
        <3>1. hid'[u] = hid[u]
            BY <1>1, <1>2, <2>2 DEF OnlyThread, InFlight
        <3>2. PICK x : x = hid[u]
            OBVIOUS
        <3>3. Family(hid[u])' = Family(x)'
            BY <3>1, <3>2 DEF Family
        <3> QED
            BY <2>1, <3>2, <3>3
    <2>3. ~InFlight(t)'
        BY <1>2 DEF InFlight
    <2> QED
        BY <1>1, <2>2, <2>3, StayApart
<1> QED
    BY <1>1, <1>2, <1>3, <1>4, <1>5, <1>6, <1>7 DEF WorkerInv, CallsInv

\* The invariant of every orderly run.
LEMMA WorkersInvariant == WorkerSpec => [](Orderly => WorkerInv)
<1>1. ASSUME WorkerInit PROVE WorkerInv
    <2>1. Live = {} /\ Allocated = {} /\ TreeInv /\ faults = {}
        BY <1>1, InitTree DEF WorkerInit, CapInit, Init, Live, Allocated
    <2>2. \A t \in Threads : pc[t] = "idle"
        BY <1>1 DEF WorkerInit
    <2>3. HandlesInv
        BY <2>1, <2>2 DEF HandlesInv, HeapInv, OwnedUnderived, OwnedAllocated, Rooted, OneOwner,
            Reclaimable, NewbornsApart, Sound, Roots, Newborn
    <2>4. CallsInv
        BY <1>1, <2>2 DEF WorkerInit, CallsInv, CallTypes, Disjoint, CallOK, InFlight, Steps,
            Lifecycles
    <2> QED
        BY <2>1, <2>3, <2>4 DEF WorkerInv
<1>2. ASSUME Orderly => WorkerInv, [WorkerNext]_workerVars
      PROVE  (Orderly => WorkerInv)'
    <2>1. CASE WorkerNext
        <3>1. PICK t \in Threads :
                \/ \E lifecycle \in Lifecycles, h \in Handles \cup {None} :
                        Start(t, lifecycle, h)
                \/ Step(t)
            BY <2>1 DEF WorkerNext
        <3>2. pool' = pool
            BY <3>1 DEF Start, Step, Check, Resolve, CallC, RegisterResult, PopHandle, Return, Go
        <3>3. Orderly' => Orderly
            BY <3>2 DEF Orderly, OneWorker
        <3> QED
            BY <1>2, <3>1, <3>3, StartKeeps, LookupKeeps, CallKeeps, RegisterKeeps, PopKeeps
               DEF Step
    <2>2. CASE UNCHANGED workerVars
        <3>1. /\ UNCHANGED <<vars, heap, faults>>
              /\ UNCHANGED <<pool, pc, op, hid, pointer, ret>>
            BY <2>2 DEF workerVars, capVars, callVars
        <3>2. Orderly' => Orderly
            BY <3>1 DEF Orderly, OneWorker
        <3>3. WorkerInv => WorkerInv'
            <4>1. /\ Live' = Live /\ items' = items /\ owned' = owned
                  /\ \A g : Family(g)' = Family(g)
                  /\ TreeInv => TreeInv'
                  /\ OwnedUnderived => OwnedUnderived'
                  /\ OwnedAllocated => OwnedAllocated'
                BY <3>1, SameTable
            <4>2. /\ Dying' = Dying /\ Roots' = Roots /\ Allocated' = Allocated
                  /\ \A t \in Threads : Newborn(t)' <=> Newborn(t)
                BY <3>1 DEF Dying, Roots, Allocated, Newborn
            <4>3. Sound' = Sound
                BY <4>1, <4>2 DEF Sound
            <4>4. HandlesInv => HandlesInv'
                <5>1. Rooted => Rooted'
                    BY <3>1, <4>1, <4>2, <4>3 DEF Rooted
                <5>2. OneOwner => OneOwner'
                    BY <4>1, <4>3 DEF OneOwner
                <5>3. Reclaimable => Reclaimable'
                    BY <3>1, <4>1, <4>2, <4>3 DEF Reclaimable
                <5>4. NewbornsApart => NewbornsApart'
                    BY <3>1, <4>1, <4>2, <4>3 DEF NewbornsApart
                <5>5. HeapInv => HeapInv'
                    BY <3>1, <4>2 DEF HeapInv
                <5> QED
                    BY <4>1, <5>1, <5>2, <5>3, <5>4, <5>5 DEF HandlesInv
            <4>5. \A t \in Threads : CallOK(t) => CallOK(t)'
                BY <3>1, <4>1, <4>2 DEF CallOK, InFlight
            <4>6. CallTypes => CallTypes'
                BY <3>1 DEF CallTypes
            <4>7. Disjoint => Disjoint'
                BY <3>1, <4>1 DEF Disjoint, SameTree, InFlight, Family, None
            <4> QED
                BY <3>1, <4>4, <4>5, <4>6, <4>7 DEF WorkerInv, CallsInv
        <3> QED
            BY <1>2, <3>2, <3>3
    <2> QED
        BY <1>2, <2>1, <2>2
<1> QED
    BY <1>1, <1>2, PTL DEF WorkerSpec

\* pop_cascade, which runs after the C destructor, never refuses the handle whose
\* object is already gone, however calls on other trees interleave.
THEOREM PopAfterDestructorSucceeds == WorkerSpec => [](Orderly => PopNeverRefused)
<1>1. WorkerInv => PopNeverRefused
    BY PoppersHold DEF PopNeverRefused, PopVerdict
<1> QED
    BY <1>1, WorkersInvariant, PTL

\* Between calls every handle served is backed by memory the library holds, and every
\* tree can be released.
THEOREM TableMatchesHeapBetweenCalls == WorkerSpec => [](Orderly => TableMatchesHeap)
<1>1. ASSUME WorkerInv, Quiet PROVE ServedAlive /\ EveryRootReclaimable
    <2>1. Sound = Live
        BY <1>1 DEF Quiet, InFlight, Sound, Dying
    <2>2. \A t \in Threads : ~Newborn(t)
        BY <1>1 DEF Quiet, InFlight, Newborn
    <2>3. Static \notin Free
        BY DistinctAssumption DEF Free
    <2>4. ServedAlive
        BY <1>1, <2>1, <2>3 DEF ServedAlive, NeverHandsOutFreed, WorkerInv, HandlesInv, Rooted, Free
    <2>5. EveryRootReclaimable
        BY <1>1, <2>1, <2>2 DEF EveryRootReclaimable, WorkerInv, HandlesInv, Reclaimable
    <2> QED
        BY <2>4, <2>5
<1>2. WorkerInv => TableMatchesHeap
    BY <1>1 DEF TableMatchesHeap
<1> QED
    BY <1>2, WorkersInvariant, PTL

\* No call on the pool makes C touch freed memory or free what is not a root.
THEOREM WorkersCauseNoFault == WorkerSpec => [](Orderly => NoFault)
<1>1. WorkerInv => NoFault
    BY DEF WorkerInv, NoFault, NoInvalidFree
<1> QED
    BY <1>1, WorkersInvariant, PTL

-----------------------------------------------------------------------------
(* One worker: a call is a serial call, taken when it registers or pops.   *)

\* A tree more, and a tree less.
Grew(old, new, root, nodes) ==
    new = [x \in DOMAIN old \cup {root} \cup nodes |->
             IF x \in DOMAIN old THEN old[x] ELSE root]
Lost(old, new, root) == new = Without(old, {a \in DOMAIN old : old[a] = root})

\* What happened to the heap since the C call found it, as far as the thread's own
\* step after it needs to know.
BeforeOK(t) ==
    /\ pc[t] = "register" /\ op[t] = "creates" =>
          \E root \in Addresses \ DOMAIN before :
          \E nodes \in SUBSET ((Addresses \ DOMAIN before) \ {root}) :
              ret[t] = root /\ Grew(before, heap, root, nodes)
    /\ pc[t] = "register" /\ op[t] = "borrows" => heap = before
    /\ pc[t] = "pop" =>
          /\ items[hid[t]] \in Addresses \cap DOMAIN before
          /\ before[items[hid[t]]] = items[hid[t]]
          /\ Lost(before, heap, items[hid[t]])

SerialInv == WorkerInv /\ \A t \in Threads : BeforeOK(t)

\* While the one worker is in a call, no other thread is.
LEMMA OthersIdle ==
    ASSUME WorkerInv, OneWorker, NEW t \in Threads,
           \/ \E lifecycle \in Lifecycles, h \in Handles \cup {None} : Start(t, lifecycle, h)
           \/ Step(t)
    PROVE  \A u \in Threads \ {t} : pc[u] = "idle"
<1>1. \A u \in Threads : pc[u] # "idle" => u \in pool
    BY DEF WorkerInv, CallsInv, CallOK, InFlight
<1>2. t \in pool
    BY <1>1 DEF Start, Step, Check, Resolve, CallC, RegisterResult, PopHandle
<1> QED
    BY <1>1, <1>2, OneInFlight

\* The C call leaves the heap it found in before.
LEMMA CallRemembers ==
    ASSUME WorkerInv, NEW t \in Threads, CallC(t)
    PROVE  BeforeOK(t)'
<1>1. CallEffect(t) /\ UNCHANGED vars /\ op' = op /\ before' = heap
    BY CallHasEffect
<1>2. items' = items
    BY <1>1 DEF vars, tableVars
<1>3. CASE /\ op[t] = "creates" /\ pc'[t] = "register"
           /\ \E root \in Free : \E nodes \in SUBSET (Free \ {root}) :
                Allocate(root, nodes) /\ ret'[t] = root
    BY <1>1, <1>3 DEF BeforeOK, Allocate, Grew, Free, Allocated
<1>4. CASE op[t] = "borrows" /\ pc'[t] = "register" /\ UNCHANGED heap
    BY <1>1, <1>4 DEF BeforeOK
<1>5. CASE /\ op[t] = "destroys" /\ pc'[t] = "pop" /\ hid'[t] = hid[t]
           /\ heap' = Without(heap, Tree(pointer[t]))
    <2>1. Survives(t) /\ CallOK(t) /\ pc[t] = "callC" /\ None \notin Live
        BY CallSurvives, FamilyFacts DEF CallC, WorkerInv, CallsInv, HandlesInv
    <2>2. pointer[t] = items[hid[t]] /\ pointer[t] \in Roots
        BY <1>5, <2>1 DEF Survives, CallOK
    <2>3. items[hid[t]] \in Addresses \cap DOMAIN heap /\ heap[items[hid[t]]] = items[hid[t]]
        BY <2>2 DEF Roots, Allocated, WorkerInv, HandlesInv, HeapInv
    <2> QED
        BY <1>1, <1>2, <1>5, <2>2, <2>3 DEF BeforeOK, Lost, Tree, Allocated
<1>6. CASE pc'[t] = "idle"
    BY <1>6 DEF BeforeOK
<1> QED
    BY <1>1, <1>3, <1>4, <1>5, <1>6 DEF CallEffect

\* With one worker the invariant extends to the heap before the call.
LEMMA SerialInvariant == WorkerSpec => [](OneWorker => SerialInv)
<1>1. ASSUME WorkerInit PROVE \A t \in Threads : BeforeOK(t)
    BY <1>1 DEF WorkerInit, BeforeOK
<1>2. ASSUME WorkerInv, \A t \in Threads : BeforeOK(t), OneWorker, [WorkerNext]_workerVars
      PROVE  \A t \in Threads : BeforeOK(t)'
    <2>1. CASE UNCHANGED workerVars
        <3>1. UNCHANGED <<pc, op, ret, hid, items, heap, before>>
            BY <2>1 DEF workerVars, capVars, vars, tableVars, callVars
        <3>2. ASSUME NEW t \in Threads PROVE BeforeOK(t)'
            <4>1. BeforeOK(t)
                BY <1>2
            <4> QED
                BY <3>1, <4>1 DEF BeforeOK
        <3> QED
            BY <3>2
    <2>2. ASSUME NEW t \in Threads,
                 \/ \E lifecycle \in Lifecycles, h \in Handles \cup {None} :
                        Start(t, lifecycle, h)
                 \/ Step(t)
          PROVE  \A u \in Threads : BeforeOK(u)'
        <3>1. \A u \in Threads \ {t} : pc'[u] = "idle"
            BY <1>2, <2>2, OthersIdle, StepFrame DEF OnlyThread, WorkerInv, CallsInv
        <3>2. ASSUME CallC(t) PROVE BeforeOK(t)'
            BY <1>2, <3>2, CallRemembers
        <3>3. ASSUME ~CallC(t) PROVE BeforeOK(t)'
            <4>1. pc'[t] \in {"idle", "check", "resolve", "callC"}
                BY <1>2, <2>2, <3>3 DEF Start, Step, Check, Resolve, RegisterResult, PopHandle,
                    Return, Go, WorkerInv, CallsInv, CallTypes
            <4> QED
                BY <4>1 DEF BeforeOK
        <3>4. BeforeOK(t)'
            BY <3>2, <3>3
        <3>5. \A u \in Threads \ {t} : BeforeOK(u)'
            BY <3>1 DEF BeforeOK
        <3> QED
            BY <3>4, <3>5
    <2> QED
        BY <1>2, <2>1, <2>2 DEF WorkerNext
<1>3. [WorkerNext]_workerVars => (OneWorker' => OneWorker)
    BY DEF OneWorker, WorkerNext, Start, Step, Check, Resolve, CallC, RegisterResult, PopHandle,
        Return, Go, workerVars, callVars
<1>4. OneWorker => Orderly
    BY DEF Orderly
<1>5. ASSUME WorkerInit PROVE OneWorker => \A t \in Threads : BeforeOK(t)
    BY <1>1, <1>5
<1>6. ASSUME Orderly => WorkerInv, OneWorker => \A t \in Threads : BeforeOK(t),
             [WorkerNext]_workerVars
      PROVE  (OneWorker => \A t \in Threads : BeforeOK(t))'
    BY <1>2, <1>3, <1>4, <1>6
<1>7. WorkerSpec => [](OneWorker => \A t \in Threads : BeforeOK(t))
    BY <1>5, <1>6, WorkersInvariant, PTL DEF WorkerSpec
<1>8. (Orderly => WorkerInv) /\ (OneWorker => \A t \in Threads : BeforeOK(t))
        => (OneWorker => SerialInv)
    BY <1>4 DEF SerialInv
<1> QED
    BY <1>7, <1>8, WorkersInvariant, PTL

\* The heap as the serial specification sees it.
SerialHeap == IF \E t \in Threads : pc[t] \in {"register", "pop"} THEN before ELSE heap

\* put and pop_cascade are the same operations there.
LEMMA SerialTable ==
    /\ \A obj, own, par : Put(obj, own, par) => Serial!Put(obj, own, par)
    /\ \A h : PopCascade(h) => Serial!PopCascade(h)
    /\ UNCHANGED vars => UNCHANGED Serial!vars
    /\ Serial!Live = Live /\ Serial!None = None /\ Serial!Handles = Handles
<1>1. \A h, par : Adopt(h, par) => Serial!Adopt(h, par)
    BY DEF Adopt, Serial!Adopt, Assign, Serial!Assign, Live, Serial!Live,
           ChildrenOf, Serial!ChildrenOf
<1>2. \A obj, own, par : Put(obj, own, par) => Serial!Put(obj, own, par)
    BY <1>1 DEF Put, Serial!Put, Assign, Serial!Assign
<1>3. \A h : PopVerdict(h) = Serial!PopVerdict(h)
    BY DEF PopVerdict, Serial!PopVerdict, GetVerdict, Serial!GetVerdict, Live, Serial!Live
<1>4. ASSUME NEW h
      PROVE  Doomed(h) = Serial!Doomed(h) /\ WorklistOrders(h) = Serial!WorklistOrders(h)
    <2>1. \A x : ChildrenOf(x) = Serial!ChildrenOf(x)
        BY DEF ChildrenOf, Serial!ChildrenOf
    <2>2. Doomed(h) = Serial!Doomed(h)
        BY <2>1 DEF Doomed, Serial!Doomed, Live, Serial!Live
    <2>3. \A S : SetToSeqs(S) = Serial!SetToSeqs(S)
        BY DEF SetToSeqs, Serial!SetToSeqs, Cardinality, Serial!Cardinality
    <2> QED
        BY <2>1, <2>2, <2>3 DEF WorklistOrders, Serial!WorklistOrders
<1>5. \A list, h : Remember(list, h) => Serial!Remember(list, h)
    BY Zenon DEF Remember, Serial!Remember, Range, Serial!Range, Without, Serial!Without
<1>6. \A gone : Discard(gone) => Serial!Discard(gone)
    BY DEF Discard, Serial!Discard, Without, Serial!Without, ParentOf, Serial!ParentOf,
           None, Serial!None
<1>7. \A h : PopCascade(h) => Serial!PopCascade(h)
    BY <1>3, <1>4, <1>5, <1>6 DEF PopCascade, Serial!PopCascade
<1>8. UNCHANGED vars => UNCHANGED Serial!vars
    BY DEF vars, tableVars, historyVars, Serial!vars, Serial!tableVars, Serial!historyVars
<1>9. Serial!Live = Live /\ Serial!None = None /\ Serial!Handles = Handles
    BY DEF Live, None, Handles, Serial!Live, Serial!None, Serial!Handles
<1> QED
    BY <1>2, <1>7, <1>8, <1>9

\* A step outside the two that the serial specification sees, and outside a uses that
\* changes the heap, is none to it.
LEMMA SerialStutter ==
    ASSUME UNCHANGED <<vars, idioms, faults>>, SerialHeap' = SerialHeap
    PROVE  UNCHANGED Serial!capVars
BY SerialTable DEF Serial!capVars, SerialHeap

\* The heap of the serial specification, spelled out.
LEMMA SerialHeapFacts ==
    /\ Serial!Allocated = DOMAIN SerialHeap
    /\ Serial!Free = Addresses \ DOMAIN SerialHeap
    /\ Serial!Roots = {a \in DOMAIN SerialHeap : SerialHeap[a] = a}
    /\ \A r : Serial!Tree(r) = {a \in DOMAIN SerialHeap : SerialHeap[a] = r}
    /\ \A h : Serial!Accepted(h) <=> Accepted(h)
    /\ \A h, a : Serial!PointsTo(h, a) <=> h \in Live /\ items[h] = a /\ a \in DOMAIN SerialHeap
    /\ \A root, nodes : Serial!Allocate(root, nodes) <=>
          Grew(SerialHeap, SerialHeap', root, nodes)
<1>1. Serial!Allocated = DOMAIN SerialHeap
    BY DEF Serial!Allocated, SerialHeap
<1>2. Serial!Free = Addresses \ DOMAIN SerialHeap
    BY <1>1 DEF Serial!Free
<1>3. Serial!Roots = {a \in DOMAIN SerialHeap : SerialHeap[a] = a}
    BY <1>1 DEF Serial!Roots, SerialHeap
<1>4. \A r : Serial!Tree(r) = {a \in DOMAIN SerialHeap : SerialHeap[a] = r}
    BY <1>1 DEF Serial!Tree, SerialHeap
<1>5. \A h : Serial!Accepted(h) <=> Accepted(h)
    BY SerialTable DEF Serial!Accepted, Accepted
<1>6. \A h, a : Serial!PointsTo(h, a) <=> h \in Live /\ items[h] = a /\ a \in DOMAIN SerialHeap
    BY <1>1, SerialTable DEF Serial!PointsTo
<1>7. \A root, nodes : Serial!Allocate(root, nodes) <=>
          Grew(SerialHeap, SerialHeap', root, nodes)
    BY <1>1 DEF Serial!Allocate, Grew, SerialHeap
<1> QED
    BY <1>1, <1>2, <1>3, <1>4, <1>5, <1>6, <1>7

\* With one worker each step of invoke is a serial call or nothing.
LEMMA SerialStep ==
    ASSUME SerialInv, OneWorker, NEW t \in Threads,
           \/ \E lifecycle \in Lifecycles, h \in Handles \cup {None} : Start(t, lifecycle, h)
           \/ Step(t)
    PROVE  Serial!CapNext \/ UNCHANGED Serial!capVars
<1>1. WorkerInv /\ BeforeOK(t) /\ CallOK(t) /\ TreeInv /\ None \notin Live
    BY FamilyFacts DEF SerialInv, WorkerInv, CallsInv, HandlesInv
<1>2. OnlyThread(t) /\ CallTypes'
    BY <1>1, StepFrame DEF WorkerInv, CallsInv
<1>3. \A u \in Threads \ {t} : pc[u] = "idle" /\ pc'[u] = "idle"
    BY <1>1, <1>2, OthersIdle DEF OnlyThread
<1>4. /\ SerialHeap = IF pc[t] \in {"register", "pop"} THEN before ELSE heap
      /\ SerialHeap' = IF pc'[t] \in {"register", "pop"} THEN before' ELSE heap'
    BY <1>3 DEF SerialHeap
<1>5. hid[t] \in Live => hid[t] \in Handles
    <2>1. hid[t] \in Live => hid[t] \in 1 .. (nextId - 1)
        BY <1>1, IdTypes DEF TreeInv, Issued
    <2> QED
        BY <1>1, <2>1, MaxHandlesAssumption DEF Handles, TreeInv, TypeOK
<1>6. /\ hid[t] \in Live => hid[t] \in Serial!Handles
      /\ hid[t] \in Live \cup {None} => hid[t] \in Serial!Handles \cup {Serial!None}
      /\ None \in Serial!Handles \cup {Serial!None}
    BY <1>5, SerialTable
<1>7. Buffer \notin Allocated \cup {Static}
    BY <1>1, DistinctAssumption DEF WorkerInv, HandlesInv, HeapInv
<1>8. ASSUME \/ \E lifecycle \in Lifecycles, h \in Handles \cup {None} : Start(t, lifecycle, h)
             \/ Check(t) \/ Resolve(t)
      PROVE  UNCHANGED Serial!capVars
    <2>1. /\ UNCHANGED <<vars, heap, idioms, faults>>
          /\ pc[t] \notin {"register", "pop"} /\ pc'[t] \notin {"register", "pop"}
        BY <1>1, <1>8 DEF Start, Check, Resolve, Return, Go, InFlight, capVars, WorkerInv,
            CallsInv, CallTypes
    <2> QED
        BY <1>4, <2>1, SerialStutter
<1>9. ASSUME CallC(t)
      PROVE  Serial!CapNext \/ UNCHANGED Serial!capVars
    <2>1. /\ CallEffect(t) /\ faults' = {} /\ UNCHANGED vars /\ op' = op /\ before' = heap
          /\ pc[t] = "callC" /\ idioms' = idioms /\ faults = {}
        BY <1>1, <1>9, CallHasEffect DEF CallC
    <2>2. SerialHeap = heap
        BY <1>4, <2>1
    <2>3. CASE pc'[t] \in {"register", "pop"} \/ UNCHANGED heap
        <3>1. SerialHeap' = heap
            BY <1>4, <2>1, <2>3
        <3> QED
            BY <2>1, <2>2, <3>1, SerialStutter
    <2>4. CASE /\ pc'[t] = "idle" /\ pointer[t] \in Allocated
               /\ \E n \in Free : Allocate(heap[pointer[t]], {n})
        <3>1. SerialHeap' = heap'
            BY <1>4, <2>4
        <3>2. Null \notin Allocated
            BY <1>1, ObjectsAssumption, DistinctAssumption DEF WorkerInv, HandlesInv, HeapInv
        <3>3. hid[t] \in Live /\ items[hid[t]] = pointer[t]
            BY <1>1, <2>1, <2>4, <3>2 DEF CallOK
        <3>4. Accepted(hid[t]) /\ Accepted(None)
            BY <1>7, <2>4, <3>3 DEF Accepted
        <3>5. PICK n \in Free : Allocate(heap[pointer[t]], {n})
            BY <2>4
        <3>6. n \in Serial!Free
            BY <2>2, SerialHeapFacts DEF Free, Allocated
        <3>7. Serial!Allocate(heap[pointer[t]], {n})
            <4>1. Grew(SerialHeap, SerialHeap', heap[pointer[t]], {n})
                BY <2>2, <3>1, <3>5 DEF Grew, Allocate, Allocated
            <4> QED
                BY <4>1, SerialHeapFacts
        <3>8. /\ Serial!Accepted(hid[t]) /\ Serial!Accepted(None)
              /\ Serial!PointsTo(hid[t], pointer[t]) /\ pointer[t] \in Serial!Allocated
            BY <2>2, <2>4, <3>3, <3>4, SerialHeapFacts DEF Allocated
        <3>9. Serial!Running /\ UNCHANGED Serial!vars
            BY <2>1, SerialTable DEF Serial!Running
        <3>10. \E m \in Serial!Free : Serial!Allocate(SerialHeap[pointer[t]], {m})
            BY <2>2, <3>6, <3>7
        <3>11. PICK h : h = hid[t]
            OBVIOUS
        <3>12. h \in Serial!Handles \cup {Serial!None}
            BY <1>6, <3>3, <3>11
        <3>13. Serial!Uses(h, None)
            BY <3>8, <3>9, <3>10, <3>11 DEF Serial!Uses, SerialHeap
        <3> QED
            BY <1>6, <3>12, <3>13, Zenon DEF Serial!CapNext
    <2> QED
        BY <2>1, <2>3, <2>4 DEF CallEffect
<1>10. ASSUME RegisterResult(t)
       PROVE  Serial!CapNext
    <2>1. /\ pc[t] = "register" /\ pc'[t] = "idle"
          /\ UNCHANGED <<heap, idioms, faults>> /\ faults = {}
          /\ Put(ret[t], op[t] = "creates", IF op[t] = "borrows" THEN hid[t] ELSE None)
        BY <1>1, <1>10 DEF RegisterResult, Return, Go, WorkerInv, CallsInv, CallTypes
    <2>2. SerialHeap = before /\ SerialHeap' = heap /\ Serial!Running
        BY <1>4, <2>1 DEF Serial!Running
    <2>3. hid[t] \in Live \cup {None} /\ (hid[t] \in Live => hid[t] \in Sound)
        BY <1>1, <2>1, ArgumentIsSound DEF CallOK, InFlight
    <2>4. Serial!Accepted(hid[t]) /\ Serial!Accepted(None)
        <3>1. Accepted(hid[t]) /\ Accepted(None)
            BY <1>1, <1>7, <2>3 DEF Accepted, WorkerInv, HandlesInv, Rooted
        <3> QED
            BY <3>1, SerialHeapFacts
    <2>5. CASE op[t] = "creates"
        <3>1. Put(ret[t], TRUE, None)
            BY <2>1, <2>5
        <3>2. PICK root \in Addresses \ DOMAIN before :
                \E nodes \in SUBSET ((Addresses \ DOMAIN before) \ {root}) :
                    ret[t] = root /\ Grew(before, heap, root, nodes)
            BY <1>1, <2>1, <2>5 DEF BeforeOK
        <3>3. PICK nodes \in SUBSET ((Addresses \ DOMAIN before) \ {root}) :
                    ret[t] = root /\ Grew(before, heap, root, nodes)
            BY <3>2
        <3>4. root \in Serial!Free /\ nodes \in SUBSET (Serial!Free \ {root})
            BY <2>2, SerialHeapFacts
        <3>5. Serial!Allocate(root, nodes)
            BY <2>2, <3>3, SerialHeapFacts
        <3>6. Serial!Register(root, TRUE, Serial!None)
            <4>1. root # Null
                BY ObjectsAssumption, DistinctAssumption
            <4>2. Serial!Put(root, TRUE, None)
                BY <3>1, <3>3, SerialTable
            <4> QED
                BY <4>1, <4>2, SerialTable DEF Serial!Register
        <3>7. PICK h : h = hid[t]
            OBVIOUS
        <3>8. h \in Serial!Handles \cup {Serial!None}
            BY <1>6, <2>3, <3>7
        <3>9. Serial!Creates(h)
            BY <2>2, <2>4, <3>4, <3>5, <3>6, <3>7 DEF Serial!Creates
        <3> QED
            BY <3>8, <3>9, Zenon DEF Serial!CapNext
    <2>6. CASE op[t] = "borrows"
        <3>1. Put(ret[t], FALSE, hid[t])
            BY <2>1, <2>6
        <3>2. heap = before
            BY <1>1, <2>1, <2>6 DEF BeforeOK
        <3>3. \/ ret[t] = Static
              \/ /\ hid[t] \in Live /\ ret[t] \in Allocated
                 /\ items[hid[t]] \in Allocated
                 /\ heap[ret[t]] = heap[items[hid[t]]]
            BY <1>1, <2>1, <2>6 DEF CallOK
        <3>4. ret[t] \in Serial!Borrowable(hid[t])
            <4>1. CASE ret[t] = Static
                BY <4>1 DEF Serial!Borrowable
            <4>2. CASE ret[t] # Static
                <5>1. /\ ret[t] \in Serial!Allocated /\ items[hid[t]] \in Serial!Allocated
                      /\ Serial!PointsTo(hid[t], items[hid[t]])
                      /\ SerialHeap[ret[t]] = SerialHeap[items[hid[t]]]
                    BY <2>2, <3>2, <3>3, <4>2, SerialHeapFacts DEF Allocated
                <5> QED
                    BY <5>1 DEF Serial!Borrowable, SerialHeap
            <4> QED
                BY <4>1, <4>2
        <3>5. Serial!Register(ret[t], FALSE, hid[t])
            <4>1. ret[t] # Null
                BY <1>1, <3>3, ObjectsAssumption, DistinctAssumption
                   DEF WorkerInv, HandlesInv, HeapInv
            <4>2. Serial!Put(ret[t], FALSE, hid[t])
                BY <3>1, SerialTable
            <4> QED
                BY <4>1, <4>2 DEF Serial!Register
        <3>6. SerialHeap' = SerialHeap
            BY <2>2, <3>2
        <3>7. Serial!Borrows(hid[t], None)
            BY <2>2, <2>4, <3>4, <3>5, <3>6 DEF Serial!Borrows, SerialHeap
        <3> QED
            BY <1>6, <2>3, <3>7 DEF Serial!CapNext
    <2> QED
        BY <1>1, <2>1, <2>5, <2>6 DEF CallOK
<1>11. ASSUME PopHandle(t)
       PROVE  Serial!CapNext
    <2>1. /\ pc[t] = "pop" /\ pc'[t] = "idle"
          /\ UNCHANGED <<heap, idioms, faults>> /\ faults = {}
        BY <1>1, <1>11 DEF PopHandle, Return, Go, WorkerInv, CallsInv, CallTypes
    <2>2. PopCascade(hid[t]) /\ hid[t] \in Live /\ owned[hid[t]]
        BY <1>1, <1>11, <2>1, PopKeeps, PoppersHold
    <2>3. SerialHeap = before /\ SerialHeap' = heap /\ Serial!Running
        BY <1>4, <2>1 DEF Serial!Running
    <2>4. /\ items[hid[t]] \in Addresses \cap DOMAIN before
          /\ before[items[hid[t]]] = items[hid[t]]
          /\ Lost(before, heap, items[hid[t]])
        BY <1>1, <2>1 DEF BeforeOK
    <2>5. Serial!MayDestroy(hid[t])
        BY <2>2, <2>4, DistinctAssumption, SerialTable DEF Serial!MayDestroy
    <2>6. items[hid[t]] \in Serial!Roots
        BY <2>3, <2>4, SerialHeapFacts
    <2>7. SerialHeap' = Serial!Without(SerialHeap, Serial!Tree(items[hid[t]]))
        BY <2>3, <2>4, SerialHeapFacts DEF Lost, Without, Serial!Without
    <2>8. Serial!PopCascade(hid[t])
        BY <2>2, SerialTable
    <2> QED
        <3>1. PICK h : h = hid[t]
            OBVIOUS
        <3>2. h \in Serial!Handles
            BY <1>6, <2>2, <3>1
        <3>3. Serial!Destroys(h)
            BY <2>3, <2>5, <2>6, <2>7, <2>8, <3>1 DEF Serial!Destroys, SerialHeap
        <3> QED
            BY <3>2, <3>3, Zenon DEF Serial!CapNext
<1> QED
    BY <1>8, <1>9, <1>10, <1>11 DEF Step

\* A server with one worker runs the calls as if each were one step: its table, and
\* its heap between calls, behave as Capabilities.
THEOREM OneWorkerIsSerial == WorkerSpec => SerialSpec
<1>1. WorkerInit => (OneWorker => Serial!CapInit)
    <2> SUFFICES ASSUME WorkerInit PROVE Serial!CapInit
        OBVIOUS
    <2>1. Init /\ heap = <<>> /\ idioms \in Libraries /\ faults = {}
          /\ \A t \in Threads : pc[t] = "idle"
        BY DEF WorkerInit, CapInit
    <2>2. SerialHeap = <<>>
        BY <2>1 DEF SerialHeap
    <2>3. Serial!Init
        BY <2>1 DEF Init, Serial!Init
    <2> QED
        BY <2>1, <2>2, <2>3 DEF Serial!CapInit, SerialHeap
<1>2. (OneWorker => SerialInv) /\ [WorkerNext]_workerVars
        => [OneWorker => Serial!CapNext]_(Serial!capVars)
    <2> SUFFICES ASSUME OneWorker => SerialInv, OneWorker, [WorkerNext]_workerVars
                 PROVE  Serial!CapNext \/ UNCHANGED Serial!capVars
        OBVIOUS
    <2>1. CASE UNCHANGED workerVars
        <3>1. UNCHANGED <<vars, heap, idioms, faults, pc, before>>
            BY <2>1 DEF workerVars, capVars, callVars
        <3>2. SerialHeap' = SerialHeap
            BY <3>1 DEF SerialHeap
        <3> QED
            BY <3>1, <3>2, SerialStutter
    <2>2. CASE WorkerNext
        BY <2>2, SerialStep DEF WorkerNext
    <2> QED
        BY <2>1, <2>2
<1> QED
    BY <1>1, <1>2, SerialInvariant, PTL DEF WorkerSpec, SerialSpec
=============================================================================
