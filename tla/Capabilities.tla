---------------------------- MODULE Capabilities ----------------------------
(***************************************************************************)
(* core/invoker.py: what each calling shape of a bound C function does to  *)
(* the handle table and, through the function it wraps, to the C heap.     *)
(* Calls are serial here, as under the FastMCP and Python emitters; the    *)
(* module Workers interleaves them, as under the gRPC thread pool.         *)
(*                                                                         *)
(* The C library is not part of the repository.  It is modelled as an      *)
(* arbitrary library of trees of nodes: each allocated address belongs to  *)
(* the tree of one root, destroying a root frees its tree, and an address  *)
(* may be allocated again once freed.  What a library may do besides, its  *)
(* idioms, is chosen once and for all in the initial state, and every      *)
(* property says which idioms it does not survive.                         *)
(*                                                                         *)
(* Calls that leave everything as it was are stuttering steps: a uses that *)
(* only reads, a destroys of None, and every call that raises.             *)
(***************************************************************************)
EXTENDS HandleTable

CONSTANTS
    Addresses,      \* addresses malloc can return
    Static,         \* an object of the library that is never freed
    Buffer,         \* (aligned pointer, backing buffer): caller-allocated state
    Null,           \* the C NULL
    Libraries       \* the sets of idioms a library may use

AllIdioms == {
    "detach",           \* creates: unlinks a node and hands it to the caller
    "attach",           \* uses: takes over the object of its second argument
    "prune",            \* uses: frees nodes inside its argument
    "second_argument",  \* borrows: the result points into the second argument
    "out_borrows",      \* out-parameter: the result points into the argument
    "out_unresolved",   \* out-parameter: fresh, but its allocation not traced
    "state_and_handle"  \* one function takes caller-allocated state and a handle
    }

ASSUME ObjectsAssumption == Objects = Addresses \cup {Static, Buffer}
ASSUME DistinctAssumption ==
    /\ Static # Buffer
    /\ Null \notin Objects
    /\ {Static, Buffer} \cap Addresses = {}
ASSUME LibrariesAssumption == Libraries \subseteq SUBSET AllIdioms

VARIABLES
    heap,           \* allocated address -> root of the tree it belongs to
    idioms,         \* what this library does besides: never changes
    faults          \* history: what C has been made to do wrong

capVars == <<vars, heap, idioms, faults>>

Allocated == DOMAIN heap
Free == Addresses \ Allocated
Roots == {a \in Allocated : heap[a] = a}
Tree(r) == {a \in Allocated : heap[a] = r}

CapInit == Init /\ heap = <<>> /\ idioms \in Libraries /\ faults = {}

-----------------------------------------------------------------------------
(* Arguments.                                                              *)

\* None is forwarded as NULL; a stale or unknown id raises in get, and ctypes
\* refuses the tuple of a state handle where a pointer is expected.
Accepted(h) == h = None \/ (h \in Live /\ items[h] # Buffer)

\* The argument reaches C as a pointer to an allocated node.
PointsTo(h, a) == h \in Live /\ items[h] = a /\ a \in Allocated

\* The destroys guard: is_owned(hid), for a handle whose get will succeed.
\* Mutant: the check is left out.
MayDestroyUnchecked(h) == h \in Live /\ items[h] # Buffer
MayDestroy(h) == h \in Live /\ owned[h] /\ items[h] # Buffer

-----------------------------------------------------------------------------
(* Results.                                                                *)

\* A NULL result gets no handle; any other is registered.
Register(ret, own, par) ==
    IF ret = Null THEN UNCHANGED vars ELSE Put(ret, own, par)

\* C allocates a tree: a root and the nodes under it.
Allocate(root, nodes) ==
    heap' = [x \in Allocated \cup {root} \cup nodes |->
                IF x \in Allocated THEN heap[x] ELSE root]

-----------------------------------------------------------------------------
(* The calling shapes.  A call C cannot survive is a fault, after which    *)
(* nothing is known of the process: the model stops there.                 *)

Running == faults = {} /\ UNCHANGED <<idioms, faults>>

\* creates: the caller owns the result, whatever handles the call was given.
Creates(h) ==
    /\ Running /\ Accepted(h)
    /\ \/ \E root \in Free : \E nodes \in SUBSET (Free \ {root}) :
            Allocate(root, nodes) /\ Register(root, TRUE, None)
       \/ UNCHANGED heap /\ Register(Null, TRUE, None)
       \/ /\ "detach" \in idioms
          /\ \E a \in Allocated : PointsTo(h, a) /\
                \E n \in Tree(heap[a]) \ {heap[a]} :
                \E sub \in SUBSET (Tree(heap[a]) \ {heap[a]}) :
                    /\ n \in sub
                    /\ heap' = [x \in Allocated |->
                                  IF x \in sub THEN n ELSE heap[x]]
                    /\ Register(n, TRUE, None)

\* What a borrows function can return: a node of its argument's tree, a static
\* object of the library, or NULL.
Borrowable(h) ==
    {Static, Null} \cup
    {x \in Allocated : \E a \in Allocated : PointsTo(h, a) /\ heap[x] = heap[a]}

\* Mutant: the handle is registered without its parent.
BorrowsWithoutParent(h, k) ==
    /\ Running /\ Accepted(h) /\ Accepted(k) /\ UNCHANGED heap
    /\ \E ret \in Borrowable(h) : Register(ret, FALSE, None)

\* Mutant: every result is the caller's.
BorrowsOwned(h, k) ==
    /\ Running /\ Accepted(h) /\ Accepted(k) /\ UNCHANGED heap
    /\ \E ret \in Borrowable(h) : Register(ret, TRUE, h)

\* borrows: the library keeps the result; the parent is the FIRST handle input.
Borrows(h, k) ==
    /\ Running /\ Accepted(h) /\ Accepted(k) /\ UNCHANGED heap
    /\ \E ret \in Borrowable(h) \cup
                  (IF "second_argument" \in idioms THEN Borrowable(k) ELSE {}) :
            Register(ret, FALSE, h)

\* uses: no handle is made or dropped, but the tree may change under them.
Uses(h, k) ==
    /\ Running /\ Accepted(h) /\ Accepted(k)
    /\ \E a \in Allocated : PointsTo(h, a) /\
        \/ \E n \in Free : Allocate(heap[a], {n})
        \/ /\ "prune" \in idioms
           /\ \E n \in Tree(heap[a]) \ {heap[a]} : heap' = Without(heap, {n})
        \/ /\ "attach" \in idioms
           /\ \E r \in Roots \ {heap[a]} :
                /\ PointsTo(k, r)
                /\ heap' = [x \in Allocated |->
                              IF heap[x] = r THEN heap[a] ELSE heap[x]]
    /\ UNCHANGED vars

\* Mutant: only the destroyed handle is dropped.
DestroysWithoutCascade(h) ==
    /\ Running /\ MayDestroy(h) /\ items[h] \in Roots
    /\ heap' = Without(heap, Tree(items[h]))
    /\ Discard({h})
    /\ freed' = freed \cup {h}
    /\ UNCHANGED <<invalidated, invalidatedOrder, nextId, lineage>>

\* Mutant: the handle stays in the table.
DestroysKeepingHandle(h) ==
    /\ Running /\ MayDestroy(h) /\ items[h] \in Roots
    /\ heap' = Without(heap, Tree(items[h]))
    /\ UNCHANGED vars

\* destroys: check, C destructor, then pop_cascade.
Destroys(h) ==
    /\ Running /\ MayDestroy(h) /\ items[h] \in Roots
    /\ heap' = Without(heap, Tree(items[h]))
    /\ PopCascade(h)

\* Mutant: the traced owner is not passed on to put.
OutHandleNeverOwned(h) ==
    /\ Running /\ Accepted(h)
    /\ \E root \in Free : \E nodes \in SUBSET (Free \ {root}) :
            Allocate(root, nodes) /\ Register(root, FALSE, None)

\* Out-parameter handles: owned when the allocation was traced to the caller,
\* and registered without a parent in every case.
OutHandle(h) ==
    /\ Running /\ Accepted(h)
    /\ \/ \E root \in Free : \E nodes \in SUBSET (Free \ {root}) :
            \E own \in IF "out_unresolved" \in idioms THEN BOOLEAN ELSE {TRUE} :
                Allocate(root, nodes) /\ Register(root, own, None)
       \/ UNCHANGED heap /\ Register(Null, TRUE, None)
       \/ /\ "out_borrows" \in idioms
          /\ \E ret \in Borrowable(h) :
                UNCHANGED heap /\ Register(ret, FALSE, None)

\* alloc_<struct>: the handle keeps the buffer alive, and nothing pops it.
AllocState == Running /\ UNCHANGED heap /\ Put(Buffer, TRUE, None)

\* A handle whose object has been freed is passed to C.
UseAfterFree(h) ==
    /\ faults = {}
    /\ h \in Live /\ items[h] \in Free
    /\ faults' = {"use_after_free"}
    /\ UNCHANGED <<vars, heap, idioms>>

\* A destructor is given an object that is not, or no longer, a root.
InvalidFree(h) ==
    /\ faults = {}
    /\ MayDestroy(h) /\ items[h] \notin Roots
    /\ faults' = {"invalid_free"}
    /\ UNCHANGED <<vars, heap, idioms>>

\* A HANDLE parameter beside caller-allocated state goes through to_c: the id
\* itself, looked up nowhere, becomes the pointer.
StateCallWithHandle(state, id) ==
    /\ faults = {} /\ "state_and_handle" \in idioms
    /\ state \in Live
    /\ id \in Handles
    /\ faults' = {"id_as_pointer"}
    /\ UNCHANGED <<vars, heap, idioms>>

CapNext ==
    \/ \E h \in Handles \cup {None} : Creates(h) \/ OutHandle(h)
    \/ \E h, k \in Handles \cup {None} : Borrows(h, k) \/ Uses(h, k)
    \/ \E h \in Handles : Destroys(h) \/ UseAfterFree(h) \/ InvalidFree(h)
    \/ \E state, id \in Handles : StateCallWithHandle(state, id)
    \/ AllocState

CapSpec == CapInit /\ [][CapNext]_capVars

-----------------------------------------------------------------------------
(* Properties.                                                             *)

\* The library has none of these idioms.
Lacks(S) == idioms \cap S = {}

\* The idioms that move or free nodes behind the table, or that produce a pointer
\* into an object the table does not record.
Evasive == {"detach", "attach", "prune", "second_argument", "out_borrows"}

\* handles.py:34, as it stands: "the table never hands out a pointer the library
\* has already freed".
NeverHandsOutFreed == \A h \in Live : items[h] \notin Free

\* The same, of the libraries for which it is true.
ServedAlive == Lacks(Evasive) => NeverHandsOutFreed

\* No two owned handles free the same object, and what they free is a whole
\* tree: the premise on which the ownership check prevents double frees.  Only
\* an object taken over by another one breaks it.
OwnedIsDistinctRoot ==
    Lacks({"attach"}) =>
        \A h \in Live : owned[h] /\ items[h] # Buffer =>
            /\ items[h] \in Roots
            /\ \A g \in Live : owned[g] /\ items[g] = items[h] => g = h

\* A client can always release what it was given: every tree on the heap has a
\* handle that may be destroyed, unless its allocation was never traced.
EveryRootReclaimable ==
    Lacks({"out_unresolved"}) =>
        \A r \in Roots : \E h \in Live : owned[h] /\ items[h] = r

\* Memory is freed only by destroying the handle that owns it, in the step that
\* takes that handle out of the table.
FreedOnlyThroughOwner ==
    [][Lacks({"prune"}) =>
        \A a \in Allocated : a \notin Allocated' =>
            \E h \in Live \ Live' : owned[h] /\ items[h] = heap[a]]_capVars

\* The ownership check in isolation: destructors only ever get roots.
NoInvalidFree == Lacks({"attach"}) => "invalid_free" \notin faults

\* No call makes C touch freed memory, free what it must not, or follow an id.
NoFault ==
    /\ Lacks(Evasive \cup {"state_and_handle"}) => faults = {}
    /\ NoInvalidFree

\* Every capability changes the table only through put and pop_cascade, whatever
\* the library does.
TableSpec == Spec
=============================================================================
