------------------------------ MODULE Workers ------------------------------
(***************************************************************************)
(* core/invoker.py under emit/grpc_server.py: the methods of the servicer  *)
(* run on a pool of worker threads, and the capabilities of one session    *)
(* share its handle table.  invoke holds no lock from its first look at    *)
(* the table to its last, and ctypes releases the interpreter lock during  *)
(* the C call, so the calls of different threads interleave at every step: *)
(*                                                                         *)
(*   Check     destroys only: is_owned(hid)                                *)
(*   Resolve   get(hid): the id becomes a pointer held by the thread       *)
(*   CallC     the C function runs on that pointer                         *)
(*   Register  creates, borrows: put(ret, owned, parent)                   *)
(*   PopHandle destroys: pop_cascade(hid)                                  *)
(***************************************************************************)
EXTENDS Capabilities

CONSTANTS
    Threads,            \* worker threads
    Pools,              \* the pools a server may be started with (max_workers)
    OneCallPerTree      \* do clients never have two calls in flight on one tree?

ASSUME PoolsAssumption ==
    \A p \in Pools : p \subseteq Threads /\ IsFiniteSet(p)
ASSUME OneCallPerTreeAssumption == OneCallPerTree \in BOOLEAN

VARIABLES
    pool,               \* the threads of this server: never changes
    pc,                 \* thread -> the step of invoke it is about to take
    op,                 \* thread -> fn.lifecycle of the capability it runs
    hid,                \* thread -> the handle argument
    pointer,            \* thread -> what get returned for it
    ret,                \* thread -> what C returned
    before              \* history: the heap as the C call found it

callVars == <<pool, pc, op, hid, pointer, ret, before>>
workerVars == <<capVars, callVars>>

Lifecycles == {"creates", "borrows", "uses", "destroys"}
Steps == {"idle", "check", "resolve", "callC", "register", "pop"}

WorkerInit ==
    /\ CapInit
    /\ pool \in Pools
    /\ pc = [t \in Threads |-> "idle"]
    /\ op = [t \in Threads |-> "uses"]
    /\ hid = [t \in Threads |-> None]
    /\ pointer = [t \in Threads |-> Null]
    /\ ret = [t \in Threads |-> Null]
    /\ before = heap

Go(t, step) == pc' = [pc EXCEPT ![t] = step] /\ UNCHANGED pool

\* The call returns, or raises.
Return(t) ==
    /\ Go(t, "idle")
    /\ hid' = [hid EXCEPT ![t] = None]
    /\ pointer' = [pointer EXCEPT ![t] = Null]
    /\ ret' = [ret EXCEPT ![t] = Null]

InFlight(t) == pc[t] # "idle"

\* Ids that calls in flight may still draw: the bound on ids must not stop a
\* call half way.
Pending == {t \in Threads : InFlight(t) /\ op[t] \in {"creates", "borrows"}}

\* The handles of one tree: those that share an origin.  An id that is not in the
\* table is its own: two clients may name the same id before it is issued.
Family(h) == {h} \cup (IF h \in Live THEN lineage[h] ELSE {})
SameTree(g, h) == None \notin {g, h} /\ Family(g) \cap Family(h) # {}

-----------------------------------------------------------------------------
(* The steps of invoke.                                                    *)

Start(t, lifecycle, h) ==
    /\ faults = {}
    /\ t \in pool /\ ~InFlight(t)
    /\ h = None => lifecycle # "destroys"
    /\ lifecycle \in {"creates", "borrows"} =>
            nextId + Cardinality(Pending) <= MaxHandles
    /\ OneCallPerTree => \A u \in Threads : InFlight(u) => ~SameTree(hid[u], h)
    /\ op' = [op EXCEPT ![t] = lifecycle]
    /\ hid' = [hid EXCEPT ![t] = h]
    /\ Go(t, IF lifecycle = "destroys" THEN "check" ELSE "resolve")
    /\ UNCHANGED <<capVars, pointer, ret, before>>

\* Mutant: the ownership check is left out.
CheckNothing(t) ==
    /\ faults = {}
    /\ pc[t] = "check"
    /\ Go(t, "resolve")
    /\ UNCHANGED <<capVars, op, hid, pointer, ret, before>>

Check(t) ==
    /\ faults = {}
    /\ pc[t] = "check"
    /\ IF hid[t] \in Live /\ owned[hid[t]]
       THEN Go(t, "resolve") /\ UNCHANGED <<hid, pointer, ret>>
       ELSE Return(t)
    /\ UNCHANGED <<capVars, op, before>>

Resolve(t) ==
    /\ faults = {}
    /\ pc[t] = "resolve"
    /\ IF Accepted(hid[t])
       THEN /\ Go(t, "callC")
            /\ pointer' = [pointer EXCEPT ![t] =
                             IF hid[t] = None THEN Null ELSE items[hid[t]]]
            /\ UNCHANGED <<hid, ret>>
       ELSE Return(t)
    /\ UNCHANGED <<capVars, op, before>>

\* What borrows can return for a pointer: as Borrowable, for the pointer held.
Within(p) ==
    {Static, Null} \cup
    {x \in Allocated : p \in Allocated /\ heap[x] = heap[p]}

\* The C function survives its argument: NULL, static, or still allocated; and
\* a destructor needs a root.
Survives(t) ==
    IF op[t] = "destroys" THEN pointer[t] \in Roots
                          ELSE pointer[t] \in {Null, Static} \cup Allocated

CallC(t) ==
    /\ faults = {}
    /\ pc[t] = "callC"
    /\ before' = heap
    /\ IF Survives(t)
       THEN /\ \/ /\ op[t] = "creates"
                  /\ \E root \in Free : \E nodes \in SUBSET (Free \ {root}) :
                        /\ Allocate(root, nodes)
                        /\ ret' = [ret EXCEPT ![t] = root]
                  /\ Go(t, "register") /\ UNCHANGED <<hid, pointer>>
               \/ /\ op[t] = "creates"
                  /\ Return(t) /\ UNCHANGED heap
               \/ /\ op[t] = "borrows"
                  /\ \E p \in Within(pointer[t]) :
                        IF p = Null THEN Return(t)
                        ELSE /\ ret' = [ret EXCEPT ![t] = p]
                             /\ Go(t, "register") /\ UNCHANGED <<hid, pointer>>
                  /\ UNCHANGED heap
               \/ /\ op[t] = "uses"
                  /\ \/ UNCHANGED heap
                     \/ /\ pointer[t] \in Allocated
                        /\ \E n \in Free : Allocate(heap[pointer[t]], {n})
                  /\ Return(t)
               \/ /\ op[t] = "destroys"
                  /\ heap' = Without(heap, Tree(pointer[t]))
                  /\ Go(t, "pop") /\ UNCHANGED <<hid, pointer, ret>>
            /\ UNCHANGED faults
       ELSE /\ faults' = {IF op[t] = "destroys" THEN "invalid_free"
                                                ELSE "use_after_free"}
            /\ Return(t) /\ UNCHANGED heap
    /\ UNCHANGED <<vars, idioms, op>>

\* Mutant: a borrowed handle is registered without its parent.
RegisterOrphan(t) ==
    /\ faults = {}
    /\ pc[t] = "register"
    /\ Put(ret[t], op[t] = "creates", None)
    /\ Return(t)
    /\ UNCHANGED <<heap, idioms, faults, op, before>>

\* Mutant: what creates returns is not marked as owned.
RegisterUnowned(t) ==
    /\ faults = {}
    /\ pc[t] = "register"
    /\ Put(ret[t], FALSE, IF op[t] = "borrows" THEN hid[t] ELSE None)
    /\ Return(t)
    /\ UNCHANGED <<heap, idioms, faults, op, before>>

RegisterResult(t) ==
    /\ faults = {}
    /\ pc[t] = "register"
    /\ Put(ret[t], op[t] = "creates",
           IF op[t] = "borrows" THEN hid[t] ELSE None)
    /\ Return(t)
    /\ UNCHANGED <<heap, idioms, faults, op, before>>

PopHandle(t) ==
    /\ faults = {}
    /\ pc[t] = "pop"
    /\ PopCascade(hid[t]) \/ RefusePop(hid[t])
    /\ Return(t)
    /\ UNCHANGED <<heap, idioms, faults, op, before>>

Step(t) == Check(t) \/ Resolve(t) \/ CallC(t) \/ RegisterResult(t) \/ PopHandle(t)

WorkerNext ==
    \E t \in Threads :
        \/ \E lifecycle \in Lifecycles, h \in Handles \cup {None} :
                Start(t, lifecycle, h)
        \/ Step(t)

WorkerSpec == WorkerInit /\ [][WorkerNext]_workerVars

-----------------------------------------------------------------------------
(* Properties.                                                             *)

Quiet == \A t \in Threads : ~InFlight(t)

\* Between calls every handle served points to memory the library still holds, and
\* nothing is leaked: every tree has a handle that may be destroyed.
TableMatchesHeap == Quiet => ServedAlive /\ EveryRootReclaimable

\* pop_cascade, which runs after the C destructor, never finds that the handle it
\* destroyed the object of may not be popped.
PopNeverRefused ==
    \A t \in Threads : pc[t] = "pop" => PopVerdict(hid[t]) = "freed"

\* With one worker the steps of a call are not observable: the table, and the heap
\* as it is between calls, behave as the serial capabilities do.
Serial == INSTANCE Capabilities WITH
    heap <- IF \E t \in Threads : pc[t] \in {"register", "pop"}
            THEN before ELSE heap
OneWorker == Cardinality(pool) = 1
SerialSpec ==
    /\ OneWorker => Serial!CapInit
    /\ [][OneWorker => Serial!CapNext]_(Serial!capVars)
=============================================================================
