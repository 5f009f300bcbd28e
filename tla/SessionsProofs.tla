--------------------------- MODULE SessionsProofs ---------------------------
(***************************************************************************)
(* Theorems about Sessions, for every set of worker threads, every pool a  *)
(* server may be started with and every number of sessions.                *)
(***************************************************************************)
EXTENDS Sessions, Integers, FiniteSetTheorems, TLAPS

Opened == 1 .. (nextSid - 1)

TypeOK ==
    /\ nextSid \in 1 .. (MaxSessions + 1)
    /\ tables \subseteq Opened
    /\ cache \subseteq Opened
    /\ restype \in {"pointer", "declared"}
    /\ pool \in Pools
    /\ pc \in [Threads -> Steps]
    /\ sid \in [Threads -> Opened \cup {NoSession}]
    /\ kind \in [Threads -> Kinds]
    /\ released \in [Sids -> Nat]
    /\ late \subseteq Threads
    /\ misfreed \in BOOLEAN

\* Only the workers of the pool are ever under way, and a worker that is inside
\* a session RPC or a lookup has the id of an opened session in its request.
WorkersHaveRequests ==
    \A t \in Threads :
        /\ t \notin pool => pc[t] = "idle"
        /\ pc[t] \notin {"idle", "invoke"} => sid[t] \in Opened

\* A session is in the registry or has been released, never both: what makes one
\* dict.pop enough to release it once.
ReleasedOrOpen ==
    \A s \in Sids :
        /\ released[s] <= 1
        /\ s \in tables \/ s >= nextSid => released[s] = 0

\* The inductive invariant of any server.
RegistryInv == TypeOK /\ WorkersHaveRequests /\ ReleasedOrOpen

\* What a single worker finds whatever statement it is at: the cache names open
\* sessions only, and the string function has its declared type only between the
\* two assignments of _bind.
OnlyWorker(w) ==
    /\ cache \subseteq tables
    /\ pc[w] = "closeTable" => sid[w] \notin cache
    /\ pc[w] \in {"declare", "retype", "store"} => sid[w] \in tables
    /\ w \in late /\ pc[w] \in {"look", "table", "declare", "retype", "store", "fetch"}
        => released[sid[w]] > 0
    /\ pc[w] = "invoke" => w \notin late
    /\ restype = "declared" => pc[w] = "retype"
    /\ ~misfreed

\* The inductive invariant of a server started with one worker.
OneWorkerInv == \A w \in Threads : pool = {w} => OnlyWorker(w)

-----------------------------------------------------------------------------
(* Lemmas.                                                                 *)

\* A pool of one worker is the singleton of that worker.
LEMMA OneWorkerIsSingleton ==
    ASSUME pool \in Pools, OneWorker
    PROVE  \E w \in Threads : pool = {w}
<1>1. IsFiniteSet(pool) /\ pool \subseteq Threads
    BY PoolsAssumption
<1>2. \E w : pool = {w}
    BY <1>1, FS_Singleton DEF OneWorker
<1> QED
    BY <1>1, <1>2

\* The counter only hands out ids within its bound.
LEMMA OpenedAreSids ==
    ASSUME TypeOK
    PROVE  /\ nextSid \in Nat \ {0}
           /\ Opened \subseteq Sids
           /\ nextSid \notin Opened
           /\ NoSession \notin Opened
BY MaxSessionsAssumption, NoSessionAssumption DEF TypeOK, Opened, Sids

\* The server starts with no session and every worker idle.
LEMMA InitRegistry == Init => RegistryInv
<1> SUFFICES ASSUME Init
             PROVE  RegistryInv
    OBVIOUS
<1>1. Opened = {}
    BY DEF Init, Opened
<1>2. TypeOK
    <2>1. 1 \in 1 .. (MaxSessions + 1)
        BY MaxSessionsAssumption
    <2> QED
        BY <1>1, <2>1 DEF Init, TypeOK, Steps, Kinds
<1> QED
    BY <1>2 DEF Init, RegistryInv, WorkersHaveRequests, ReleasedOrOpen, Sids

\* No step of any worker opens or releases a session twice.
LEMMA NextKeepsRegistry == RegistryInv /\ [Next]_vars => RegistryInv'
<1> SUFFICES ASSUME RegistryInv, [Next]_vars
             PROVE  RegistryInv'
    OBVIOUS
<1> USE DEF RegistryInv
<1>0. /\ nextSid \in Nat \ {0} /\ Opened \subseteq Sids
      /\ nextSid \notin Opened /\ NoSession \notin Opened
    BY OpenedAreSids
<1>1. ASSUME NEW t \in Threads, OpenSession(t)
      PROVE  RegistryInv'
    <2>1. Opened' = Opened \cup {nextSid} /\ nextSid \in Sids
        BY <1>0, <1>1, MaxSessionsAssumption DEF OpenSession, Opened, Sids
    <2>2. TypeOK'
        BY <1>0, <1>1, <2>1, MaxSessionsAssumption
           DEF TypeOK, OpenSession, Goto, request, history, Steps
    <2>3. WorkersHaveRequests'
        BY <1>1, <2>1 DEF TypeOK, WorkersHaveRequests, OpenSession, Goto, request
    <2>4. ReleasedOrOpen'
        BY <1>0, <1>1, <2>1 DEF TypeOK, ReleasedOrOpen, OpenSession, history, Sids
    <2> QED
        BY <2>2, <2>3, <2>4
<1>2. ASSUME NEW t \in Threads, NEW s \in 1 .. (nextSid - 1), CloseSession(t, s)
      PROVE  RegistryInv'
    <2>1. s \in Opened /\ Opened' = Opened
        BY <1>2 DEF CloseSession, Opened, registry
    <2>2. TypeOK'
        BY <1>2, <2>1 DEF TypeOK, CloseSession, Goto, registry, history, Steps
    <2>3. WorkersHaveRequests'
        BY <1>2, <2>1 DEF TypeOK, WorkersHaveRequests, CloseSession, Goto
    <2>4. ReleasedOrOpen'
        BY <1>2 DEF ReleasedOrOpen, CloseSession, registry, history
    <2> QED
        BY <2>2, <2>3, <2>4
<1>3. ASSUME NEW t \in Threads, NEW s \in (1 .. (nextSid - 1)) \cup {NoSession},
             NEW k \in Kinds, Call(t, s, k)
      PROVE  RegistryInv'
    <2>1. s \in Opened \cup {NoSession} /\ Opened' = Opened
        BY <1>3 DEF Call, Opened, registry
    <2>2. TypeOK'
        BY <1>3, <2>1 DEF TypeOK, Call, Goto, registry, history, Steps
    <2>3. WorkersHaveRequests'
        BY <1>3, <2>1 DEF TypeOK, WorkersHaveRequests, Call, Goto
    <2>4. ReleasedOrOpen'
        BY <1>3 DEF ReleasedOrOpen, Call, registry
    <2> QED
        BY <2>2, <2>3, <2>4
<1>4. ASSUME NEW t \in Threads, DropTable(t)
      PROVE  RegistryInv'
    <2>1. Opened' = Opened
        BY <1>4 DEF DropTable, Opened
    <2>2. sid[t] \in Opened
        BY <1>4 DEF TypeOK, WorkersHaveRequests, DropTable, Goto
    <2>3. released' \in [Sids -> Nat]
        BY <1>0, <1>4, <2>2 DEF TypeOK, DropTable
    <2>4. TypeOK'
        BY <1>4, <2>1, <2>3 DEF TypeOK, DropTable, Goto, request, Steps
    <2>5. WorkersHaveRequests'
        BY <1>4, <2>1 DEF TypeOK, WorkersHaveRequests, DropTable, Goto, request
    <2>6. ReleasedOrOpen'
        <3> SUFFICES ASSUME NEW s \in Sids
                     PROVE  /\ released'[s] <= 1
                            /\ s \in tables' \/ s >= nextSid' => released'[s] = 0
            BY DEF ReleasedOrOpen
        <3>1. nextSid' = nextSid /\ tables' = tables \ {sid[t]}
            BY <1>4 DEF DropTable
        <3>2. CASE s = sid[t] /\ sid[t] \in tables
            <4>1. released'[s] = released[s] + 1 /\ released[s] = 0
                BY <1>4, <3>2 DEF TypeOK, DropTable, ReleasedOrOpen
            <4>2. ~(s >= nextSid)
                BY <1>0, <2>2, <3>2 DEF Opened
            <4> QED
                BY <3>1, <3>2, <4>1, <4>2
        <3>3. CASE ~(s = sid[t] /\ sid[t] \in tables)
            <4>1. released'[s] = released[s]
                BY <1>4, <3>3 DEF TypeOK, DropTable
            <4> QED
                BY <3>1, <4>1 DEF ReleasedOrOpen
        <3> QED
            BY <3>2, <3>3
    <2> QED
        BY <2>4, <2>5, <2>6
<1>5. ASSUME NEW t \in Threads,
             \/ DropCache(t) \/ Look(t) \/ FindTable(t) \/ Declare(t)
             \/ Retype(t) \/ Store(t) \/ Fetch(t) \/ Invoke(t)
      PROVE  RegistryInv'
    <2>1. /\ Opened' = Opened /\ tables' = tables /\ nextSid' = nextSid
          /\ released' = released /\ late' = late
          /\ sid' = sid /\ kind' = kind /\ pool' = pool
        BY <1>5 DEF DropCache, Look, FindTable, Declare, Retype, Store, Fetch,
                    Invoke, Goto, Opened, registry, request, history
    <2>2. \E to \in Steps : pc' = [pc EXCEPT ![t] = to]
        BY <1>5 DEF DropCache, Look, FindTable, Declare, Retype, Store, Fetch,
                    Invoke, Goto, Steps
    <2>3. t \in pool /\ (pc[t] # "idle" /\ pc[t] # "invoke" => sid[t] \in Opened)
        BY <1>5 DEF DropCache, Look, FindTable, Declare, Retype, Store, Fetch,
                    Invoke, Goto, WorkersHaveRequests
    <2>4. pc[t] = "invoke" => pc' = [pc EXCEPT ![t] = "idle"]
        BY <1>5 DEF DropCache, Look, FindTable, Declare, Retype, Store, Fetch,
                    Invoke, Goto
    <2>5. pc[t] # "idle"
        BY <1>5 DEF DropCache, Look, FindTable, Declare, Retype, Store, Fetch,
                    Invoke, Goto
    <2>6. cache' \subseteq Opened
        BY <1>5, <2>3 DEF TypeOK, DropCache, Look, FindTable, Declare, Retype,
                    Store, Fetch, Invoke, Goto, registry
    <2>7. restype' \in {"pointer", "declared"} /\ misfreed' \in BOOLEAN
        BY <1>5 DEF TypeOK, DropCache, Look, FindTable, Declare, Retype, Store,
                    Fetch, Invoke, history
    <2>8. TypeOK'
        BY <2>1, <2>2, <2>6, <2>7 DEF TypeOK
    <2>9. WorkersHaveRequests'
        BY <2>1, <2>2, <2>3, <2>4, <2>5 DEF TypeOK, WorkersHaveRequests
    <2>10. ReleasedOrOpen'
        BY <2>1 DEF ReleasedOrOpen
    <2> QED
        BY <2>8, <2>9, <2>10
<1>6. CASE UNCHANGED vars
    BY <1>6 DEF TypeOK, WorkersHaveRequests, ReleasedOrOpen, Opened, vars,
                registry, request, history
<1> QED
    BY <1>1, <1>2, <1>3, <1>4, <1>5, <1>6 DEF Next, Step

\* A single worker runs one statement at a time, so nothing changes between the
\* two assignments of _bind or between the two dicts CloseSession drops it from.
LEMMA NextKeepsOneWorker ==
    RegistryInv /\ OneWorkerInv /\ [Next]_vars => OneWorkerInv'
<1> SUFFICES ASSUME RegistryInv, OneWorkerInv, [Next]_vars,
                    NEW w \in Threads, pool' = {w}
             PROVE  OnlyWorker(w)'
    BY DEF OneWorkerInv
<1> USE DEF RegistryInv
<1>1. pool = {w}
    BY DEF Next, Step, OpenSession, CloseSession, Call, DropCache, DropTable,
           Look, FindTable, Declare, Retype, Store, Fetch, Invoke, Goto, vars
<1>2. OnlyWorker(w)
    BY <1>1 DEF OneWorkerInv
<1>3. /\ Opened \subseteq Sids /\ nextSid \notin Opened /\ NoSession \notin Opened
      /\ tables \subseteq Opened
      /\ \A s \in tables : released[s] = 0
      /\ pc[w] \notin {"idle", "invoke"} => sid[w] \in Opened
    BY OpenedAreSids DEF TypeOK, WorkersHaveRequests, ReleasedOrOpen
<1>4. pc \in [Threads -> Steps] /\ sid \in [Threads -> Opened \cup {NoSession}]
      /\ late \subseteq Threads
    BY DEF TypeOK
<1>5. ASSUME NEW t \in Threads, OpenSession(t)
      PROVE  OnlyWorker(w)'
    BY <1>1, <1>2, <1>4, <1>5 DEF OnlyWorker, OpenSession, Goto, request, history
<1>6. ASSUME NEW t \in Threads, NEW s \in 1 .. (nextSid - 1), CloseSession(t, s)
      PROVE  OnlyWorker(w)'
    BY <1>1, <1>2, <1>4, <1>6 DEF OnlyWorker, CloseSession, Goto, registry, history
<1>7. ASSUME NEW t \in Threads, NEW s \in (1 .. (nextSid - 1)) \cup {NoSession},
             NEW k \in Kinds, Call(t, s, k)
      PROVE  OnlyWorker(w)'
    BY <1>1, <1>2, <1>4, <1>7 DEF OnlyWorker, Call, Goto, registry
<1>8. ASSUME NEW t \in Threads, DropCache(t)
      PROVE  OnlyWorker(w)'
    BY <1>1, <1>2, <1>4, <1>8 DEF OnlyWorker, DropCache, Goto, request, history
<1>9. ASSUME NEW t \in Threads, DropTable(t)
      PROVE  OnlyWorker(w)'
    BY <1>1, <1>2, <1>4, <1>9 DEF OnlyWorker, DropTable, Goto, request
<1>10. ASSUME NEW t \in Threads, Look(t)
       PROVE  OnlyWorker(w)'
    BY <1>1, <1>2, <1>4, <1>10 DEF OnlyWorker, Look, Goto, registry, request, history
<1>11. ASSUME NEW t \in Threads, FindTable(t)
       PROVE  OnlyWorker(w)'
    BY <1>1, <1>2, <1>4, <1>11 DEF OnlyWorker, FindTable, Goto, registry, request, history
<1>12. ASSUME NEW t \in Threads, Declare(t)
       PROVE  OnlyWorker(w)'
    BY <1>1, <1>2, <1>4, <1>12 DEF OnlyWorker, Declare, Goto, registry, request, history
<1>13. ASSUME NEW t \in Threads, Retype(t)
       PROVE  OnlyWorker(w)'
    BY <1>1, <1>2, <1>4, <1>13 DEF OnlyWorker, Retype, Goto, registry, request, history
<1>14. ASSUME NEW t \in Threads, Store(t)
       PROVE  OnlyWorker(w)'
    BY <1>1, <1>2, <1>4, <1>14 DEF OnlyWorker, Store, Goto, request, history
<1>15. ASSUME NEW t \in Threads, Fetch(t)
       PROVE  OnlyWorker(w)'
    <2>1. w \in late /\ pc[w] = "fetch" => sid[w] \notin cache
        BY <1>2, <1>3 DEF OnlyWorker
    <2> QED
        BY <1>1, <1>2, <1>4, <1>15, <2>1
           DEF OnlyWorker, Fetch, Goto, registry, request, history
<1>16. ASSUME NEW t \in Threads, Invoke(t)
       PROVE  OnlyWorker(w)'
    BY <1>1, <1>2, <1>4, <1>16 DEF OnlyWorker, Invoke, Goto, registry, request
<1>17. CASE UNCHANGED vars
    BY <1>2, <1>17 DEF OnlyWorker, vars, registry, request, history
<1> QED
    BY <1>5, <1>6, <1>7, <1>8, <1>9, <1>10, <1>11, <1>12, <1>13, <1>14, <1>15,
       <1>16, <1>17 DEF Next, Step

-----------------------------------------------------------------------------
(* Theorems.                                                               *)

\* The registry stays well-formed, however the workers interleave.
THEOREM RegistryInvariant == Spec => []RegistryInv
BY InitRegistry, NextKeepsRegistry, PTL DEF Spec

\* However many CloseSession calls race, each session is released once at most.
THEOREM SessionsReleasedOnce == Spec => []ReleasedOnce
<1>1. RegistryInv => ReleasedOnce
    BY DEF RegistryInv, ReleasedOrOpen, ReleasedOnce
<1> QED
    BY <1>1, RegistryInvariant, PTL

\* A server with one worker keeps its own invariant.
THEOREM OneWorkerInvariant == Spec => []OneWorkerInv
<1>1. Init => OneWorkerInv
    BY DEF Init, OneWorkerInv, OnlyWorker
<1> QED
    BY <1>1, NextKeepsOneWorker, RegistryInvariant, PTL DEF Spec

\* With one worker, calls that begin after CloseSession are refused, and the cache
\* keeps no closed session once the server is idle.
THEOREM ClosedSessionsEnd == Spec => []SessionsEnd
<1>1. RegistryInv /\ OneWorkerInv => SessionsEnd
    <2> SUFFICES ASSUME RegistryInv, OneWorkerInv, OneWorker
                 PROVE  /\ CallsAfterCloseRefused
                        /\ (\A t \in Threads : pc[t] = "idle") => cache \subseteq tables
        BY DEF SessionsEnd
    <2>1. PICK w \in Threads : pool = {w}
        BY OneWorkerIsSingleton DEF RegistryInv, TypeOK
    <2>2. OnlyWorker(w)
        BY <2>1 DEF OneWorkerInv
    <2>3. \A t \in late : t = w \/ pc[t] = "idle"
        BY <2>1 DEF RegistryInv, WorkersHaveRequests, TypeOK
    <2> QED
        BY <2>2, <2>3 DEF OnlyWorker, CallsAfterCloseRefused
<1> QED
    BY <1>1, RegistryInvariant, OneWorkerInvariant, PTL

\* With one worker, what reaches the C deallocator is never a Python copy.
THEOREM OnlyBuffersFreed == Spec => []BuffersFreed
<1>1. RegistryInv /\ OneWorkerInv => BuffersFreed
    BY OneWorkerIsSingleton
       DEF RegistryInv, TypeOK, OneWorkerInv, OnlyWorker, BuffersFreed
<1> QED
    BY <1>1, RegistryInvariant, OneWorkerInvariant, PTL
=============================================================================
