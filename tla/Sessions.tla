------------------------------ MODULE Sessions ------------------------------
(***************************************************************************)
(* emit/proto.py: the gRPC servicer.  Every session has a handle table of  *)
(* its own; the capabilities bound to it are built by the first call that  *)
(* names the session and cached.  The registry and the cache are plain     *)
(* dicts that the worker threads share without a lock.                     *)
(*                                                                         *)
(* Building capabilities also rebinds the C functions, and those are       *)
(* attributes of the one library object all sessions share: for a function *)
(* that returns a string the caller must free, _bind first sets the        *)
(* declared return type and only then the pointer type that keeps the      *)
(* address.                                                                *)
(***************************************************************************)
EXTENDS Naturals, FiniteSets

CONSTANTS
    Threads,            \* worker threads
    Pools,              \* the pools a server may be started with (max_workers)
    MaxSessions,        \* bound on the sessions opened (the code has none)
    NoSession           \* the session id of a request that names none

ASSUME PoolsAssumption == \A p \in Pools : p \subseteq Threads /\ IsFiniteSet(p)
ASSUME MaxSessionsAssumption == MaxSessions \in Nat
ASSUME NoSessionAssumption == NoSession \notin Nat

Sids == 1 .. MaxSessions
Kinds == {"string", "other"}    \* what is called: a function that returns a string
                                \* the caller frees, or any other

VARIABLES
    nextSid,        \* SessionRegistry._ids
    tables,         \* the keys of SessionRegistry._tables
    cache,          \* the keys of per_session_caps
    restype,        \* the string function's return type, as bound now
    pool,           \* the threads of this server: never changes
    pc,             \* thread -> the statement it is about to run
    sid,            \* thread -> session_id of its request
    kind,           \* thread -> the kind of capability it calls
    \* History variables.
    released,       \* sid -> how many CloseSession calls released it
    late,           \* threads whose call began after its session was closed
    misfreed        \* was a Python bytes object given to the C deallocator?

registry == <<nextSid, tables, cache>>
request == <<sid, kind>>
history == <<released, late, misfreed>>
vars == <<registry, restype, pool, pc, request, history>>

Steps == {"idle", "look", "table", "declare", "retype", "store", "fetch",
          "invoke", "closeCache", "closeTable"}

\* make_servicer has built the shared capabilities before any request arrives.
Init ==
    /\ nextSid = 1
    /\ tables = {}
    /\ cache = {}
    /\ restype = "pointer"
    /\ pool \in Pools
    /\ pc = [t \in Threads |-> "idle"]
    /\ sid = [t \in Threads |-> NoSession]
    /\ kind = [t \in Threads |-> "other"]
    /\ released = [s \in Sids |-> 0]
    /\ late = {}
    /\ misfreed = FALSE

Goto(t, from, to) ==
    /\ t \in pool /\ pc[t] = from
    /\ pc' = [pc EXCEPT ![t] = to] /\ UNCHANGED pool

-----------------------------------------------------------------------------
(* The session RPCs.                                                       *)

OpenSession(t) ==
    /\ Goto(t, "idle", "idle")
    /\ nextSid <= MaxSessions
    /\ nextSid' = nextSid + 1
    /\ tables' = tables \cup {nextSid}
    /\ UNCHANGED <<cache, restype, request, history>>

CloseSession(t, s) ==
    /\ Goto(t, "idle", "closeCache")
    /\ sid' = [sid EXCEPT ![t] = s]
    /\ UNCHANGED <<registry, restype, kind, history>>

\* Mutant: the cached capabilities are kept.
DropCacheNot(t) ==
    /\ Goto(t, "closeCache", "closeTable")
    /\ UNCHANGED <<registry, restype, request, history>>

\* per_session_caps.pop(sid, None)
DropCache(t) ==
    /\ Goto(t, "closeCache", "closeTable")
    /\ cache' = cache \ {sid[t]}
    /\ UNCHANGED <<nextSid, tables, restype, request, history>>

\* Mutant: a session that is already gone is released again.
DropTableTwice(t) ==
    /\ Goto(t, "closeTable", "idle")
    /\ tables' = tables \ {sid[t]}
    /\ released' = [released EXCEPT ![sid[t]] = @ + 1]
    /\ UNCHANGED <<nextSid, cache, restype, request, late, misfreed>>

\* sessions.close(sid): one dict.pop, whose None means "unknown session".
DropTable(t) ==
    /\ Goto(t, "closeTable", "idle")
    /\ tables' = tables \ {sid[t]}
    /\ released' = IF sid[t] \in tables
                   THEN [released EXCEPT ![sid[t]] = @ + 1] ELSE released
    /\ UNCHANGED <<nextSid, cache, restype, request, late, misfreed>>

-----------------------------------------------------------------------------
(* Servicer.call: caps_for(sid), then invoke.                              *)

Call(t, s, k) ==
    /\ Goto(t, "idle", IF s = NoSession THEN "invoke" ELSE "look")
    /\ sid' = [sid EXCEPT ![t] = s]
    /\ kind' = [kind EXCEPT ![t] = k]
    /\ late' = IF s # NoSession /\ released[s] > 0
               THEN late \cup {t} ELSE late \ {t}
    /\ UNCHANGED <<registry, restype, released, misfreed>>

\* if sid not in per_session_caps
Look(t) ==
    /\ Goto(t, "look", IF sid[t] \in cache THEN "fetch" ELSE "table")
    /\ UNCHANGED <<registry, restype, request, history>>

\* sessions.table(sid), which raises for an unknown session.
FindTable(t) ==
    /\ Goto(t, "table", IF sid[t] \in tables THEN "declare" ELSE "idle")
    /\ UNCHANGED <<registry, restype, request, history>>

\* _bind: cfn.restype = ctype_by_name(fn.restype)
Declare(t) ==
    /\ Goto(t, "declare", "retype")
    /\ restype' = "declared"
    /\ UNCHANGED <<registry, request, history>>

\* Mutant: the pointer type is not set.
RetypeNot(t) ==
    /\ Goto(t, "retype", "store")
    /\ UNCHANGED <<registry, restype, request, history>>

\* _bind: cfn.restype = ctypes.c_void_p, for a string the caller must free.
Retype(t) ==
    /\ Goto(t, "retype", "store")
    /\ restype' = "pointer"
    /\ UNCHANGED <<registry, request, history>>

\* per_session_caps[sid] = ...
Store(t) ==
    /\ Goto(t, "store", "fetch")
    /\ cache' = cache \cup {sid[t]}
    /\ UNCHANGED <<nextSid, tables, restype, request, history>>

\* return per_session_caps[sid], a KeyError if it has been dropped meanwhile.
Fetch(t) ==
    /\ Goto(t, "fetch", IF sid[t] \in cache THEN "invoke" ELSE "idle")
    /\ UNCHANGED <<registry, restype, request, history>>

\* Under the declared type ctypes converts the result to bytes, and it is the
\* bytes that _read_and_free_string frees.
Invoke(t) ==
    /\ Goto(t, "invoke", "idle")
    /\ misfreed' = (misfreed \/ (kind[t] = "string" /\ restype = "declared"))
    /\ UNCHANGED <<registry, restype, request, released, late>>

Step(t) ==
    \/ DropCache(t) \/ DropTable(t)
    \/ Look(t) \/ FindTable(t) \/ Declare(t) \/ Retype(t) \/ Store(t)
    \/ Fetch(t) \/ Invoke(t)

Next ==
    \E t \in Threads :
        \/ OpenSession(t)
        \/ \E s \in 1 .. (nextSid - 1) : CloseSession(t, s)
        \/ \E s \in (1 .. (nextSid - 1)) \cup {NoSession}, k \in Kinds : Call(t, s, k)
        \/ Step(t)

Spec == Init /\ [][Next]_vars

-----------------------------------------------------------------------------
(* Properties.                                                             *)

OneWorker == Cardinality(pool) = 1

\* However many CloseSession calls race, a session is released by one of them.
ReleasedOnce == \A s \in Sids : released[s] <= 1

\* proto.py:149, "unknown session": a call that begins after CloseSession has been
\* answered is refused, whatever was going on while it closed.
CallsAfterCloseRefused == \A t \in late : pc[t] # "invoke"

\* The same, of a server that runs one request at a time; and then the cache holds
\* capabilities of open sessions only, so that the handle table of a closed
\* session can be collected.
SessionsEnd ==
    OneWorker => /\ CallsAfterCloseRefused
                 /\ (\A t \in Threads : pc[t] = "idle") => cache \subseteq tables

\* invoker.py:105: what goes to the C deallocator is the C buffer, and never the
\* Python copy of it, on a server that runs one request at a time.
BuffersFreed == OneWorker => ~misfreed
=============================================================================
