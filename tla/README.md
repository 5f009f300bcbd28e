# TLA+ models of ferrule (header-intent)

The program turns a C header and its source into a *specification* of the
library (which functions create, borrow, use or destroy a handle, which pointers
are outputs, who owns what is returned), decides which functions are safe to
expose, and serves those through Python, MCP or gRPC. Clients never see
pointers: a handle table stands between them and C.

Two halves have to be right for that to be safe. The **runtime** must never hand
out a pointer C has freed or free one twice, under threads and across sessions.
The **inference** must err towards refusing and towards not freeing, whatever
order it looks at functions in and whichever of its analyses fails. The modules
here cover both, and join them at the call: what the inference believed decides
which values go into C, which come back, and what is freed.

## 1. The system

Paths are relative to `src/src/`.

| component | state it keeps | operations | talks to |
|---|---|---|---|
| handle table `core/handles.py` | items, ownership flags, parent and child maps, a bounded memory of dead ids, an id counter, a lock | `put`, `get`, `is_owned`, `pop`, `pop_cascade` | called by every capability |
| invoker `core/invoker.py` | none of its own; the C heap behind it, and the return types bound on the shared library object | one `invoke` per calling shape: creates, borrows, uses, destroys, out-handle, caller state, array, plain | handle table, C library |
| gRPC servicer `emit/proto.py`, `emit/grpc_server.py` | the registry of sessions (id to handle table), the cache of capabilities per session, a thread pool | OpenSession, CloseSession, one call per capability | invoker, binding |
| lifecycle inference `layers/l2_handles.py` | role, evidence and parameter of each function, during a fixed point | classify, forward, upgrade | reads the engines' records, writes the spec |
| ownership inference `layers/l2_ownership.py`, `layers/l2_out_handles.py` | a partial verdict map, during a fixed point | seed, propagate, default | as above |
| signature extraction `models/extract.py`, `layers/l1_signature.py` | none | map C types, leave out what cannot be bound, classify parameters | header; writes the first spec |
| def-use and array analyses `layers/l2_static.py`, `layers/l2_arrays.py` | none | note reads and writes of a parameter, loops and their bounds | feed fusion and the spec |
| fusion `fuse/fusion.py` | none | combine type evidence and def-use evidence | writes the spec |
| pipeline `pipeline.py`, coverage `layers/l2_handle_propagation.py` | the specification being built | the stages, each in its own `try` | all of the above |
| probes `verify/probes.py` | the specification | run a function, confirm or halve its confidence | C library |
| policy `core/policy.py` | none | `check_exposable` | gate in front of the invoker |
| libclang engine `layers/libclang_engine.py` (and the pycparser walks inside each layer) | none | walk a syntax tree, record what a body does; merge several files | feed the inference |
| spec objects, other emitters, CLI, deprecated server, reuse metrics, evaluation | data or none | formatting, I/O, wrappers | - |

The behaviours that are hard to test:

* **Interleaving.** gRPC methods run on a pool. `invoke` is a sequence of table
  calls around a C call with no lock around the whole; `get` and `is_owned` take
  no lock at all; the servicer's dictionaries are shared without one.
* **Long call sequences.** Ids, addresses and ownership are related only by what
  a client did many calls ago.
* **Fixed points.** Functions call each other in circles; the passes have caps;
  dictionaries and sets decide the order.
* **Partial failure.** Any analysis may raise; the rest goes on with what earlier
  stages wrote.
* **Overwriting.** Stages write over each other's verdicts.
* **Walks without control flow.** A body is read once, in text order, branches
  included; what is concluded has to hold on every execution.
* **Two engines.** libclang and pycparser record the same things by different
  rules.

PROJECT.json lists each hazard at its line with the properties that cover it.

## 2. Modules

| module | models | built on |
|---|---|---|
| `HandleTable` | `put` and `pop_cascade` as atomic actions | - |
| `HandleTableLocking` | the same code statement by statement, with the lock-free readers | `HandleTable`, refines it |
| `Capabilities` | the calling shapes, one call at a time, over an arbitrary C library | `HandleTable`, refines it |
| `Workers` | the steps of `invoke` on a thread pool | `Capabilities`, refines it for one worker |
| `Sessions` | the servicer: registry, cache, rebinding | - |
| `Lifecycle` | which functions destroy a handle | - |
| `Bodies` | C function bodies, and what executing one does | - |
| `Extraction` | what the two engines record of a body, several files included | `Bodies` |
| `Ownership` | who owns a returned pointer, a string, an out-parameter | `Extraction` |
| `Signatures` | what of a C declaration reaches the specification | - |
| `Accesses` | reads and writes of a parameter, loops over arrays | - |
| `Pipeline` | the stages from declaration to calling shape, failures included | `Signatures`, `Accesses`; takes the verdicts of `Lifecycle` and `Ownership` as input |
| `HandleTableProofs`, `HandleTableLockingProofs`, `CapabilitiesProofs`, `SessionsProofs`, `LifecycleProofs`, `OwnershipProofs`, `PipelineProofs` | theorems (section 6) | the module they are named after; `CapabilitiesProofs` about `Workers` too |
| `NumberLemmas` | least and greatest elements of sets of naturals, for the proofs | - |

### HandleTable

A Python dict is a function whose domain is its key set: `items`, `owned`,
`parent`, `children`, `invalidated`, `invalidatedOrder`, `nextId` are the fields
of the class. `Put` is `put`, `PopCascade` is `pop_cascade` (worklist, removal,
the memory of dead ids with its eviction, the unlinking from the parent),
`RefusePop` its error paths. The worklist is written as the least set closed
under children; the order in which it visits, which decides what is forgotten
first, is any order with parents before children. Two history variables record
lineage and the ids that were destroyed; no action reads them.

### HandleTableLocking

Each statement that a reader can observe is an action; `lock` is the mutex.
`AtomicSpec` is the refinement: with the table seen as it was when the lock was
last released, every step is one of `HandleTable` or a stutter. `GrantsAreRight`
says of the lock-free readers what they do guarantee: an answer that grants
something (an object, a freeable handle) was right at some moment while they
ran.

### Capabilities

The C library is not in the repository, so it is external and as arbitrary as the
invoker allows: a heap of trees of nodes, addresses reused after a free, and a
set of *idioms* a library may use besides (detaching a node, attaching one,
pruning, returning a pointer into a second argument, ...). The idioms are chosen
in the initial state, and every property names those it does not survive. Each
calling shape is an action. A call that C cannot survive (a freed pointer, a
destructor given something that is not a root, an id used as an address) is
recorded in `faults`, after which the model stops.

### Workers

`invoke` opened into Check, Resolve, CallC, RegisterResult and PopHandle, one
program counter per thread. `OneCallPerTree` is the discipline under which the
serial guarantees survive: no client has two calls in flight on handles of one
tree, nor on the same id, even one that is not issued yet (ids count up, so a
client can name the next one; two such calls would meet on the handle a third
call then registers). `SerialSpec` is the refinement to `Capabilities` for one worker.

### Sessions

Each line of `OpenSession`, `CloseSession`, `caps_for` and `_bind` that touches
shared state is an action.

### Lifecycle

A C function is what extraction records of it: the struct types of result and
parameters, which parameters it frees (always, or on a branch), the calls each
parameter is passed on by. `OwnFact` is the classification from the body,
`Visit` one function of one pass, `EndRound` the end of a pass (another, return,
or `FixedPointNotReached`). `forwards` is built from a Python set, so the order
in which parameters are scanned is any order. The two engines differ: only
pycparser fills in which frees are conditional. `ReachesFree` is the reference
the result is measured against, the least set of parameters closed under the
calls themselves. `Extractable` is what a `HandleRecord` may hold.

### Bodies and Extraction

A body is a sequence of declarations, assignments, calls and returns over names,
members, `*o`, NULL, literals and calls, each perhaps inside a branch. `Bodies`
says what an *execution* of one does (`Executions`: one for each choice of
branches): which object each variable and member holds, what was freed, what a
callee may have kept. `HandedOver` is what "owned" has to mean: NULL, or an
object that is fresh or was unlinked from the structure it came from, and that
nothing else leads to. Nothing in the code computes that; it is the measure.

`Extraction` is what the code computes instead, in text order and without
branches: the origin of each local after each statement (`OriginsAfter`), one
origin for the result (`PointerOrigin`), escapes (`Escapes`), the detach rule
(`Detaches`), the returns of a string function (`StringRecord`), what is written
through an out-parameter last and where it is forwarded to (`Written`,
`ForwardedTo`). Where libclang and pycparser differ the definition has an
`engine`. `FileOf` and `Defined` are `_merge_multi`: an unreadable file is
skipped and the first definition of a name wins. Both modules write their walks
as one step per statement (`Step`; `Learn`, `Gather`) under a recursive function
(`StatesAfter`; `OriginsAfter`, `AllocatedAfter`), so that the proofs can speak
of one statement at a time. `WellFormed` says which records are C functions.

### Ownership

The three analyses have one shape (seed from the record, take over from callees,
default to the library), and differ in seed, in what they depend on, and in what
an unknown callee means; `library.analysis` selects. The input is C bodies in
one or two files; the records are extracted in the initial state. Manual facts
and the ValueError for an invalid one are included, and reach libclang's
analysis only, as in the code. `OwnedByEvidence`, a least closed set, is the
reference for the passes, `Executions` the one for the verdicts. An execution of
one function takes its callees at their word: what an owned callee returns is
fresh. That is the promise the same property makes of the callee, so the
properties hold together for a library whose bodies all meet the premises.

### Signatures and Accesses

`Signatures` takes a declaration (form, base type, const, what its name or an
override says) to the ctypes class (`MapType`), to whether the function can be
bound at all (`Bindable`), and to the shape the first layer sees (`ShapeOf`).
`InLibrary` and `StructDims` decide whether a struct's layout may be used.

`Accesses` gives the accesses of a body to one pointer and the events the
collectors note for them (`Seen`), from them intent and confidence
(`Findings`); and loops with their variable, bound and arrays, from them the
length of an array (`ArrayFacts`). `Reads` and `Writes` are what C does, whatever
the collectors noted.

### Pipeline

One function with three parameters, given by its declaration and by what its
body does with scalars and arrays, goes through the stages in the order of
`infer_spec` (`Order`); a run without source, or with extensions turned off, has
fewer of them (`Scheduled`). Verdicts of the handle and ownership analyses, and
what the rest of the library contributes, are inputs. Each stage may raise
instead, in which case it has written nothing; failure of any coverage pass ends
all three. `Fuse`, `Handles`, `Ownership`, `Strings`, `OutHandles`, `Arrays`,
`Propagate`, `Promote`, `CallerState` are the `apply_` functions, `Probe` is
`apply_verification`, `Exposable` is `check_exposable`. Behind the gate stand
the parts of the invoker that depend on what was inferred: `CallingShape` (the
dispatch of `build_capability`), `ClientsValue` and `HandedBack` (which cells a
plain call fills and returns), `LengthGiven` (the length an array call passes),
`Deallocator` and `TextResult` (what becomes of a `char *`).

Confidences are in thousandths; halving rounds down, and no confidence that the
code can produce lies within one thousandth of the threshold other than on it.

## 3. Runs

| run | instance | what it shows |
|---|---|---|
| `table` | 5 handles, a memory of 2 | five handles give every forest of depth up to five, siblings included, and three cascades; two remembered ids make eviction happen in the middle of a cascade |
| `locking` | 2 threads, 3 handles, a memory of 1 | three handles are a root, a child and a grandchild or sibling: every kind of worklist; one thread writes while the other reads or waits |
| `capabilities` | 3 addresses, 4 handles; no idiom, each alone, all but attach | three addresses allow a tree with two nodes beside another tree, and reuse of an address while an old id is still around; addresses are interchangeable, hence the symmetry |
| `workers` | 1 or 2 threads, 2 addresses, 3 handles, one call per tree | a borrow, a root and another tree; two threads show any race of a pair; races of more calls (two on an id a third one registers) are covered by the theorems of section 6 |
| `workers_double_free` | 2 threads, no discipline | the double free (violation) |
| `sessions` | 1 or 2 threads, 2 sessions | a session closes while another is used |
| `sessions_zombie` | 2 threads, 1 session | the closed session that comes back (violation) |
| `lifecycle` | 3 functions, 2 types, both engines, a cap of 2 passes | chains of two forwards in both directions of the scan order, circles, wrong types, two parameters; the cap of 2 (10 in the code) makes the raise happen |
| `lifecycle_libclang` | the same, libclang | conditional frees asserted (violation) |
| `ownership` | 3 functions with bodies from the idioms in `MCOwnership`, one that allocates and one outside, 1 or 2 files, both engines, a cap of 2 passes | chains in and against the order, circles, truncation by the cap, a skipped file, two definitions of a name; branches that allocate, clear, free or return early, and for each premise of the verdicts a body outside it; manual facts for analysed, unanalysed and misspelt owners |
| `pipeline` | 6 families of functions of 3 parameters, 2 failures, 2 probes | see below |
| `pipeline_popped` | the same, no failure | the wrong handle popped (violation) |

The families of `pipeline` are `Handled` (every pair of shapes with every
verdict and library), `Scalars` (two accesses of every kind to one pointer),
`Arrayed` (two loops over two integers and up to two arrays), `Texts` (strings
beside each calling shape), `Declarations` (every type of one parameter and
everything of the struct) and `Switched` (the shorter runs). Two neighbours are
what the rules that look beside a parameter need, two accesses what tells an
order, two loops what makes one bound shadow another. Two failures combine any
two missing stages; a second run of the probes meets a confidence already
halved. The third parameter is the length two arrays may share; no rule looks at
a fourth.

`CHECK_DEADLOCK FALSE` appears where the system may stop: inference ends when
the verdicts are in, the serial and threaded invoker models stop at a C fault
(after which nothing is known of the process) and when the bounded ids run out.

Bounds that the code does not have: `MaxHandles` (ids are an unbounded counter),
`MaxSessions`, `MaxFailures`, `MaxProbes`. `InvalidatedMemory`, `MaxIters` and
`MaxRounds` are constants of the code with smaller values.

**Fairness.** `LockComesFree` assumes weak fairness of each thread's statements
inside the critical section: the interpreter runs every thread and they wait for
nothing. Starting a call is not fair: a client that never calls again is no
violation.
`Terminates` assumes that the one sequential program goes on. The other
inference runs are safety only: a stage that raises or never returns promises
nothing.

## 4. Properties

**Handle table.** A handle is served only while everything it was derived from
is (`LineageLive`); one pop removes exactly the owner and its descendants
(`CascadeExact`); ids are not reused (`DeadStayDead`); the owner named by a
stale error was an ancestor and was destroyed (`StaleNamesKiller`); a stale id
reads as stale until the memory is full of later ones (`StaleUntilForgotten`);
the two maps describe one forest (`ForestConsistent`).

**Capabilities.** No handle dangles (`ServedAlive`), owned handles are distinct
whole trees (`OwnedIsDistinctRoot`), every tree can be released
(`EveryRootReclaimable`), memory goes only through its owner
(`FreedOnlyThroughOwner`), C is never given what it cannot take (`NoFault`, of
which `NoInvalidFree` is the part about destructors), and the table is only used as specified (`TableSpec`).

**Workers.** The same between calls (`TableMatchesHeap`), no fault, and `pop_cascade` never refuses what the destructor has already freed
(`PopNeverRefused`).

**Sessions.** `ReleasedOnce` under any race; `SessionsEnd` and `BuffersFreed`
for a server with one worker.

**Lifecycle.** `DestroysGrounded` and `NoFreeOverlooked` are soundness and
completeness against `ReachesFree`, the first also that a conditional free is
not asserted (pycparser); `PartialNeverReturned` and `Terminates` are about the
passes.

**Ownership.** Two layers. The passes: what is called owned is in
`OwnedByEvidence`, whatever the cap cut off (`OwnedIsTraced`), and a converged
result misses nothing of it (`ConvergedIsComplete`); both range over annotated
functions without a body too. The verdicts: what is called owned is handed over
on every execution of the body, for pointers (`PointerOwnedIsHandedOver`),
strings (`StringOwnedIsHandedOver`) and out-parameters (`ConfirmedIsAllocated`).
The second layer cannot hold of every C body, since the walks follow no control
flow. The premises are conditions on the text of the body alone, and say for
which it does. For every analysis (`Straightforward`): each local is given one
value besides NULL and none copies another (`AssignedOnce`), and is assigned on
every path before it is read (`Initialised`). For pointers (`Traceable`): one
return matters, the last statement (`ReturnsLast`); what could keep the result is
a handle parameter under its own name (`KeptByHandles`); a member that becomes
the result is read once, then overwritten on every path (`TakenOnce`). Strings
and out-parameters have no escape rule and need `KeepsNothing`, an out-parameter
also `FilledOnce`. None of them can be left out: the run has a body for each, and
finds the property violated by it when the premise is dropped (section 5).

**Pipeline.** Nothing destroyable without traced ownership
(`FreeableIsTraced`), no conditional destructor (`UncertainRefused`), no struct
of the library's or the system's laid out by the binding
(`ManagedNeverAllocated`), no output that the probes refuted
(`RefutedOutRefused`). What C writes to is what the binding provides
(`WritableIsProvided`); a scalar behind a pointer goes in where C reads it first
and comes back where C writes it (`ScalarsTravelBothWays`); the length passed is
the length of the list C loops over (`LengthIsTheBound`); an owned string, and no
other, is freed, and by the right function (`TextFreedIffOwned`). Each comment
names the exceptions.

A type invariant is checked by a run for the table only. For the other modules it
is a conjunct of the inductive invariant in the module of their proofs.

## 5. Disagreements between the code and its own documentation

Shown by a run:

* `workers_double_free`: check, C call and pop are not one step.
* `sessions_zombie`: `caps_for` can bring back a closed session.
* `lifecycle_libclang`: the default engine records no conditional frees; the fact
  is among those returned, since a function of the library returns the type.
* `pipeline_popped`: the handle that is checked and popped is the first handle
  parameter, not the one found freed.

Met while modelling, with the property that excludes it, and not given a run of
their own:

* Without `OneCallPerTree` a call can run on freed memory, and a borrow that
  races the destruction of its parent registers an orphan root
  (`NoFault`, `TableMatchesHeap`).
* An out-parameter handle that points into a live object gets no parent
  (`invoker.py:173`); a detached node's old borrows keep the old parent; pruning
  invalidates nothing; a result that points into the second argument is
  registered under the first (`ServedAlive`). An attached object keeps its owned
  handle (`NoInvalidFree`). A handle beside caller-allocated state is passed as
  the integer itself (`NoFault`).
* During a `pop_cascade`, `get` can raise the unknown-id error for an id that is
  being invalidated, and `is_owned` can call an owned handle borrowed: both
  refuse, with the wrong reason (`GrantsAreRight` is about grants only).
* With two workers, rebinding a function for one session changes its return type
  under another (`BuffersFreed` is for one worker). Requests without a session id
  share one table.
* Lifecycle: the parameter recorded for a wrapper can depend on the hash order of
  `forwards`, since an uncertain function leaves the loop after the first
  parameter, against the comment that a stronger path may upgrade it; a function
  that frees two parameters is recorded for one (`NoFreeOverlooked` is stated for
  libraries of one-parameter functions); a call inside a branch counts as an
  unconditional forward.
* Ownership (the module's documentation says "We always err toward BORROWED",
  `l2_ownership.py:28-30`). What errs towards owned, by the premise that leaves
  it out:
  * `AssignedOnce`: the last assignment in the text wins, on whatever branch; a
    store or a call that goes through a second name of the result is overlooked;
    a parameter that is reassigned still counts as the caller's argument.
  * `Initialised`: `if (c) x = malloc(); return x;` is owned, although `x` may
    never have been given a value.
  * `ReturnsLast`: one allocating return makes a pointer function owned whatever
    the others do (strings are stricter), and a return after a return counts.
  * `KeptByHandles`: the escape rule looks for a handle parameter by its name
    (`libclang_engine.py:791-804`). It misses a structure reached through a
    borrowed local (`y = p->f; keep(y, x); return x;`) or through a member passed
    beside the result, which pycparser sees, and exempts the function the result
    came from, to which the result may be passed back.
  * `TakenOnce`: the detach rule is content with a `p->f = NULL` on one path, and
    does not see that the member was read a second time.
  * `KeepsNothing`: strings and out-handles have no escape rule; pycparser has
    neither the store rule nor the detach rule.
  * `FilledOnce`: libclang takes the first of several forwards, where
    `l2_out_handles.py:18-21` asks for "exactly one other call"; the last write
    in the text decides, although a return before it may leave `*o` with what was
    borrowed earlier.
  * The transfer rule asks that the *returned* parameter be written to, where
    the docstring (`libclang_engine.py:617-620`) says "a DIFFERENT parameter's
    structure"; it and the allocation words go by names, and are not judged.
  * Two static functions of one name in two files are one record, the first one
    merged. An out-parameter forwarded to another file stays refused.
* Annotations: a misspelt owner raises, the pipeline skips the ownership stage,
  and every `creates` stays freeable (`FreeableIsTraced` excludes runs in which
  that stage failed); an annotated function without a body does not settle its
  callers; with pycparser annotations are dropped.
* Lifecycle, libclang: a destructor that is given only `p->child` counts as given
  `p`.
* Def-use: branches are not followed; `(*p)++`, `*(p + i)` and writes in a callee
  are overlooked; libclang never notes that a pointer escapes, so its findings
  keep the confidence of those that do not (`ScalarsTravelBothWays` names them).
* Arrays: the element type is lost: a `const int *` keeps `c_void_p`
  (`l1_signature.py:50-52`), and its list is marshalled as one of pointers
  (`invoker.py:298-300`). The first bound found is given to every pointer to
  scalars, so that `sum(const int *a, int n, long *out)` makes a list of `out`;
  `i <= n` counts as `i < n`; an output array becomes an input and its results
  are lost, manual intents included; two lists under one length are not
  compared; an output buffer without an integer beside it is given one cell
  (`LengthIsTheBound` takes one array with one bound, and the length as right
  when it is the bound).
* Signatures: an array of `char` is taken for read-only text whatever its const,
  which the comment in `_map_type` warns of for pointers; an override on a `T *`
  or `void *` makes it a number (`WritableIsProvided` is about pointers, and the
  instance has overrides on pointers to scalars).
* Invoker: an owned string returned beside output cells, or by a function with
  arrays, reaches the client as a raw address, and in the out-handle and
  caller-state shapes it is read and leaked; when the handle analysis failed, the
  object destructor may be the single candidate to free strings with
  (`TextFreedIffOwned` excludes it). A scalar output in a lifecycle, array,
  out-handle or caller-state shape has no cell: its value is looked up among the
  arguments and the call raises. An array call drops what C wrote to its scalars.
* Pipeline: a `T**` parameter turns an uncertain destructor into a `creates`,
  past policy rule 0 (`UncertainRefused` excludes it); after a failed handle
  stage a type the library hands out can be taken for caller-allocated state
  (`ManagedNeverAllocated` excludes it).

## 6. Proofs

What a run shows on its instance, a theorem here shows for every value of the
constants: any number of handles, threads, addresses, sessions, functions,
stages that fail and passes. Each safety theorem follows from an inductive
invariant, which TLC checked on the instance of the run before it was proved. The
lemmas say, in this order: what the module's operators return, that the initial
states satisfy the invariant, that each action keeps each conjunct it can
disturb.

| module | theorem | property | invariant |
|---|---|---|---|
| `HandleTableProofs` | `TypeCorrect` | `TypeOK` | `TreeInv` (`TreeInvariant`) |
| | `NoHandleOutlivesItsOwner` | `LineageLive` | |
| | `CascadeIsExact` | `CascadeExact` | |
| | `IdsAreNeverReused` | `DeadStayDead` | |
| | `StaleErrorIsTruthful` | `StaleNamesKiller` | |
| | `ForestStaysConsistent` | `ForestConsistent` | |
| | `StaleIdsAreRemembered` | `StaleUntilForgotten` | `TableInv` (its conjuncts) |
| `HandleTableLockingProofs` | `LockingImplementsTable` | `AtomicSpec` | `LockInv` (`LockingInvariant`) |
| | `GrantsAreJustified` | `GrantsAreRight` | |
| `CapabilitiesProofs` | `CapabilitiesImplementTable` | `TableSpec` | `CapInv` |
| | `HandlesServedAlive` | `ServedAlive` | |
| | `OwnedHandlesDistinct` | `OwnedIsDistinctRoot` | |
| | `RootsReclaimable` | `EveryRootReclaimable` | |
| | `NoFaultOccurs` | `NoFault` | |
| | `MemoryFreedThroughOwner` | `FreedOnlyThroughOwner` | |
| | `WorkersCauseNoFault` | `NoFault`, of `Workers` | `WorkerInv` (`WorkersInvariant`) |
| | `TableMatchesHeapBetweenCalls` | `TableMatchesHeap` | |
| | `PopAfterDestructorSucceeds` | `PopNeverRefused` | |
| | `OneWorkerIsSerial` | `SerialSpec` | `SerialInv` (`SerialInvariant`) |
| `SessionsProofs` | `SessionsReleasedOnce` | `ReleasedOnce` | `RegistryInv` (`RegistryInvariant`) |
| | `ClosedSessionsEnd` | `SessionsEnd` | `OneWorkerInv` (`OneWorkerInvariant`) |
| | `OnlyBuffersFreed` | `BuffersFreed` | |
| `LifecycleProofs` | `DestructorsAreGrounded` | `DestroysGrounded` | `FactsInv` (`ClassificationInvariant`) |
| | `PartialResultsRaised` | `PartialNeverReturned` | |
| | `FreesAreFound` | `NoFreeOverlooked` | |
| `OwnershipProofs` | `OwnershipHasEvidence` | `OwnedIsTraced` | `VerdictsInv` (`VerdictsInvariant`) |
| | `ConvergedOwnershipIsComplete` | `ConvergedIsComplete` | |
| | `OwnedStringsHandedOver` | `StringOwnedIsHandedOver` | |
| | `ConfirmedOutsAllocated` | `ConfirmedIsAllocated` | |
| | `OwnedPointersHandedOver` | `PointerOwnedIsHandedOver` | |
| `PipelineProofs` | `WritableMemoryProvided` | `WritableIsProvided` | `SpecInv` |
| | `RefutedOutputsRefused` | `RefutedOutRefused` | |
| | `OwnedHandlesTraced` | `FreeableIsTraced` | `SpecInv` and `VerdictInv` |
| | `UncertainDestructorsRefused` | `UncertainRefused` | |
| | `LibraryStructsNotAllocated` | `ManagedNeverAllocated` | |
| | `OwnedTextFreed` | `TextFreedIffOwned` | |
| | `ScalarsTravel` | `ScalarsTravelBothWays` | |
| | `LengthsGiven` | `LengthIsTheBound` | |

**Assumptions.** Only those that the modules declare and TLC evaluates in the
runs: bounds are natural numbers, special values are distinct, and

* `PoolsAssumption` (`Sessions`, `Workers`): a pool is a finite set of threads;
* `InputsAssumption` (`Pipeline`): the findings that enter the stages can occur
  together (`Findable`): only a function that returns `T*` creates handles, its
  ownership verdict is there, only a `T**` is a confirmed out-handle, a loop is
  bounded by an integer parameter;
* `ProgramsAssumption`, `OrderAssumption` (`Lifecycle`): a record has one list of
  calls for each parameter, and `records.items()` yields each function once;
* `LibrariesAssumption` (`Ownership`): analysis and engine are among those there
  are, the names with a record form a finite sequence, and each is the name of a C
  function (`WellFormed`): its statements have the forms of `Bodies`, and names of
  parameters, callees and tags are told apart, which the code does with prefixes
  such as `call:`.

**The table.** `LineageLive` is not inductive alone: that a pop removes *all*
descendants needs the child map to reach everything with the popped handle in its
lineage. `TreeInv` therefore says besides that lineage is exactly the parent's
lineage and the parent, that parents are older than their children, and that the
two maps are each other's inverse. From it follows that a live handle is in the
closed set `Doomed(h)` exactly if `h` is in its lineage, on which the action
properties rest. `StaleUntilForgotten` is about the memory of dead ids: its order
is the order of death without repetition, and holds the last `InvalidatedMemory`
of them. `TableInv` collects `TreeInv` and the two properties of the memory, for
the modules that refine the table.

**The lock.** `LockInv` says for each statement under the lock how far the table
is from the committed one: which ids the worklist has collected and that their
children are collected or still on it, which have been removed, which unlinked.
When the lock is released the table is the one the atomic action yields. The
worklist is a sequence and `Doomed` a least closed set; the step that empties the
one proves it equal to the other. A reader's grant is compared with what was true
at any moment since it began (`Granted`).

**The capabilities.** Every action is one of nine effects on heap and table (a
tree is born, detached, attached, destroyed, ...); the invariant is proved per
effect. `OwnedIsDistinctRoot` alone does not keep `ServedAlive`: a destroy must
reach every handle into the tree it frees, which is `Anchored` (a handle into a
tree is the owned handle of its root or has it in its lineage).

**The workers.** Between its C call and what follows it, a call leaves the table
wrong: after a destructor there are handles without a tree (`Dying` and what
derives from it), after a constructor a tree without a handle (`Newborn`).
`WorkerInv` is the serial invariant for the `Sound` handles, those no
destruction under way takes out, with the trees of `Newborn` calls added, and for
each thread what its own next step relies on (`CallOK`). The argument of a call
that is not popping is sound because calls in flight name different families
(`Disjoint`): this is where the discipline enters. The theorems say `Orderly =>`
of their property, where `Orderly` is `OneCallPerTree` or a pool of one; it is
true in every state of the run. For one worker `SerialInv` adds how the heap
differs from the one the call found, and `SerialStep` maps RegisterResult to
`Creates` or `Borrows`, PopHandle to `Destroys`, a CallC that grows a tree to
`Uses`, and every other step to a stutter.

**The servicer.** `ReleasedOrOpen` (a session is in the registry or released,
never both) carries `ReleasedOnce` for any pool. The other two are about a pool
of one worker and need `OnlyWorker`: the cache names open sessions only, and the
string function has its declared type only between the two assignments of `_bind`.

**The fixed points.** Both analyses are compared with a least set closed under the
calls: soundness because every upgrade hands on from something already in the
set, completeness because the result of a pass without a change is itself closed.
For the second the invariant has to say what a pass has settled so far
(`PassSettles`), that a verdict of a record stands (`SeedStands`), and that an
inherited refusal keeps its reason (`RefusalStands`).

**The verdicts.** The passes give `CallerGrounded`: what is the caller's is so by
its record, or hands on only results that are. The rest is about one body, of any
length and with any branches. An execution and the walks over the text are
recursive functions, which TLA+ defines as a CHOOSE; that functions satisfying
the equations exist is shown by looking at the least statement at which none
would (`ExecutionExists`, `OriginsExist`, `AllocatedExists`, from
`LeastElement`). `UpTo` carries a fact from each statement to the next; the
library's induction theorems take the fact as an operator, which the provers
cannot instantiate, so it is stated for a set of positions. Then:

1. *The execution.* What a local holds was assigned to it by a statement that ran
   (`LocalsGiven`); the result is what one return got (`ResultGiven`), the
   out-parameter what one write or call put there (`OutGiven`). With
   `AssignedOnce` and `Initialised` a local that is read holds the one value it
   is given, or NULL (`LocalHolds`, `LocalsBound`).
2. *The walk.* Every origin it knows is that of a statement that assigns the
   local (`OriginsGiven`, `AllocatedGiven`), so what it holds for owned comes from
   a call that gives away its result (`OwnedOrigin`), and evaluates to NULL or to
   a fresh object (`SourceIsFresh`).
3. *Nothing else leads there.* `Confined(st, v, X)`: only the locals of X hold v.
   A statement keeps it unless it hands v on (`ExecuteConfines`); none does, by
   `KeepsNothing` (`FreshStaysOut`) or, for pointers, because the escape rule
   would have found it (`ReturnedStaysOut`, where `KeptByHandles` enters; the
   rule looks at names with an origin by then, which the holder has,
   `HolderIsKnown`).
4. *Detaching.* The result is what the field held first (`InitialSource`); the
   field has another value once it was overwritten (`FieldBound`), and between
   the read and the return x is not handed on (`DetachedHandedOver`).

**The pipeline.** `SpecInv` relates every field of the specification to the
stages that have run, for any order of failures. Its core is `BeliefInv`: the
roles a declared shape can be given, and that an output nobody saw written stays
short of certainty, and below the threshold once the probes left it unwritten.
`GateInv` adds that nothing changes a specification the policy has let through.
`VerdictInv` says for owner, lifecycle, text, allocation, intent and length which
findings the last stage that wrote them took them from.

**Only model-checked.** `LockComesFree` and `Terminates`: liveness under fairness
is out of the prover's reach. The four violation runs are counterexamples on
their instances.

## 7. Not modelled

* Parsing itself: macros, function pointers, ternaries, parse diagnostics and the
  search for headers. A body of `Bodies` is one that parses.
* Statements repeated by a loop, beyond "may be passed over": no verdict of the
  code counts iterations.
* Which parameters a function frees, always or on a branch, is an input of
  `Lifecycle`; verdicts of `Lifecycle` and `Ownership` are inputs of `Pipeline`,
  which follows one function of a library with one handle type.
* The type of an array's elements: `Arrays` says which parameter is an array and
  which its length. That the elements of a `const` one are marshalled as pointers
  is in section 5.
* Conversion of numbers between Python and C (`core/types.py`), YAML, .proto text,
  the MCP and Python wrappers, the command line, text of reports.
* `sweep_thresholds`, the deprecated server, reuse measurement, the evaluation
  scripts: offline or kept for comparison.

## 8. Plan

Done: the table, because everything rests on it; the layers above it
(`HandleTableLocking`, `Capabilities`, `Workers`, `Sessions`); the inference
(`Lifecycle`, `Ownership` with `Bodies` and `Extraction`, `Pipeline` with
`Signatures` and `Accesses`).

The theorems of section 6 cover every safety property that a run checks.

What is left:

1. *Weaker premises.* `AssignedOnce` could allow copies of a local, at the price
   of confining an object to the set of locals that may hold it.
2. *What breaks without the discipline.* `Orderly` is sufficient; which of its
   parts each property needs (a borrow that races a destroy, two destroys) is so
   far shown by runs only.
3. *Parsing.* The bodies start where the syntax tree has been read.
