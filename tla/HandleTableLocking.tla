------------------------- MODULE HandleTableLocking -------------------------
(***************************************************************************)
(* core/handles.py one statement at a time.  put and pop_cascade hold the  *)
(* lock from end to end; get and is_owned take no lock, and so read the    *)
(* dicts while a pop_cascade is half way through them.                     *)
(*                                                                         *)
(* A thread switch can come between any two statements.  Statements that   *)
(* touch only what no reader looks at (parent and children) are joined to  *)
(* a neighbour.                                                            *)
(***************************************************************************)
EXTENDS HandleTable

CONSTANTS Threads, Nobody
ASSUME NobodyAssumption == Nobody \notin Threads

VARIABLES
    lock,       \* the thread inside "with self._lock", or Nobody
    pc,         \* thread -> the statement it is about to run
    arg,        \* thread -> the id it was called with
    result,     \* thread -> what its read returned or raised
    pending,    \* the stack of pop_cascade's worklist: order is of no account
    doomed,     \* the list pop_cascade builds, then walks
    \* History variables.
    committed,  \* the table as the last holder of the lock left it
    seen        \* thread -> right answers to its read since it began

lockVars == <<vars, lock, pc, arg, result, pending, doomed>>
allVars == <<lockVars, committed, seen>>

Table == [items |-> items, owned |-> owned, parent |-> parent,
          children |-> children, invalidated |-> invalidated,
          invalidatedOrder |-> invalidatedOrder, nextId |-> nextId,
          lineage |-> lineage, freed |-> freed]

LockInit ==
    /\ Init
    /\ lock = Nobody
    /\ pc = [t \in Threads |-> "idle"]
    /\ arg = [t \in Threads |-> None]
    /\ result = [t \in Threads |-> "none"]
    /\ pending = {}
    /\ doomed = <<>>
    /\ committed = Table
    /\ seen = [t \in Threads |-> {}]

Goto(t, from, to) == pc[t] = from /\ pc' = [pc EXCEPT ![t] = to]
Acquire(t) == lock = Nobody /\ lock' = t
Release(t) == lock' = Nobody
Locals == <<arg, result, pending, doomed>>

-----------------------------------------------------------------------------
(* put: the item is visible before its owned flag.                         *)

PutItem(t, obj, own, par) ==
    /\ Goto(t, "idle", IF own THEN "putOwned" ELSE "putBorrowed")
    /\ Acquire(t)
    /\ nextId <= MaxHandles
    /\ nextId' = nextId + 1
    /\ items' = Assign(items, nextId, obj)
    /\ arg' = [arg EXCEPT ![t] = par]
    /\ UNCHANGED <<owned, parent, children, invalidated, invalidatedOrder,
                   historyVars, result, pending, doomed>>

PutRest(t) ==
    /\ \/ Goto(t, "putOwned", "idle") /\ owned' = Assign(owned, nextId - 1, TRUE)
       \/ Goto(t, "putBorrowed", "idle") /\ owned' = Assign(owned, nextId - 1, FALSE)
    /\ Adopt(nextId - 1, arg[t])
    /\ Release(t)
    /\ UNCHANGED <<items, invalidated, invalidatedOrder, nextId, freed, Locals>>

-----------------------------------------------------------------------------
(* pop_cascade.                                                            *)

PopBegin(t, h) ==
    /\ Goto(t, "idle", "popCheck")
    /\ Acquire(t)
    /\ arg' = [arg EXCEPT ![t] = h]
    /\ UNCHANGED <<vars, result, pending, doomed>>

PopRaise(t) ==
    /\ Goto(t, "popCheck", "idle")
    /\ PopVerdict(arg[t]) # "freed"
    /\ Release(t)
    /\ UNCHANGED <<vars, Locals>>

PopCollect(t) ==
    /\ Goto(t, "popCheck", "worklist")
    /\ PopVerdict(arg[t]) = "freed"
    /\ pending' = ChildrenOf(arg[t])
    /\ doomed' = <<>>
    /\ UNCHANGED <<vars, lock, arg, result>>

\* One turn of the worklist loop.
\* Mutant: the children of a doomed handle are not pushed.
WorklistStepShallow(t) ==
    /\ Goto(t, "worklist", "worklist")
    /\ \E child \in pending :
        /\ doomed' = Append(doomed, child)
        /\ pending' = pending \ {child}
    /\ UNCHANGED <<vars, lock, arg, result>>

\* Mutant: the handle stays on the stack.
WorklistStepStuck(t) ==
    /\ Goto(t, "worklist", "worklist")
    /\ pending # {}
    /\ UNCHANGED <<vars, lock, arg, result, pending, doomed>>

WorklistStep(t) ==
    /\ Goto(t, "worklist", "worklist")
    /\ \E child \in pending :
        IF child \in Range(doomed)
        THEN pending' = pending \ {child} /\ UNCHANGED doomed
        ELSE /\ doomed' = Append(doomed, child)
             /\ pending' = (pending \ {child}) \cup ChildrenOf(child)
    /\ UNCHANGED <<vars, lock, arg, result>>

WorklistDone(t) ==
    /\ pending = {}
    /\ Goto(t, "worklist", "dropItem")
    /\ UNCHANGED <<vars, lock, Locals>>

DropItem(t) ==
    /\ doomed # <<>>
    /\ Goto(t, "dropItem", "unlink")
    /\ items' = Without(items, {Head(doomed)})
    /\ UNCHANGED <<owned, parent, children, invalidated, invalidatedOrder,
                   nextId, historyVars, lock, Locals>>

\* The id leaves owned, parent and children, and its parent's child set.
Unlinked(gone) ==
    /\ owned' = Without(owned, {gone})
    /\ parent' = Without(parent, {gone})
    /\ children' = [x \in DOMAIN children \ {gone} |->
                      IF x = ParentOf(gone) THEN children[x] \ {gone}
                                            ELSE children[x]]

Unlink(t) ==
    /\ Goto(t, "unlink", "remember")
    /\ Unlinked(Head(doomed))
    /\ UNCHANGED <<items, invalidated, invalidatedOrder, nextId,
                   historyVars, lock, Locals>>

RememberOne(t) ==
    /\ Goto(t, "remember", "dropItem")
    /\ Remember(<<Head(doomed)>>, arg[t])
    /\ doomed' = Tail(doomed)
    /\ UNCHANGED <<items, owned, parent, children, nextId, historyVars,
                   lock, arg, result, pending>>

UnlinkRoot(t) ==
    /\ doomed = <<>>
    /\ Goto(t, "dropItem", "dropRoot")
    /\ Unlinked(arg[t])
    /\ UNCHANGED <<items, invalidated, invalidatedOrder, nextId,
                   historyVars, lock, Locals>>

DropRoot(t) ==
    /\ Goto(t, "dropRoot", "idle")
    /\ items' = Without(items, {arg[t]})
    /\ freed' = freed \cup {arg[t]}
    /\ Release(t)
    /\ UNCHANGED <<owned, parent, children, invalidated, invalidatedOrder,
                   nextId, lineage, Locals>>

-----------------------------------------------------------------------------
(* get and is_owned: no lock.                                              *)

Answer(t, from, value) ==
    /\ Goto(t, from, "answered")
    /\ result' = [result EXCEPT ![t] = value]
    /\ UNCHANGED <<vars, lock, arg, pending, doomed>>

ReadBegin(t, read, h) ==
    /\ Goto(t, "idle", read)
    /\ arg' = [arg EXCEPT ![t] = h]
    /\ UNCHANGED <<vars, lock, result, pending, doomed>>

\* "if hid in self._items", then "return self._items[hid]": the second raises a
\* bare KeyError if the item has gone in between.
TestItem(t, read, found) ==
    /\ Goto(t, read, IF arg[t] \in Live THEN found ELSE "getStale")
    /\ UNCHANGED <<vars, lock, Locals>>

GetItem(t) == Answer(t, "getItem", IF arg[t] \in Live THEN "live" ELSE "unknown")

GetStale(t) ==
    Answer(t, "getStale", IF arg[t] \in DOMAIN invalidated THEN "stale" ELSE "unknown")

\* is_owned: the same get, its value dropped, then _owned.get(hid, False).
OwnedItem(t) ==
    /\ pc[t] = "ownedItem"
    /\ IF arg[t] \in Live
       THEN Goto(t, "ownedItem", "ownedFlag") /\ UNCHANGED <<vars, lock, Locals>>
       ELSE Answer(t, "ownedItem", "unknown")

\* Mutant: the default for a missing flag is True.
OwnedFlagDefaultTrue(t) ==
    Answer(t, "ownedFlag",
           IF arg[t] \in DOMAIN owned /\ ~owned[arg[t]] THEN "borrowed" ELSE "owned")

OwnedFlag(t) ==
    Answer(t, "ownedFlag",
           IF arg[t] \in DOMAIN owned /\ owned[arg[t]] THEN "owned" ELSE "borrowed")

\* The answer is judged once no pop or put that overlapped the read is unfinished.
ReadEnd(t) ==
    /\ lock = Nobody
    /\ Goto(t, "answered", "idle")
    /\ result' = [result EXCEPT ![t] = "none"]
    /\ UNCHANGED <<vars, lock, arg, pending, doomed>>

-----------------------------------------------------------------------------
GetSteps == {"get", "getItem", "getStale"}
OwnedSteps == {"isOwned", "ownedItem", "ownedFlag"}
Reading(t) == pc[t] \in GetSteps \cup OwnedSteps \cup {"answered"}

\* What a read of h would have answered, had it run alone on the committed table.
RightAnswers(h) ==
    LET c == committed
    IN  IF h \in DOMAIN c.items
        THEN {"live", IF c.owned[h] THEN "owned" ELSE "borrowed"}
        ELSE {IF h \in DOMAIN c.invalidated THEN "stale" ELSE "unknown"}

Observe ==
    /\ committed' = IF lock' = Nobody THEN Table' ELSE committed
    /\ seen' = [t \in Threads |->
                  IF Reading(t)' THEN seen[t] \cup RightAnswers(arg[t])' ELSE {}]

Write(t) ==
    \/ PutRest(t)
    \/ PopRaise(t) \/ PopCollect(t) \/ WorklistStep(t) \/ WorklistDone(t)
    \/ DropItem(t) \/ Unlink(t) \/ RememberOne(t) \/ UnlinkRoot(t) \/ DropRoot(t)

Read(t) ==
    \/ TestItem(t, "get", "getItem") \/ TestItem(t, "isOwned", "ownedItem")
    \/ GetItem(t) \/ GetStale(t) \/ OwnedItem(t) \/ OwnedFlag(t) \/ ReadEnd(t)

\* The ids a client knows: those a finished put has returned.
Returned == DOMAIN committed.lineage

Call(t) ==
    \/ \E obj \in Objects, own \in BOOLEAN, par \in Returned \cup {None} :
            PutItem(t, obj, own, par)
    \/ \E h \in Returned : PopBegin(t, h)
    \/ \E h \in Returned, read \in {"get", "isOwned"} : ReadBegin(t, read, h)

LockNext == \E t \in Threads : (Call(t) \/ Write(t) \/ Read(t)) /\ Observe

LockSpec == LockInit /\ [][LockNext]_allVars

\* A thread that holds the lock keeps running: the interpreter schedules every
\* thread, and nothing inside the lock waits.
FairLockSpec ==
    LockSpec /\ \A t \in Threads : WF_allVars(Write(t) /\ Observe)

-----------------------------------------------------------------------------
(* Properties.                                                             *)

\* The statements under the lock implement the atomic put and pop_cascade.
Atomic == INSTANCE HandleTable WITH
    items <- committed.items, owned <- committed.owned,
    parent <- committed.parent, children <- committed.children,
    invalidated <- committed.invalidated,
    invalidatedOrder <- committed.invalidatedOrder,
    nextId <- committed.nextId, lineage <- committed.lineage,
    freed <- committed.freed
AtomicSpec == Atomic!Spec

\* The worklist empties and the lock comes free, whatever forest it is run on.
LockComesFree == lock # Nobody ~> lock = Nobody

\* A read that races a put or a pop may be refused for the wrong reason but is
\* never granted for one: what it calls live, or owned, was.
GrantsAreRight ==
    \A t \in Threads : result[t] \in {"live", "owned"} /\ lock = Nobody =>
        result[t] \in seen[t]
=============================================================================
