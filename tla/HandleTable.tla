---------------------------- MODULE HandleTable ----------------------------
(***************************************************************************)
(* core/handles.py: the table that stands between a protocol client, which *)
(* holds integer ids, and a C library, which holds pointers.  put and      *)
(* pop_cascade run entirely under the table's lock, so here each is one    *)
(* action; HandleTableLocking opens them up, together with the readers     *)
(* that take no lock.                                                      *)
(*                                                                         *)
(* A Python dict is a function whose domain is the set of its keys.        *)
(***************************************************************************)
EXTENDS Naturals, Sequences, SequencesExt

CONSTANTS
    Objects,            \* what a client may register: C pointers, mostly
    MaxHandles,         \* bound on the ids handed out (the code has none)
    InvalidatedMemory   \* _INVALIDATED_MEMORY: ids remembered as stale

ASSUME MaxHandlesAssumption == MaxHandles \in Nat
ASSUME InvalidatedMemoryAssumption == InvalidatedMemory \in Nat

VARIABLES
    items,              \* hid -> registered object
    owned,              \* hid -> may the client free it?
    parent,             \* child hid -> hid it was derived from
    children,           \* hid -> hids derived from it
    invalidated,        \* hid -> hid of the owner whose destruction killed it
    invalidatedOrder,   \* the keys of invalidated, oldest first
    nextId,             \* itertools.count(1)
    \* History variables: read by no action, only by the properties.
    lineage,            \* hid -> everything it was derived from, as of its put
    freed               \* the ids on which pop_cascade succeeded

tableVars == <<items, owned, parent, children,
               invalidated, invalidatedOrder, nextId>>
historyVars == <<lineage, freed>>
vars == <<tableVars, historyVars>>

None == 0               \* no handle: ids start at 1
Handles == 1 .. MaxHandles
Issued == 1 .. (nextId - 1)
Live == DOMAIN items

-----------------------------------------------------------------------------
(* Dictionaries.                                                           *)

Assign(f, k, v) == [x \in DOMAIN f \cup {k} |-> IF x = k THEN v ELSE f[x]]
Without(f, S) == [x \in DOMAIN f \ S |-> f[x]]

-----------------------------------------------------------------------------
(* Readers.                                                                *)

ChildrenOf(h) == IF h \in DOMAIN children THEN children[h] ELSE {}
ParentOf(h) == IF h \in DOMAIN parent THEN parent[h] ELSE None

\* What get(h) does: serve the object, or raise one of two errors.
GetVerdict(h) ==
    CASE h \in Live -> "live"
      [] h \notin Live /\ h \in DOMAIN invalidated -> "stale"
      [] OTHER -> "unknown"

\* Mutant: the ownership check is dropped.
PopVerdictUnchecked(h) == IF h \in Live THEN "freed" ELSE GetVerdict(h)

\* What pop_cascade(h) does before it changes anything.
PopVerdict(h) ==
    CASE h \notin Live -> GetVerdict(h)
      [] h \in Live /\ ~owned[h] -> "borrowed"
      [] OTHER -> "freed"

\* Mutant: the worklist is not extended with the children of a child.
DoomedChildrenOnly(h) == ChildrenOf(h)

\* The worklist of pop_cascade: the least set that holds the children of h
\* and is closed under taking children.
Doomed(h) ==
    {d \in Live : \A S \in SUBSET Live :
        (ChildrenOf(h) \subseteq S /\ \A x \in S : ChildrenOf(x) \subseteq S)
            => d \in S}

-----------------------------------------------------------------------------
Init ==
    /\ items = <<>>
    /\ owned = <<>>
    /\ parent = <<>>
    /\ children = <<>>
    /\ invalidated = <<>>
    /\ invalidatedOrder = <<>>
    /\ nextId = 1
    /\ lineage = <<>>
    /\ freed = {}

\* A parent is recorded only while the table still holds it; a None, unknown
\* or already dead parent makes the new handle a root.
Adopt(hid, par) ==
    IF par \in Live
    THEN /\ parent' = Assign(parent, hid, par)
         /\ children' = Assign(children, par, ChildrenOf(par) \cup {hid})
         /\ lineage' = Assign(lineage, hid, lineage[par] \cup {par})
    ELSE /\ lineage' = Assign(lineage, hid, {})
         /\ UNCHANGED <<parent, children>>

Put(obj, own, par) ==
    /\ nextId <= MaxHandles
    /\ nextId' = nextId + 1
    /\ items' = Assign(items, nextId, obj)
    /\ owned' = Assign(owned, nextId, own)
    /\ Adopt(nextId, par)
    /\ UNCHANGED <<invalidated, invalidatedOrder, freed>>

\* Mutant: the error names the parent of the dead handle, not the popped owner.
RememberParent(doomed, owner) ==
    LET all == invalidatedOrder \o doomed
        excess == IF Len(all) > InvalidatedMemory
                  THEN Len(all) - InvalidatedMemory ELSE 0
        named == [x \in DOMAIN invalidated \cup Range(doomed) |->
                    IF x \in Range(doomed) THEN ParentOf(x) ELSE invalidated[x]]
    IN  /\ invalidatedOrder' = SubSeq(all, excess + 1, Len(all))
        /\ invalidated' = Without(named, {all[i] : i \in 1 .. excess})

\* Mutant: ">=" for ">" in the eviction loop.
RememberOneLess(doomed, owner) ==
    LET all == invalidatedOrder \o doomed
        excess == IF Len(all) >= InvalidatedMemory
                  THEN Len(all) - InvalidatedMemory + 1 ELSE 0
        named == [x \in DOMAIN invalidated \cup Range(doomed) |->
                    IF x \in Range(doomed) THEN owner ELSE invalidated[x]]
    IN  /\ invalidatedOrder' = SubSeq(all, excess + 1, Len(all))
        /\ invalidated' = Without(named, {all[i] : i \in 1 .. excess})

\* The loop over _remember_invalidated: append every doomed id, then forget the
\* oldest beyond the capacity.
Remember(doomed, owner) ==
    LET all == invalidatedOrder \o doomed
        excess == IF Len(all) > InvalidatedMemory
                  THEN Len(all) - InvalidatedMemory ELSE 0
        forgotten == {all[i] : i \in 1 .. excess}
        named == [x \in DOMAIN invalidated \cup Range(doomed) |->
                    IF x \in Range(doomed) THEN owner ELSE invalidated[x]]
    IN  /\ invalidatedOrder' = SubSeq(all, excess + 1, Len(all))
        /\ invalidated' = Without(named, forgotten)

\* The orders in which the worklist can visit the doomed handles: a child is
\* pushed when its parent is visited, and sets of children have no order.
WorklistOrders(h) ==
    {s \in SetToSeqs(Doomed(h)) : \A i, j \in 1 .. Len(s) :
        s[j] \in ChildrenOf(s[i]) => i < j}

\* Mutant: a popped id stays in _owned.
DiscardKeepingOwned(gone) ==
    /\ items' = Without(items, gone)
    /\ parent' = Without(parent, gone)
    /\ children' = [x \in DOMAIN children \ gone |-> children[x] \ gone]
    /\ UNCHANGED owned

\* Mutant: a popped id stays in its parent's child set.
DiscardKeepingChild(gone) ==
    /\ items' = Without(items, gone)
    /\ owned' = Without(owned, gone)
    /\ parent' = Without(parent, gone)
    /\ children' = Without(children, gone)

\* Everything in gone leaves the table, and the survivors' child sets.
Discard(gone) ==
    /\ items' = Without(items, gone)
    /\ owned' = Without(owned, gone)
    /\ parent' = Without(parent, gone)
    /\ children' = [x \in DOMAIN children \ gone |->
                      {y \in children[x] : ~(y \in gone /\ ParentOf(y) = x)}]

\* Mutant: the freed id goes back to the counter.
PopCascadeRecyclingId(h) ==
    /\ PopVerdict(h) = "freed"
    /\ \E doomed \in WorklistOrders(h) : Remember(doomed, h)
    /\ Discard(Doomed(h) \cup {h})
    /\ freed' = freed \cup {h}
    /\ nextId' = h
    /\ UNCHANGED lineage

PopCascade(h) ==
    /\ PopVerdict(h) = "freed"
    /\ \E doomed \in WorklistOrders(h) : Remember(doomed, h)
    /\ Discard(Doomed(h) \cup {h})
    /\ freed' = freed \cup {h}
    /\ UNCHANGED <<nextId, lineage>>

\* A refused pop raises and leaves the table as it was.
RefusePop(h) ==
    /\ PopVerdict(h) # "freed"
    /\ UNCHANGED vars

\* The parent a caller passes is None or a handle that get once accepted: it has
\* been issued, but may have died since.
Next ==
    \/ \E obj \in Objects, own \in BOOLEAN, par \in Issued \cup {None} :
            Put(obj, own, par)
    \/ \E h \in Handles : PopCascade(h)
    \/ \E h \in Handles : RefusePop(h)

Spec == Init /\ [][Next]_vars

-----------------------------------------------------------------------------
(* Properties.                                                             *)

\* Every dict maps ids the counter has issued to values of its kind.
TypeOK ==
    /\ nextId \in 1 .. (MaxHandles + 1)
    /\ Live \subseteq Issued /\ items \in [Live -> Objects]
    /\ owned \in [Live -> BOOLEAN]
    /\ DOMAIN parent \subseteq Live /\ parent \in [DOMAIN parent -> Live]
    /\ DOMAIN children \subseteq Live
    /\ children \in [DOMAIN children -> SUBSET Live]
    /\ DOMAIN invalidated \subseteq Issued
    /\ invalidated \in [DOMAIN invalidated -> Issued]
    /\ invalidatedOrder \in Seq(Issued)
    /\ lineage \in [Issued -> SUBSET Issued]
    /\ freed \subseteq Issued

\* parent and children are two views of one forest, updated by different lines
\* of put and of pop_cascade: they must stay each other's inverse.
ForestConsistent ==
    /\ \A x \in DOMAIN parent : x \in ChildrenOf(parent[x]) /\ parent[x] < x
    /\ \A p \in DOMAIN children : \A x \in children[p] : ParentOf(x) = p

\* handles.py:34 "never hands out a pointer the library has already freed": a
\* handle is served only while every handle it was derived from, at any depth,
\* is still in the table.
LineageLive == \A h \in Live : lineage[h] \subseteq Live

\* A dead id keeps its meaning: it is never served again, whatever happens later.
DeadStayDead == [][\A h \in DOMAIN lineage : h \notin Live => h \notin Live']_vars

\* One pop takes out exactly the destroyed handle and what was derived from it:
\* nothing unrelated, nothing left behind, and never a borrowed root.
CascadeExact ==
    [][Live \subseteq Live' \/
       \E h \in Live : /\ owned[h]
                       /\ Live \ Live' = {h} \cup {x \in Live : h \in lineage[x]}]_vars

\* The stale error names the handle that really killed this one: an owner it was
\* derived from and that the client destroyed.
StaleNamesKiller ==
    \A h \in DOMAIN invalidated :
        /\ h \notin Live
        /\ invalidated[h] \in lineage[h] \cap freed

\* The two error kinds are told apart exactly until the memory overflows: an id
\* that died by cascade reads as stale unless the memory is full of later ones.
StaleUntilForgotten ==
    /\ IsInjective(invalidatedOrder)
    /\ Range(invalidatedOrder) = DOMAIN invalidated
    /\ Len(invalidatedOrder) <= InvalidatedMemory
    /\ \A h \in Issued \ (Live \cup freed) :
        GetVerdict(h) = "stale" \/ Len(invalidatedOrder) = InvalidatedMemory
=============================================================================
