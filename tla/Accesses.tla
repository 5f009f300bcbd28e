------------------------------ MODULE Accesses ------------------------------
(***************************************************************************)
(* What a function body does with its pointers to scalars, and what the    *)
(* def-use and array analyses read off it: layers/l2_static.py,            *)
(* layers/l2_arrays.py and the accesses of layers/libclang_engine.py.      *)
(*                                                                         *)
(* The analyses look at one parameter at a time, so a body is given as the *)
(* sequence of its accesses to each.  An access is one of                  *)
(*   load       x = *p, p[i] or p->f       store   *p = e, e without *p    *)
(*   recompute  *p = *p + e                update  *p += e                 *)
(*   increment  ( *p )++                   pass    f(p)                    *)
(*   offset     *(p + i) = e                                               *)
(* and always tells whether every execution gets to it.                    *)
(***************************************************************************)
EXTENDS Integers, Sequences, SequencesExt

Ops == {"load", "store", "recompute", "update", "increment", "pass", "offset"}

\* Mutant: the target of an assignment is visited before its right side.
SeenTargetFirst(op) ==
    CASE op = "recompute" -> <<"write", "read">>
      [] op \in {"load", "increment"} -> <<"read">>
      [] op = "store" -> <<"write">>
      [] op = "update" -> <<"read", "write">>
      [] op \in {"pass", "offset"} -> <<>>

\* The events the collectors note for an access: the right side of an
\* assignment before its target; an increment is no assignment to them, and
\* pointer arithmetic none of the forms they know.
Seen(op) ==
    CASE op = "store" -> <<"write">>
      [] op \in {"recompute", "update"} -> <<"read", "write">>
      [] op \in {"load", "increment"} -> <<"read">>
      [] op \in {"pass", "offset"} -> <<>>

\* The accesses that leave an event.
Noted(accesses) == {i \in DOMAIN accesses : Seen(accesses[i].op) # <<>>}

\* Only pycparser notes that a parameter is handed on.
Escaped(engine, accesses) ==
    engine = "pycparser" /\ \E a \in Range(accesses) : a.op = "pass"

\* The first event tells an output from an input, and a write anywhere an input
\* from one that is written back.
IntentOf(accesses) ==
    LET first == Head(Seen(accesses[Min(Noted(accesses))].op))
        written == \E i \in Noted(accesses) : "write" \in Range(Seen(accesses[i].op))
    IN  CASE first = "write" -> "out"
          [] first = "read" -> IF written THEN "inout" ELSE "in"

\* l2_intents: at most one finding for a parameter, and none without an event.
Findings(engine, accesses) ==
    IF Noted(accesses) = {} THEN {}
    ELSE {[intent |-> IntentOf(accesses),
           confidence |-> IF Escaped(engine, accesses) THEN 500 ELSE 950]}

\* What C does with the parameter, whatever the collectors note of it.
Reads(op) == op \in {"load", "recompute", "update", "increment"}
Writes(op) == op \in {"store", "recompute", "update", "increment", "offset"}

-----------------------------------------------------------------------------
(* Arrays.  A loop is a for over variable var while var < bound or         *)
(* var <= bound, bound being an integer parameter or 0 for anything else;  *)
(* it subscripts the pointers over with var.                               *)

IndexVars(loops) == {l.var : l \in {k \in Range(loops) : k.over # {}}}

\* Mutant: any loop over an integer parameter counts.
BoundsOfAnyLoop(loops, ints) == {i \in DOMAIN loops : loops[i].bound \in ints}

\* The loops whose bounds count: those whose variable subscripts some pointer,
\* in some loop.
Bounds(loops, ints) ==
    {i \in DOMAIN loops : loops[i].bound \in ints /\ loops[i].var \in IndexVars(loops)}

\* The length of pointer p: the bound of the first loop that counts, whichever
\* pointer it is over; failing that, an integer right behind p.
LengthOf(p, loops, ints) ==
    LET counting == Bounds(loops, ints) IN
    CASE counting # {} ->
            {[array |-> p, length |-> loops[Min(counting)].bound, confidence |-> 900]}
      [] counting = {} /\ p + 1 \in ints ->
            {[array |-> p, length |-> p + 1, confidence |-> 600]}
      [] OTHER -> {}

ArrayFacts(ptrs, ints, loops) == UNION {LengthOf(p, loops, ints) : p \in ptrs}
==============================================================================
