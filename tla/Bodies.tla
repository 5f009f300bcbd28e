-------------------------------- MODULE Bodies --------------------------------
(***************************************************************************)
(* The C function bodies the source engines read, as far as the analyses   *)
(* tell them apart, and what running one of them does.                     *)
(*                                                                         *)
(* A body is a sequence of statements in the order of the text.  One that  *)
(* is inside a branch or a loop may be passed over by an execution.  The   *)
(* second half of the module is what the analyses never compute: the       *)
(* executions of a body, against which their verdicts are judged.          *)
(***************************************************************************)
EXTENDS Naturals, Sequences, FiniteSets, Functions, TLC

CONSTANTS
    Allocators,     \* functions called that have an allocation word in their
                    \* names (l2_ownership._is_alloc_name)
    Deallocators    \* or a freeing word (libclang_engine._is_free_name)

\* Expressions.  An argument of a call may be a call of simple expressions.
Null == [is |-> "null"]
Text == [is |-> "text"]
Ref(x) == [is |-> "ref", name |-> x]
Deref(o) == [is |-> "deref", name |-> o]
Member(x, f) == [is |-> "member", name |-> x, path |-> f]
Call(g, args) == [is |-> "call", callee |-> g, args |-> args]

\* Statements: T x = e, lvalue = e, return e and g(args).
Declare(x, e) == [do |-> "declare", to |-> Ref(x), from |-> e, branch |-> FALSE]
Set(lvalue, e) == [do |-> "set", to |-> lvalue, from |-> e, branch |-> FALSE]
Return(e) == [do |-> "return", to |-> Null, from |-> e, branch |-> FALSE]
Do(g, args) == [do |-> "call", to |-> Null, from |-> Call(g, args), branch |-> FALSE]
OnBranch(s) == [s EXCEPT !.branch = TRUE]

Assigns(s) == s.do \in {"declare", "set"}
AssignsTo(s, x) == Assigns(s) /\ s.to.is = "ref" /\ s.to.name = x

CallsIn(e) == IF e.is = "call" THEN {e} \cup {a \in Range(e.args) : a.is = "call"} ELSE {}

\* Every local name in an expression.
NamesIn(e) ==
    LET Simple(a) == IF a.is \in {"ref", "deref", "member"} THEN {a.name} ELSE {}
        Args(c) == UNION {Simple(a) : a \in Range(c.args)}
    IN  Simple(e) \cup UNION {Args(c) : c \in CallsIn(e)}

-----------------------------------------------------------------------------
(* Executions.  A value is what a variable can hold: NULL, a literal, an   *)
(* object this body obtained for itself, one it was lent by a callee or     *)
(* found in a structure, an argument, or what a field of an argument held  *)
(* when the function was entered.  An object goes by the statement that    *)
(* yielded it, as its "result", as the result of a call among its          *)
(* "argument"s, or as what a call "filled" an out-parameter with.          *)

NullValue == <<"null">>
Literal == <<"text">>
New(i, how) == <<"new", i, how>>
Lent(i, how) == <<"lent", i, how>>
Arg(p) == <<"arg", p>>
Initial(p, f) == <<"initially in", p, f>>

\* What is part of, or reachable from, what the caller's world holds.
InStructure(v) == v[1] \in {"lent", "arg", "initially in"}

\* An execution has bound its locals (env), assigned fields of its arguments,
\* left values in other structures (kept), freed some, written *o (out), and
\* returned a result or not yet.
Held(st, x) == IF x \in DOMAIN st.env THEN st.env[x] ELSE Arg(x)
Bind(f, x, v) == [y \in DOMAIN f \cup {x} |-> IF y = x THEN v ELSE f[y]]

FieldValue(st, root, f, i, how) ==
    CASE root[1] # "arg" -> Lent(i, how)
      [] root[1] = "arg" /\ <<root[2], f>> \in DOMAIN st.fields -> st.fields[<<root[2], f>>]
      [] root[1] = "arg" /\ <<root[2], f>> \notin DOMAIN st.fields -> Initial(root[2], f)

Value(st, owned, e, i, how) ==
    CASE e.is = "null" -> NullValue
      [] e.is = "text" -> Literal
      [] e.is = "ref" -> Held(st, e.name)
      [] e.is = "deref" -> Lent(i, how)
      [] e.is = "call" -> IF e.callee \in Allocators \cup owned THEN New(i, how) ELSE Lent(i, how)
      [] e.is = "member" -> FieldValue(st, Held(st, e.name), e.path, i, how)

\* A callee that is given a value together with something of the caller's
\* world may keep the value there.
Passed(st, owned, c, i) == {Value(st, owned, a, i, "argument") : a \in Range(c.args)}
Keeps(st, owned, c, i) ==
    /\ c.callee \notin Allocators \cup Deallocators
    /\ \E v \in Passed(st, owned, c, i) : InStructure(v)
PassedTo(st, owned, calls, i) == UNION {Passed(st, owned, c, i) : c \in calls}

\* *o = e, for an out-parameter o.
WritesOut(fn, s) == Assigns(s) /\ s.to.is = "deref" /\ s.to.name \in fn.outs

\* p->f = e, for an argument p; and a write into any other structure.
WritesField(st, s) == Assigns(s) /\ s.to.is = "member" /\ Held(st, s.to.name)[1] = "arg"
WritesElsewhere(fn, st, s) ==
    /\ Assigns(s) /\ s.to.is \in {"deref", "member"}
    /\ ~WritesOut(fn, s) /\ ~WritesField(st, s) /\ InStructure(Held(st, s.to.name))

\* The calls that may fill an out-parameter in.
FillingCalls(fn, s) ==
    {c \in CallsIn(s.from) : \E a \in Range(c.args) : a.is = "ref" /\ a.name \in fn.outs}

\* Statement i is executed.
Execute(fn, owned, st, i) ==
    LET s == fn.body[i]
        v == Value(st, owned, s.from, i, "result")
        kept == {c \in CallsIn(s.from) : Keeps(st, owned, c, i)}
        freed == {c \in CallsIn(s.from) : c.callee \in Deallocators}
    IN  [env |-> IF Assigns(s) /\ s.to.is = "ref" THEN Bind(st.env, s.to.name, v) ELSE st.env,
         fields |-> IF WritesField(st, s)
                    THEN Bind(st.fields, <<Held(st, s.to.name)[2], s.to.path>>, v) ELSE st.fields,
         kept |-> st.kept \cup PassedTo(st, owned, kept, i)
                          \cup (IF WritesElsewhere(fn, st, s) THEN {v} ELSE {}),
         freed |-> st.freed \cup PassedTo(st, owned, freed, i),
         out |-> CASE WritesOut(fn, s) -> v
                   [] ~WritesOut(fn, s) /\ FillingCalls(fn, s) = {} -> st.out
                   [] ~WritesOut(fn, s) /\ FillingCalls(fn, s) # {} ->
                        IF \A c \in FillingCalls(fn, s) : c.callee \in owned
                        THEN New(i, "filled") ELSE Lent(i, "filled"),
         result |-> IF s.do = "return" THEN v ELSE st.result,
         returned |-> st.returned \/ s.do = "return"]

Entered == [env |-> <<>>, fields |-> <<>>, kept |-> {}, freed |-> {},
            out |-> NullValue, result |-> NullValue, returned |-> FALSE]

\* An execution that takes the branch statements in `taken` passes statement i
\* over when it is on another branch, or after a return.
Step(fn, owned, taken, st, i) ==
    IF st.returned \/ (fn.body[i].branch /\ i \notin taken) THEN st
    ELSE Execute(fn, owned, st, i)

\* Its states; the callees in `owned` give away what they return or fill in.
StatesAfter(fn, owned, taken) ==
    LET after[i \in 0..Len(fn.body)] ==
            IF i = 0 THEN Entered ELSE Step(fn, owned, taken, after[i - 1], i)
    IN  after

End(fn, owned, taken) == StatesAfter(fn, owned, taken)[Len(fn.body)]

Executions(fn, owned) ==
    {End(fn, owned, taken) : taken \in SUBSET {i \in DOMAIN fn.body : fn.body[i].branch}}

\* v is the caller's to free: NULL, or an object nothing else leads to.  A
\* body that hands out what it has itself freed is broken C, not a verdict.
HandedOver(end, v) ==
    \/ v = NullValue
    \/ v \in end.freed
    \/ /\ v[1] = "new" \/ (v[1] = "initially in" /\ <<v[2], v[3]>> \in DOMAIN end.fields)
       /\ v \notin end.kept \cup Range(end.fields)

==============================================================================
