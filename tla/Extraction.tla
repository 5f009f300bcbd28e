------------------------------ MODULE Extraction ------------------------------
(***************************************************************************)
(* What the two source engines write down about a function body: libclang  *)
(* (layers/libclang_engine.py) and pycparser (layers/l2_ownership.py and   *)
(* layers/l2_out_handles.py).  Neither follows the flow of control: a body *)
(* is walked once, in the order of its text, branches included.            *)
(*                                                                         *)
(* A function is a record of params, handles (the parameters that point to *)
(* a struct), outs (its T** parameters), returns ("pointer", "string" or   *)
(* "none") and body.                                                       *)
(***************************************************************************)
EXTENDS Bodies, SequencesExt

\* The returned expressions, by the position of their statements.
Returns(fn) == [i \in {j \in DOMAIN fn.body : fn.body[j].do = "return"} |-> fn.body[i].from]
Params(fn) == Range(fn.params)
Calls(fn) == UNION {CallsIn(fn.body[i].from) : i \in DOMAIN fn.body}

\* What a C function is: statements of the forms of module Bodies, and names of
\* parameters and callees that are told apart from each other and from the
\* tags, which the code does with prefixes.  The analysis of out-parameters
\* looks at one at a time.
Tags == {"alloc", "member", "param", "unknown", "static", "none"}
Simple == {"null", "text", "ref", "deref", "member"}
StatementOfC(s) ==
    /\ s.do \in {"declare", "set", "return", "call"} /\ s.branch \in BOOLEAN
    /\ s.do = "declare" => s.to.is = "ref"
    /\ s.do = "set" => s.to.is \in {"ref", "deref", "member"}
    /\ s.from.is \in (IF s.do = "call" THEN {} ELSE Simple) \cup {"call"}
    /\ \A c \in CallsIn(s.from) :
         c.args \in Seq(Range(c.args)) /\ \A a \in Range(c.args) : a.is \in Simple \cup {"call"}

WellFormed(fn, analysis) ==
    LET callees == {c.callee : c \in Calls(fn)} IN
    /\ fn.body \in Seq(Range(fn.body)) /\ \A s \in Range(fn.body) : StatementOfC(s)
    /\ Params(fn) \cap callees = {} /\ (Params(fn) \cup callees) \cap Tags = {}
    /\ fn.handles \cup fn.outs \subseteq Params(fn)
    /\ analysis = "out" => \E o \in Params(fn) : fn.outs = {o}

-----------------------------------------------------------------------------
(* Origins.  Each local has one origin at a time, that of the last         *)
(* assignment the walk has met: an allocation, a member of a parameter, a  *)
(* parameter (under its own name), a callee (under its name) or unknown.   *)

Known(origin, x) == IF x \in DOMAIN origin THEN origin[x] ELSE "unknown"

\* What a member's root may be for the member to lead into a parameter.  The
\* pycparser collector compares a local's origin with a tag it never gives, so
\* a local that copies a parameter does not count there.
LeadsIn(fn, engine, origin, x) ==
    \/ x \in Params(fn)
    \/ Known(origin, x) = "member"
    \/ engine = "libclang" /\ Known(origin, x) \in Params(fn)

OriginOf(fn, engine, origin, e) ==
    CASE e.is = "call" -> IF e.callee \in Allocators THEN "alloc" ELSE e.callee
      [] e.is = "ref" -> IF e.name \in Params(fn) THEN e.name ELSE Known(origin, e.name)
      [] e.is = "member" -> IF LeadsIn(fn, engine, origin, e.name) THEN "member" ELSE "unknown"
      [] e.is = "text" -> "static"
      [] e.is \in {"null", "deref"} -> "unknown"

\* libclang's pointer walk does not let a NULL assignment overwrite an origin;
\* its string walk and pycparser's do.
Overlooked(fn, engine, s) ==
    engine = "libclang" /\ fn.returns = "pointer" /\ s.from.is = "null"

\* Statement s is met with the origins known so far.
Learn(fn, engine, origin, s) ==
    IF ~Assigns(s) \/ s.to.is # "ref" \/ Overlooked(fn, engine, s) THEN origin
    ELSE Bind(origin, s.to.name, OriginOf(fn, engine, origin, s.from))

\* The origins known after each statement of the body.
OriginsAfter(fn, engine) ==
    LET after[i \in 0..Len(fn.body)] ==
            IF i = 0 THEN <<>> ELSE Learn(fn, engine, after[i - 1], fn.body[i])
    IN  after

Origins(fn, engine) == OriginsAfter(fn, engine)[Len(fn.body)]

\* The origins of the returned expressions, seen from the end of the walk.
ReturnOrigins(fn, engine) ==
    [i \in DOMAIN Returns(fn) |->
        OriginOf(fn, engine, Origins(fn, engine), Returns(fn)[i])]

-----------------------------------------------------------------------------
(* Pointers.                                                               *)

\* One origin for the whole function: the strongest evidence among all its
\* returns, or the first of its kind.
PointerOrigin(fn, engine) ==
    LET origins == ReturnOrigins(fn, engine)
        First(S) == {origins[i] : i \in {j \in DOMAIN origins :
                        /\ origins[j] \in S
                        /\ \A k \in DOMAIN origins : origins[k] \in S => j <= k}}
        callees == {c.callee : c \in Calls(fn)}
        best == IF "member" \in Range(origins) THEN {"member"}
                ELSE IF "alloc" \in Range(origins) THEN {"alloc"}
                ELSE IF First(Params(fn)) # {} THEN First(Params(fn))
                ELSE First(callees)
    IN  IF best = {} THEN "unknown" ELSE CHOOSE o \in best : TRUE

\* The names a returned value goes by; a returned call has none.
ReturnedRoots(fn) ==
    {e.name : e \in {r \in Range(Returns(fn)) : r.is \in {"ref", "member", "deref"}}}

\* The parameters whose objects the body writes to, directly or through a
\* local that copies the parameter.
MutatedParams(fn, engine) ==
    {p \in Params(fn) :
        \E i \in DOMAIN fn.body :
            LET s == fn.body[i] IN
            /\ Assigns(s) /\ s.to.is = "member"
            /\ s.to.name = p \/ Known(OriginsAfter(fn, engine)[i], s.to.name) = p}

\* The arguments that count as being passed by call c, which the walk meets right
\* after statement i: for libclang only the bare names that have an origin by
\* then, for pycparser whatever is rooted at a name.
PassedRoots(fn, engine, i, c) ==
    {a.name : a \in {b \in Range(c.args) :
        IF engine = "libclang"
        THEN b.is = "ref" /\ b.name \in Params(fn) \cup DOMAIN OriginsAfter(fn, engine)[i]
        ELSE b.is \in {"ref", "member", "deref"}}}

\* A fresh result that the body also stores into one of its handle parameters
\* (only libclang looks), or passes to a function together with one.
Stored(fn) ==
    \E s \in Range(fn.body) :
        /\ s.do = "set" /\ s.to.is = "member" /\ s.to.name \in fn.handles
        /\ NamesIn(s.from) \cap ReturnedRoots(fn) # {}
PassedAlong(fn, engine) ==
    \E i \in DOMAIN fn.body : \E c \in CallsIn(fn.body[i].from) :
        /\ c.callee \notin Allocators \cup {PointerOrigin(fn, engine)}
        /\ PassedRoots(fn, engine, i, c) \cap ReturnedRoots(fn) # {}
        /\ PassedRoots(fn, engine, i, c) \cap fn.handles # {}
\* Mutant: only what is passed to a call escapes.
EscapesByCallOnly(fn, engine) ==
    /\ PointerOrigin(fn, engine) \notin Params(fn) \cup {"member", "unknown", "static"}
    /\ PassedAlong(fn, engine)

Escapes(fn, engine) ==
    /\ PointerOrigin(fn, engine) \notin Params(fn) \cup {"member", "unknown", "static"}
    /\ PassedAlong(fn, engine) \/ (engine = "libclang" /\ Stored(fn))

\* The last assignment of x that is not NULL.
LastAssigned(fn, x) ==
    {i \in DOMAIN fn.body :
        /\ AssignsTo(fn.body[i], x) /\ fn.body[i].from.is # "null"
        /\ \A j \in DOMAIN fn.body :
             j > i => ~AssignsTo(fn.body[j], x) \/ fn.body[j].from.is = "null"}

\* The names whose value statement s hands on: a declaration's does not count,
\* the arguments of any call do.
Uses(s) ==
    (IF s.do = "set" THEN NamesIn(s.from) ELSE {}) \cup UNION {NamesIn(c) : c \in CallsIn(s.from)}

\* The value handed back was read from a parameter's member that the body also
\* frees, is cleared after the read, and is not handed on after it.
Detaches(fn) ==
    LET kept == {e \in Range(Returns(fn)) : e.is # "null"} IN
    \E s \in Range(fn.body) :
        /\ Assigns(s) /\ s.to.is = "ref" /\ kept = {s.to}
        /\ \E i \in LastAssigned(fn, s.to.name) :
             LET held == fn.body[i].from IN
             /\ held.is = "member" /\ held.name \in Params(fn)
             /\ \E c \in Calls(fn) : c.callee \in Deallocators /\ held \in Range(c.args)
             /\ \E j \in DOMAIN fn.body :
                  j > i /\ fn.body[j].do = "set" /\ fn.body[j].to = held
                        /\ fn.body[j].from.is = "null"
             /\ \A j \in DOMAIN fn.body : j > i => s.to.name \notin Uses(fn.body[j])

ReturnsStruct(fn) == fn.returns = "pointer"

PointerRecord(fn, engine) ==
    LET origin == PointerOrigin(fn, engine) IN
    [returns |-> ReturnsStruct(fn),
     origin |-> IF origin \in Params(fn) THEN "param" ELSE origin,
     escaped |-> Escapes(fn, engine),
     mutates |-> origin \in Params(fn) /\ origin \in MutatedParams(fn, engine),
     detaches |-> engine = "libclang" /\ origin = "member" /\ Detaches(fn)]

-----------------------------------------------------------------------------
(* Strings and out-handles.                                                *)

\* What the string walk has found returned; it ends like the pointer walk.
StringOrigins(fn, engine) == Range(ReturnOrigins(fn, engine))

\* Mutant: a return of a literal is overlooked.
StringRecordWithoutStatic(fn, engine) ==
    LET origins == StringOrigins(fn, engine) IN
    [origins |-> IF origins \cap (Params(fn) \cup {"member", "unknown"}) # {}
                 THEN {} ELSE origins \ {"static"}]

\* The origins that can make a string owned, or none when one of the others is
\* among them: the same rule in both engines, by way of different tags.
StringRecord(fn, engine) ==
    LET origins == StringOrigins(fn, engine) IN
    [origins |-> IF origins \cap (Params(fn) \cup {"member", "unknown", "static"}) # {}
                 THEN {} ELSE origins]

\* The locals that are assigned an allocation anywhere in the body.
Allocates(allocated, e) ==
    \/ e.is = "call" /\ e.callee \in Allocators
    \/ e.is = "ref" /\ e.name \in allocated
Gather(allocated, s) ==
    IF Assigns(s) /\ s.to.is = "ref" /\ Allocates(allocated, s.from)
    THEN allocated \cup {s.to.name} ELSE allocated
AllocatedAfter(fn) ==
    LET after[i \in 0..Len(fn.body)] ==
            IF i = 0 THEN {} ELSE Gather(after[i - 1], fn.body[i])
    IN  after
MayBeAllocated(fn) == AllocatedAfter(fn)[Len(fn.body)]

\* The statements that write through an out-parameter, and the last of them.
Writes(fn, o) ==
    {i \in DOMAIN fn.body :
        fn.body[i].do = "set" /\ fn.body[i].to.is = "deref" /\ fn.body[i].to.name = o}
LastWrite(fn, o) == {i \in Writes(fn, o) : \A j \in Writes(fn, o) : j <= i}

\* Mutant: the result of any call counts as an allocation.
WrittenByAnyCall(fn, o) ==
    IF Writes(fn, o) = {} THEN "nothing"
    ELSE IF \E i \in LastWrite(fn, o) :
              fn.body[i].from.is = "call" \/ Allocates(MayBeAllocated(fn), fn.body[i].from)
    THEN "alloc" ELSE "other"

\* What is written through an out-parameter last: "alloc", "other", or "nothing".
Written(fn, o) ==
    IF Writes(fn, o) = {} THEN "nothing"
    ELSE IF \E i \in LastWrite(fn, o) : Allocates(MayBeAllocated(fn), fn.body[i].from)
    THEN "alloc" ELSE "other"

\* Where out-parameter o is passed on: at argument k of the call that is
\* statement i's (m = 0) or that is argument m of that call.  The unwrapping of
\* libclang takes *o and o->f for o itself.
IsOut(a, engine, o) ==
    /\ a.is = "ref" \/ (engine = "libclang" /\ a.is \in {"deref", "member"})
    /\ a.name = o
CallAt(fn, i, m) == IF m = 0 THEN fn.body[i].from ELSE fn.body[i].from.args[m]
Sites(fn, i) ==
    LET e == fn.body[i].from IN
    IF e.is # "call" THEN {} ELSE {0} \cup {m \in DOMAIN e.args : e.args[m].is = "call"}
PassedAt(fn, engine, o, i, m) ==
    {<<i, m, k>> : k \in {j \in DOMAIN CallAt(fn, i, m).args :
                            IsOut(CallAt(fn, i, m).args[j], engine, o)}}
PassedOn(fn, engine, o) ==
    UNION {UNION {PassedAt(fn, engine, o, i, m) : m \in Sites(fn, i)} : i \in DOMAIN fn.body}

\* The walks meet statements in text order, a call before its arguments.
Before(a, b) ==
    \/ a[1] < b[1]
    \/ a[1] = b[1] /\ (a[2] < b[2] \/ (a[2] = b[2] /\ a[3] < b[3]))

\* The parameter it is forwarded to: by the first such call for libclang, by
\* the only one for pycparser.  The callee's parameters are known only when it
\* is defined in the same file.
ForwardedTo(fn, engine, o, file) ==
    LET on == PassedOn(fn, engine, o)
        met == {a \in on : \A b \in on \ {a} : engine = "libclang" /\ Before(a, b)}
        Callee(a) == CallAt(fn, a[1], a[2]).callee
    IN  {<<Callee(a), file[Callee(a)].params[a[3]]>> :
            a \in {b \in met : Callee(b) \in DOMAIN file /\ b[3] \in DOMAIN file[Callee(b)].params}}

\* Of function name's one out-parameter.  A parameter that is no candidate has
\* no record, and forwarding to it is written "none".
OutRecord(fn, engine, file) ==
    LET o == CHOOSE p \in Params(fn) : p \in fn.outs
        Candidate(t) == t[1] \in DOMAIN file /\ t[2] \in file[t[1]].outs
    IN  [written |-> Written(fn, o),
         forward |-> {IF Candidate(t) THEN t[1] ELSE "none" :
                        t \in ForwardedTo(fn, engine, o, file)}]

-----------------------------------------------------------------------------
(* Several files.                                                          *)

\* _merge_multi: a file that does not parse is skipped, and the first file
\* that defines a name keeps it.  A file defines functions, in some order.
Readable(files) == SelectSeq(files, LAMBDA file : ~file.truncated)
Defined(files) ==
    FoldLeft(LAMBDA names, file : names \o SelectSeq(file.order, LAMBDA f : f \notin Range(names)),
             <<>>, Readable(files))
FileOf(files, f) ==
    LET of == SelectSeq(Readable(files), LAMBDA file : f \in DOMAIN file.defines)
    IN  Head(of).defines

\* Out-parameters are found in the source, where a helper the header does not
\* declare has them too.
ReturnsText(fn) == fn.returns = "string"
HasOuts(fn) == fn.outs # {}

\* The functions an analysis has a record of, in the order of its dict.
Analysed(files, analysis) ==
    SelectSeq(Defined(files), LAMBDA f :
        LET fn == FileOf(files, f)[f] IN
        CASE analysis = "pointer" -> TRUE
          [] analysis = "string" -> ReturnsText(fn)
          [] analysis = "out" -> HasOuts(fn))

Record(files, analysis, engine, f) ==
    LET file == FileOf(files, f) IN
    CASE analysis = "pointer" -> PointerRecord(file[f], engine)
      [] analysis = "string" -> StringRecord(file[f], engine)
      [] analysis = "out" -> OutRecord(file[f], engine, file)

==============================================================================
