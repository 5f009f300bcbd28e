----------------------------- MODULE MCPipeline -----------------------------
EXTENDS Pipeline

Shapes == {"scalar", "count", "string", "out", "manual", "struct", "double", "buffer", "opaque"}
PairsOfShapes == {<<s, t, "real">> : s \in Shapes, t \in Shapes}

\* A declaration of each shape.
Type(form, of, const) == [form |-> form, of |-> of, const |-> const, named |-> {}]
Declared ==
    [scalar |-> Type("value", "integer", FALSE),
     count |-> [Type("value", "integer", FALSE) EXCEPT !.named = {"count"}],
     real |-> Type("value", "real", FALSE),
     string |-> Type("pointer", "char", TRUE),
     out |-> Type("pointer", "integer", FALSE),
     manual |-> [Type("pointer", "integer", FALSE) EXCEPT !.named = {"manual"}],
     struct |-> Type("pointer", "struct", FALSE),
     double |-> Type("double", "struct", FALSE),
     buffer |-> Type("pointer", "integer", TRUE),
     opaque |-> Type("pointer", "void", FALSE)]

Having(shapes, s) == {p \in DOMAIN s : s[p] \in shapes}

Access(op, always) == [op |-> op, always |-> always]
Once == {<<>>} \cup {<<Access(op, TRUE)>> : op \in {"load", "store", "update"}}
Twice == SeqOf([op : Ops, always : BOOLEAN], 2)

\* The struct: opaque, of the system, or the library's own.
Opaque == [sized |-> FALSE, place |-> "header", installed |-> FALSE]
Structs == {Opaque} \cup [sized : {TRUE}, place : {"folder", "system"}, installed : {FALSE}]

\* What is left out of a family of inputs: a body without accesses or loops, a
\* result that is no text, and a library that has nothing else in it.
Plain(s) ==
    [type |-> [p \in 1..3 |-> Declared[s[p]]], variadic |-> FALSE, run |-> "full", role |-> "none", freed |-> 0, owner |-> "none", confirmed |-> {},
     handedOut |-> FALSE, otherCandidates |-> FALSE, destructorNamed |-> FALSE,
     struct |-> Opaque, initialised |-> FALSE, text |-> "none", bufferFree |-> FALSE,
     engine |-> "libclang", preprocessed |-> FALSE,
     body |-> [p \in 1..3 |-> <<>>], loops |-> <<>>]

\* A destructor frees a struct parameter; only a function that returns T* has
\* an owner.  A verdict is kept only for a type that is handed out.
Verdicts(s) ==
    {[role |-> "none", freed |-> 0, owner |-> "none"]}
    \cup {[role |-> "creates", freed |-> 0, owner |-> o] : o \in {"caller", "library"}}
    \cup {[role |-> r, freed |-> p, owner |-> "none"] :
            r \in {"destroys", "uncertain_destroys"}, p \in Having({"struct"}, s)}
    \cup (IF Having({"struct"}, s) = {} THEN {}
          ELSE {[role |-> "uses", freed |-> 0, owner |-> "none"]})

Library(handedOut, other, destructor, struct) ==
    [handedOut |-> handedOut, otherCandidates |-> other, destructorNamed |-> destructor,
     struct |-> struct, initialised |-> struct.sized]
Libraries(s, v) ==
    IF Having({"struct"}, s) = {} THEN {Library(TRUE, FALSE, FALSE, Opaque)}
    ELSE {Library(h, o, d, t) : h \in IF v.role = "none" THEN BOOLEAN ELSE {TRUE},
                                o \in BOOLEAN, d \in BOOLEAN, t \in Structs}

\* Handles: every pair of shapes and every verdict.
Bodies(s) == {[p \in 1..3 |-> IF p \in DOMAIN b THEN b[p] ELSE <<>>] :
                b \in [Having({"out", "manual"}, s) -> Once]}
Handled ==
    UNION {UNION {{v @@ l @@ [confirmed |-> c, body |-> b] @@ Plain(s) :
                     l \in Libraries(s, v), c \in SUBSET Having({"double"}, s), b \in Bodies(s)} :
                   v \in Verdicts(s)} : s \in PairsOfShapes}

\* Scalars: two accesses of every kind to one pointer.
Scalars ==
    {[body |-> <<b, <<>>, <<>>>>, engine |-> e] @@ Plain(<<t, "real", "real">>) :
        b \in Twice, e \in {"libclang", "pycparser"}, t \in {"out", "manual", "buffer"}}

\* Arrays: up to two loops over two integers and one or two arrays.
Loops(s) == [var : {"i", "j"}, over : SUBSET Having({"buffer", "out"}, s),
             bound : Having({"scalar", "count"}, s) \cup {0}]
Arrayed ==
    UNION {{[loops |-> l, engine |-> e, preprocessed |-> t] @@ Plain(s) :
              l \in SeqOf(Loops(s), 2), e \in {"libclang", "pycparser"}, t \in BOOLEAN} :
           s \in {<<"buffer", "count", "scalar">>, <<"scalar", "buffer", "scalar">>,
                  <<"buffer", "out", "count">>, <<"out", "scalar", "real">>}}

\* Text: a char* result beside parameters of each calling shape.
TextShapes == {<<"scalar", "real", "real">>, <<"out", "real", "real">>, <<"struct", "real", "real">>,
               <<"double", "real", "real">>, <<"buffer", "scalar", "real">>}
TextLibraries(v) == {l \in Libraries(<<"struct">>, v) : ~l.otherCandidates}
Texts ==
    UNION {UNION {{v @@ l @@ [text |-> t, bufferFree |-> f, body |-> b,
                              engine |-> "pycparser"] @@ Plain(s) :
                     l \in TextLibraries(v), t \in {"owned", "notOwned", "notAnalysed"},
                     f \in BOOLEAN, b \in Bodies(s)} :
                   v \in {w \in Verdicts(s) : w.role # "creates"}} : s \in TextShapes}

\* Declarations: every type of one parameter, and everything of the struct.
Types == [form : {"value", "pointer", "double", "array", "unsized"},
          of : {"integer", "real", "char", "enum", "struct", "void", "function"},
          const : BOOLEAN, named : {{}}]
Declarations ==
    {[Plain(<<"scalar", "real", "real">>) EXCEPT !.type[1] = t, !.variadic = v, !.engine = e,
                                                 !.body[1] = b, !.handedOut = h] :
        t \in Types, v \in BOOLEAN, e \in {"libclang", "pycparser"}, b \in Once, h \in BOOLEAN}
    \cup {[Plain(<<"struct", "real", "real">>) EXCEPT !.otherCandidates = TRUE, !.initialised = i,
                                                     !.struct = s] :
            i \in BOOLEAN,
            s \in [sized : BOOLEAN, place : {"header", "folder", "beside", "system"},
                    installed : BOOLEAN]}
    \cup {[Plain(<<"struct", c, "real">>) EXCEPT !.type[2].named = @ \cup {"count"}, !.handedOut = h,
                                                !.otherCandidates = o, !.initialised = TRUE,
                                                !.struct.sized = TRUE] :
            c \in {"scalar", "real", "out", "manual", "string"}, h \in BOOLEAN, o \in BOOLEAN}

\* The other runs, over pairs of pointers.
Switched ==
    {[i EXCEPT !.run = r] : r \in {"noSource", "noExtensions", "noCallerState"},
        i \in UNION {UNION {{v @@ l @@ [confirmed |-> c] @@ Plain(s) :
                              l \in Libraries(s, v), c \in SUBSET Having({"double"}, s)} :
                            v \in Verdicts(s)} :
                     s \in {<<a, b, "real">> : a \in {"struct", "double", "out"},
                                               b \in {"struct", "double", "count"}}}}

MCInputs == <<Handled, Scalars, Arrayed, Texts, Declarations, Switched>>
==============================================================================
