----------------------------- MODULE MCOwnership -----------------------------
(* Instances of Ownership for TLC: libraries of three functions with bodies *)
(* from the idioms below, beside one that allocates and one outside.        *)
EXTENDS Ownership

MCAllocators == {"malloc"}
MCDeallocators == {"release"}
MCTransfers == {"take"}
Varied == {"open", "parse", "take"}
Called == Varied \cup {"make", "extern"}

P == Ref("p")
Q == Ref("q")
X == Ref("x")
Y == Ref("y")
O == Ref("o")
Malloc == Call("malloc", <<>>)
PF == Member("p", "f")

Pointer(body) ==
    [params |-> <<"p", "q">>, handles |-> {"p", "q"}, outs |-> {}, returns |-> "pointer", body |-> body]
String(body) ==
    [params |-> <<"p">>, handles |-> {"p"}, outs |-> {}, returns |-> "string", body |-> body]
Filling(body) ==
    [params |-> <<"p", "o">>, handles |-> {"p"}, outs |-> {"o"}, returns |-> "none", body |-> body]
Silent == [params |-> <<"p">>, handles |-> {"p"}, outs |-> {}, returns |-> "none",
           body |-> <<Do("release", <<P>>)>>]

\* x = p->f; on a branch x = NULL and p->f is freed; then `rest`.
Releasing(rest) ==
    <<Declare("x", PF), OnBranch(Set(X, Null)), OnBranch(Do("release", <<PF>>))>> \o rest

PointerBodies ==
    {Pointer(<<Return(Call(g, <<P>>))>>) : g \in Called}
    \cup {Pointer(b) : b \in {
        \* allocated, with a NULL on failure
        <<Declare("x", Malloc), OnBranch(Return(Null)), Return(X)>>,
        <<Set(X, Null), Set(X, Malloc), OnBranch(Set(X, Null)), Return(X)>>,
        \* allocated, then stored or passed on together with a handle
        <<Declare("x", Malloc), Set(PF, X), Return(X)>>,
        <<Declare("x", Call("make", <<>>)), Do("extern", <<P, X>>), Return(X)>>,
        <<Declare("x", Malloc), Do("extern", <<PF, X>>), Return(X)>>,
        <<Return(Call("parse", <<P, Call("make", <<>>)>>))>>,
        \* kept through a borrowed local, or never assigned on one path
        <<Declare("x", Malloc), Declare("y", PF), Do("extern", <<Y, X>>), Return(X)>>,
        <<OnBranch(Set(X, Malloc)), Return(X)>>,
        \* borrowed
        <<Declare("x", PF), Return(X)>>,
        <<Declare("x", P), Return(Member("x", "f"))>>,
        \* borrowed or allocated
        <<Declare("x", PF), OnBranch(Set(X, Malloc)), Return(X)>>,
        <<OnBranch(Return(Call("extern", <<P>>))), Return(Malloc)>>,
        \* released by the structure, or not quite
        Releasing(<<Set(PF, Null), Return(X)>>),
        Releasing(<<Return(X)>>),
        Releasing(<<Set(PF, Null), Set(Member("q", "g"), X), Return(X)>>),
        Releasing(<<OnBranch(Set(PF, Null)), Return(X)>>),
        \* a transfer, but only for "take"
        <<Set(PF, Null), Return(P)>>}}
    \cup {Silent}

StringBodies ==
    {String(<<Return(Call(g, <<P>>))>>) : g \in Called}
    \cup {String(<<OnBranch(Return(Call(g, <<P>>))), Return(Call(h, <<>>))>>) :
            g \in {"open", "take"}, h \in {"make", "parse", "malloc"}}
    \cup {String(b) : b \in {
        <<Declare("x", Null), Set(X, Malloc), Return(X)>>,
        <<Declare("x", Malloc), OnBranch(Set(X, Null)), Return(X)>>,
        <<OnBranch(Return(Text)), Return(Malloc)>>,
        <<Declare("x", Text), OnBranch(Set(X, Malloc)), Return(X)>>,
        <<OnBranch(Return(PF)), Return(Malloc)>>,
        <<Declare("x", Malloc), Set(PF, X), Return(X)>>,
        <<OnBranch(Return(Null)), Return(Malloc)>>,
        <<OnBranch(Set(X, Malloc)), Return(X)>>,
        <<>>}}

OutBodies ==
    {Filling(<<Do(g, <<P, O>>)>>) : g \in Called}
    \cup {Filling(<<Do(g, <<P, O>>), Do(h, <<P, O>>)>>) : g \in {"make", "open"}, h \in {"parse", "extern"}}
    \cup {Filling(b) : b \in {
        <<Declare("x", Null), Set(X, Malloc), OnBranch(Set(X, Null)), Set(Deref("o"), X)>>,
        <<Set(Deref("o"), Null), Set(Deref("o"), Malloc)>>,
        <<Set(Deref("o"), Malloc), OnBranch(Set(Deref("o"), PF))>>,
        <<Declare("x", Malloc), Set(Deref("o"), X), Set(PF, X)>>,
        <<Set(Deref("o"), PF)>>,
        <<Set(Deref("o"), Call("extern", <<>>))>>,
        <<Do("make", <<P, Deref("o")>>)>>,
        <<Do("extern", <<Call("make", <<P, O>>)>>)>>,
        <<Do("make", <<O, P>>)>>}}

Makes == [pointer |-> Pointer(<<Declare("x", Malloc), Return(X)>>),
          string |-> String(<<Return(Malloc)>>),
          out |-> Filling(<<Set(Deref("o"), Malloc)>>)]

File(names, defines) == [order |-> names, defines |-> defines, truncated |-> FALSE]
MCOrder == <<"open", "parse", "take", "make">>
OneFile(b, analysis) == <<File(MCOrder, b @@ ("make" :> Makes[analysis]))>>

\* "open" and "parse" in one file, the others in a second one, which may be
\* unreadable; and a static function "take" in each of two files.
TwoFiles(b, analysis) ==
    LET first == File(<<"open", "parse">>, [f \in {"open", "parse"} |-> b[f]])
        second == File(<<"take", "make">>, ("take" :> b["take"]) @@ ("make" :> Makes[analysis]))
    IN  {<<first, second>>, <<second, first>>, <<first, [second EXCEPT !.truncated = TRUE]>>,
         <<[first EXCEPT !.truncated = TRUE]>>,
         <<File(<<"take">>, "take" :> Makes[analysis]), second>>}

Input(analysis, engine, files, manual) ==
    [analysis |-> analysis, engine |-> engine, files |-> files, manual |-> manual]
Bodies(S, T, U) == {("open" :> a) @@ ("parse" :> b) @@ ("take" :> c) : a \in S, b \in T, c \in U}
Family(analysis, engine, bodies, manuals) ==
    {Input(analysis, engine, OneFile(b, analysis), m) : b \in bodies, m \in manuals}
Split(analysis, bodies) ==
    {Input(analysis, "libclang", files, <<>>) :
        files \in UNION {TwoFiles(b, analysis) : b \in bodies}}

Manuals == {"open" :> o : o \in {"caller", "library", "typo"}}
                  \cup {"make" :> "library", "extern" :> "caller"}
Wraps == {Pointer(<<Return(Call(g, <<P>>))>>) : g \in Called}
Forwards == {Filling(<<Do(g, <<P, O>>)>>) : g \in Called}
Transfer == Pointer(<<Set(PF, Null), Return(P)>>)

MCLibraries ==
    <<Family("pointer", "libclang", Bodies(PointerBodies, PointerBodies, Wraps \cup {Transfer}), {<<>>}),
      Family("pointer", "libclang", Bodies(Wraps \cup {Silent}, Wraps, Wraps), Manuals),
      Family("pointer", "pycparser", Bodies(PointerBodies, Wraps, Wraps), {"open" :> "caller"}),
      Family("string", "libclang", Bodies(StringBodies, StringBodies, StringBodies), {<<>>}),
      Family("out", "libclang", Bodies(OutBodies, OutBodies, OutBodies), {<<>>}),
      Family("out", "pycparser", Bodies(OutBodies, Forwards, Forwards), {<<>>}),
      Split("pointer", Bodies(Wraps, Wraps, Wraps)),
      Split("out", Bodies(Forwards, Forwards, Forwards))>>
==============================================================================
