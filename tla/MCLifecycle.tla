----------------------------- MODULE MCLifecycle -----------------------------
EXTENDS Lifecycle

MCOrder == <<"close", "reset", "wrap">>
MCNames == {"close", "reset", "wrap"}

Body(returns, params, always, guarded, named, calls) ==
    [returns |-> returns, params |-> params, always |-> always,
     guarded |-> guarded, destructorName |-> named, calls |-> calls]

To(f, p) == [callee |-> f, arg |-> p, whole |-> TRUE]
PartTo(f, p) == [callee |-> f, arg |-> p, whole |-> FALSE]

Constructor == {Body("conn", <<>>, {}, {}, FALSE, <<>>)}

\* Frees its only parameter: always, on a branch, on a branch of a function
\* called destroy.
Leaves ==
    {Body(NoType, <<"conn">>, {1}, {}, FALSE, << <<>> >>),
     Body(NoType, <<"conn">>, {}, {1}, FALSE, << <<>> >>),
     Body(NoType, <<"conn">>, {}, {1}, TRUE, << <<>> >>)}

\* Passes its only parameter to no function, to one or to two.
Wrappers ==
    {Body(NoType, <<"conn">>, {}, {}, FALSE, <<calls>>) :
        calls \in {<<>>} \cup {<<To(f, 1)>> : f \in MCNames}
                 \cup {<<To(f, 1), To(g, 1)>> : f \in MCNames, g \in MCNames \ {"reset"}}}

\* Passes on a struct of the same type that its parameter points to.
Parting == {Body(NoType, <<"conn">>, {}, {}, FALSE, << <<PartTo(f, 1)>> >>) : f \in MCNames}

\* A struct of another type passed where a conn is expected.
Mistyped == {Body(NoType, <<"row">>, {}, {}, FALSE, << <<To(f, 1)>> >>) : f \in MCNames}

\* Two parameters, one of them possibly freed here on a branch.
Pairwise ==
    {Body(NoType, <<"conn", "conn">>, {}, {}, FALSE, << <<To(f, 1)>>, <<To(g, 1)>> >>) :
        f, g \in MCNames}
    \cup {Body(NoType, <<"conn", "conn">>, {}, {1}, FALSE, << <<>>, <<To(f, 1)>> >>) :
        f \in MCNames}
    \cup {Body(NoType, <<"conn", "conn">>, {}, {}, FALSE, << <<>>, <<To(f, 2)>> >>) :
        f \in MCNames}

Others == Constructor \cup Wrappers \cup Parting \cup Mistyped \cup Pairwise

\* One or two leaves, in any place; a library without one frees nothing.
MCPrograms ==
    UNION {{[f \in MCNames |-> IF f \in leaves THEN a[f] ELSE b[f]] :
                a \in [leaves -> Leaves], b \in [MCNames \ leaves -> Others]} :
            leaves \in (SUBSET MCNames) \ {{}, MCNames}}
==============================================================================
