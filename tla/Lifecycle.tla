------------------------------ MODULE Lifecycle ------------------------------
(***************************************************************************)
(* layers/l2_handles.py: which functions of a C library create, use or     *)
(* destroy a handle.  Each function is first classified from its own body; *)
(* a fixed point over the calls that pass a parameter on then upgrades the *)
(* wrappers of destructors.                                                *)
(*                                                                         *)
(* A C function is reduced to what the extraction looks at: the struct     *)
(* type it returns, the struct type of each parameter, the parameters it   *)
(* passes to a deallocator (always, or inside a branch or loop), whether   *)
(* its own name has a deallocator's word in it, and the calls that pass a  *)
(* parameter on, whole or only something it points to (p->child, *p).      *)
(***************************************************************************)
EXTENDS Naturals, Sequences, FiniteSets, FiniteSetsExt, Functions

CONSTANTS
    Order,      \* the functions, in the order records.items() yields them
    Types,      \* the struct types of the library
    NoType,     \* a parameter or a result that points to no struct
    Programs,   \* the libraries to analyse: functions -> bodies
    Engines,    \* the parsers to analyse them with
    MaxIters    \* MAX_FIXPOINT_ITERS

Functions == {Order[i] : i \in DOMAIN Order}

ASSUME MaxItersAssumption == MaxIters \in Nat \ {0}
ASSUME NoTypeAssumption == NoType \notin Types
ASSUME EnginesAssumption == Engines \subseteq {"pycparser", "libclang"}
ASSUME OrderAssumption == Order \in Seq(Functions) /\ Cardinality(Functions) = Len(Order)

\* What the extraction can find of a C function.
Extractable ==
    [returns : Types \cup {NoType}, params : Seq(Types \cup {NoType}),
     always : SUBSET Nat, guarded : SUBSET Nat, destructorName : BOOLEAN,
     calls : Seq(Seq([callee : STRING, arg : Nat, whole : BOOLEAN]))]
ASSUME ProgramsAssumption ==
    \A library \in Programs : \A f \in Functions :
        /\ library[f] \in Extractable
        /\ Len(library[f].calls) = Len(library[f].params)

VARIABLES
    program,    \* the library: never changes
    engine,     \* the parser: never changes
    scan,       \* function -> the order of its forwards, a hash order
    facts,      \* function -> what is believed of it
    next,       \* the position in Order of the function to look at
    round,      \* iters
    changed,
    phase,      \* "classify", then "returned" or "raised"
    kept        \* the functions whose facts are returned

input == <<program, engine, scan>>
vars == <<input, facts, next, round, changed, phase, kept>>

-----------------------------------------------------------------------------
(* Extraction: one HandleRecord for each function.                         *)

StructParams(f) == {p \in DOMAIN program[f].params : program[f].params[p] # NoType}
TypeOfParam(f, p) == program[f].params[p]
Freed(f) == StructParams(f) \cap (program[f].always \cup program[f].guarded)

\* Only the pycparser engine fills this field in; the libclang engine leaves
\* it at its default, the empty set.
FreedConditional(f) ==
    IF engine = "pycparser" THEN Freed(f) \cap program[f].guarded ELSE {}

Candidates(f) == StructParams(f) \ Freed(f)

\* forwards is built from a Python set of names: any order may come out.
ScanOrders(ps) == {s \in [1..Cardinality(ps) -> ps] :
                      \A i, j \in DOMAIN s : i # j => s[i] # s[j]}

Returned == {program[f].returns : f \in Functions} \ {NoType}

-----------------------------------------------------------------------------
(* Classification from the body alone.                                     *)

Fact(role, evidence, p) == [role |-> role, evidence |-> evidence, param |-> p]

OwnFact(f) ==
    CASE program[f].returns # NoType -> Fact("creates", "direct", 0)
      [] program[f].returns = NoType /\ Freed(f) # {} ->
            LET p == Min(Freed(f)) IN
            IF p \notin FreedConditional(f) THEN Fact("destroys", "direct", p)
            ELSE Fact(IF program[f].destructorName THEN "destroys"
                                                   ELSE "uncertain_destroys",
                      "conditional", p)
      [] program[f].returns = NoType /\ Freed(f) = {} /\ StructParams(f) # {} ->
            Fact("uses", "direct", Min(StructParams(f)))
      [] OTHER -> Fact("none", "direct", 0)

Init ==
    /\ program \in Programs
    /\ engine \in Engines
    /\ scan \in {s \in [Functions -> UNION {ScanOrders(Candidates(f)) : f \in Functions}] :
                    \A f \in Functions : s[f] \in ScanOrders(Candidates(f))}
    /\ facts = [f \in Functions |-> OwnFact(f)]
    /\ next = 1
    /\ round = 1
    /\ changed = FALSE
    /\ phase = "classify"
    /\ kept = {}

-----------------------------------------------------------------------------
(* The forwarding fixed point.                                             *)

Destroying == {"destroys", "uncertain_destroys"}

\* The unwrapping of libclang takes what a parameter points to for the
\* parameter; pycparser sees only a bare name.
Seen(call) == call.whole \/ engine = "libclang"

\* Mutant: which parameter the callee destroys is not looked at.
ForwardsAnyParam(f, p, call) ==
    /\ Seen(call)
    /\ call.callee \in Functions
    /\ call.arg \in DOMAIN program[call.callee].params
    /\ facts[call.callee].role \in Destroying
    /\ TypeOfParam(call.callee, call.arg) = TypeOfParam(f, p)

\* Mutant: an uncertain destructor is not passed on.
ForwardsCertain(f, p, call) ==
    /\ Seen(call)
    /\ call.callee \in Functions
    /\ call.arg \in DOMAIN program[call.callee].params
    /\ facts[call.callee].role = "destroys"
    /\ facts[call.callee].param = call.arg
    /\ TypeOfParam(call.callee, call.arg) = TypeOfParam(f, p)

\* The call of f that is handed parameter p destroys it, by what is believed
\* of the callee now.
Forwards(f, p, call) ==
    /\ Seen(call)
    /\ call.callee \in Functions
    /\ call.arg \in DOMAIN program[call.callee].params
    /\ facts[call.callee].role \in Destroying
    /\ facts[call.callee].param = call.arg
    /\ TypeOfParam(call.callee, call.arg) = TypeOfParam(f, p)

Forwarded(g) ==
    IF \/ facts[g].role = "uncertain_destroys"
       \/ facts[g].evidence \in {"conditional", "forwarded+conditional"}
    THEN Fact("uncertain_destroys", "forwarded+conditional", 0)
    ELSE Fact("destroys", "forwarded", 0)

Upgrades(old, new) ==
    \/ old = "uses"
    \/ old = "uncertain_destroys" /\ new = "destroys"

\* A function that is already some kind of destructor breaks out of the loop
\* over its parameters after the first of them.
Considered(f) == IF facts[f].role \in Destroying THEN DOMAIN scan[f] \cap {1}
                                                 ELSE DOMAIN scan[f]

\* The places <<k, i>> (i-th call of the k-th scanned parameter) that would
\* upgrade f.
Evidence(f) ==
    UNION {{<<k, i>> : i \in
              {j \in DOMAIN program[f].calls[scan[f][k]] :
                  LET call == program[f].calls[scan[f][k]][j] IN
                  /\ Forwards(f, scan[f][k], call)
                  /\ Upgrades(facts[f].role, Forwarded(call.callee).role)}} :
           k \in Considered(f)}

First(places) == CHOOSE a \in places : \A b \in places :
                    a[1] < b[1] \/ (a[1] = b[1] /\ a[2] <= b[2])

Upgrade(f) ==
    LET place == First(Evidence(f))
        p == scan[f][place[1]]
        call == program[f].calls[p][place[2]]
    IN  [Forwarded(call.callee) EXCEPT !.param = p]

Skipped(f) == facts[f].role = "destroys" /\ facts[f].evidence = "direct"

Visit ==
    /\ phase = "classify"
    /\ next \in DOMAIN Order
    /\ LET f == Order[next] IN
        IF Skipped(f) \/ Evidence(f) = {}
        THEN UNCHANGED <<facts, changed>>
        ELSE facts' = [facts EXCEPT ![f] = Upgrade(f)] /\ changed' = TRUE
    /\ next' = next + 1
    /\ UNCHANGED <<input, round, phase, kept>>

NextRound ==
    /\ changed
    /\ round < MaxIters
    /\ round' = round + 1
    /\ next' = 1
    /\ changed' = FALSE
    /\ UNCHANGED <<input, facts, phase, kept>>

HandleType(f) ==
    CASE facts[f].role = "none" -> NoType
      [] facts[f].role = "creates" -> program[f].returns
      [] OTHER -> TypeOfParam(f, facts[f].param)

OfHandedOut == {f \in Functions : HandleType(f) \in Returned}

\* Mutant: one round is taken to be enough.
ReturnEarly ==
    /\ phase' = "returned"
    /\ kept' = OfHandedOut
    /\ UNCHANGED <<input, facts, next, round, changed>>

\* Only facts about types that some function returns are returned.
Return ==
    /\ ~changed
    /\ phase' = "returned"
    /\ kept' = OfHandedOut
    /\ UNCHANGED <<input, facts, next, round, changed>>

\* FixedPointNotReached.
Raise ==
    /\ changed
    /\ round = MaxIters
    /\ phase' = "raised"
    /\ UNCHANGED <<input, facts, next, round, changed, kept>>

\* Mutant: a round that changed nothing is followed by another.
EndRoundAgain ==
    /\ phase = "classify"
    /\ next = Len(Order) + 1
    /\ next' = 1
    /\ UNCHANGED <<input, facts, round, changed, phase, kept>>

EndRound ==
    /\ phase = "classify"
    /\ next = Len(Order) + 1
    /\ NextRound \/ Return \/ Raise

Next == Visit \/ EndRound
Spec == Init /\ [][Next]_vars
FairSpec == Spec /\ WF_vars(Next)

-----------------------------------------------------------------------------
(* What the classification is measured against: the parameters that reach  *)
(* a deallocator, as the least set closed under the calls themselves.      *)

Pairs == UNION {{<<f, p>> : p \in StructParams(f)} : f \in Functions}

\* <<f, p>> passes p to a pair of known.
PassesOn(f, p, known) ==
    /\ program[f].returns = NoType
    /\ p \notin Freed(f)
    /\ \E i \in DOMAIN program[f].calls[p] :
        LET call == program[f].calls[p][i] IN
        /\ call.whole
        /\ <<call.callee, call.arg>> \in known
        /\ TypeOfParam(call.callee, call.arg) = TypeOfParam(f, p)

FreesHere(always) ==
    {fp \in Pairs : LET f == fp[1] IN
                    /\ program[f].returns = NoType
                    /\ fp[2] \in Freed(f)
                    /\ always => fp[2] \notin program[f].guarded}

Closed(S) == \A f \in Functions : \A p \in StructParams(f) :
                PassesOn(f, p, S) => <<f, p>> \in S

ReachesFree(always) ==
    LET here == FreesHere(always)
    IN  {fp \in Pairs : \A S \in SUBSET Pairs : here \subseteq S /\ Closed(S) => fp \in S}

-----------------------------------------------------------------------------
(* Properties.                                                             *)

\* f is asserted to destroy a parameter that it frees only on a branch, and its
\* name does not say that it destroys.
AssertsConditional(f) ==
    /\ facts[f].role = "destroys" /\ facts[f].param \in program[f].guarded
    /\ ~program[f].destructorName

\* No fact that is returned asserts that a function destroys a parameter it frees
\* only on a branch, unless its name says that it destroys: the client's next
\* call on the handle may be legal (l2_handles.py, _FreeFinder).
NeverAssertsConditional == \A f \in kept : ~AssertsConditional(f)

\* A wrapper is called a destructor only if a chain of calls leads from its
\* parameter to a free, through functions that free on every path when it
\* is called a certain one; and with the engine that records which frees are
\* conditional, none of those is asserted.  With libclang this holds only of
\* libraries that pass parameters whole: the destruction of a child counts as
\* the destruction of its parent there.
PassesWhole == \A f \in Functions : \A p \in DOMAIN program[f].calls :
                  \A call \in Range(program[f].calls[p]) : call.whole
DestroysGrounded ==
    engine = "pycparser" \/ PassesWhole =>
    LET freed == ReachesFree(FALSE)
        freedAlways == ReachesFree(TRUE)
    IN  \A f \in Functions :
        /\ facts[f].role \in Destroying => <<f, facts[f].param>> \in freed
        /\ engine = "pycparser" /\ facts[f].evidence = "forwarded"
                => <<f, facts[f].param>> \in freedAlways
        /\ engine = "pycparser" => ~AssertsConditional(f)

\* What classify_records returns is a fixed point: no function is left that
\* a further pass would upgrade.  Otherwise it raises, and a result cut off
\* by the cap on the rounds is never used.
PartialNeverReturned ==
    phase = "returned" => \A f \in Functions : Skipped(f) \/ Evidence(f) = {}

\* In a library whose functions take one struct each, no function that can
\* reach a free of its parameter is returned as a harmless uses.
NoFreeOverlooked ==
    /\ phase = "returned"
    /\ \A f \in Functions : Cardinality(StructParams(f)) <= 1
    => LET freed == ReachesFree(FALSE) IN
       \A f \in Functions : facts[f].role = "uses" => <<f, facts[f].param>> \notin freed

\* The classification ends, recursion among the C functions included.
Terminates == <>(phase # "classify")
==============================================================================
