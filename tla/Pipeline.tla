------------------------------ MODULE Pipeline ------------------------------
(***************************************************************************)
(* pipeline.py: infer_spec builds the specification of a library in        *)
(* stages.  Each analysis writes its verdicts over those of the stages     *)
(* before it; one that raises is noted and skipped, and the rest goes on   *)
(* without it.  The probes then run the function, and the policy decides   *)
(* whether it is exposed.                                                  *)
(*                                                                         *)
(* The module follows one function and its parameters through the stages   *)
(* and on to the calling shape it is bound with.  What its body does with  *)
(* its scalars and arrays is an input, read by module Accesses; so are the *)
(* verdicts of modules Lifecycle and Ownership on it, and what the rest of *)
(* the library contributes.  All struct pointers are to one type T, and    *)
(* declaration and definition agree on the names of the parameters.        *)
(* Confidences are in thousandths.                                         *)
(***************************************************************************)
EXTENDS Accesses, Signatures, FiniteSets

CONSTANTS
    NumParams,  \* how many parameters the function has
    Inputs,     \* the functions to follow, with what is found about them: a
                \* sequence of sets
    MaxFailures,\* how many analyses may raise
    MaxProbes   \* how often the probes are run on the specification

Params == 1..NumParams
NoParam == 0

ASSUME BoundsAssumption ==
    NumParams \in Nat \ {0} /\ MaxFailures \in Nat /\ MaxProbes \in Nat

\* What the analyses can find together.  Only a function that returns T* creates
\* handles, its text is not analysed, and the ownership analysis has a verdict
\* for each of them; only a T** can be confirmed as an out-handle.
Findable(i) ==
    /\ i.run \in {"full", "noSource", "noExtensions", "noCallerState"}
    /\ i.engine \in {"libclang", "pycparser"}
    /\ i.role \in {"none", "creates", "uses", "destroys", "uncertain_destroys"}
    /\ i.owner \in {"none", "caller", "library"}
    /\ i.role = "creates" => i.owner # "none" /\ i.text = "none"
    /\ i.text \in {"none", "owned", "notOwned", "notAnalysed"}
    /\ {i.handedOut, i.destructorNamed, i.bufferFree} \subseteq BOOLEAN
    /\ i.confirmed \subseteq {p \in Params : ShapeOf(i.type[p]) = "double"}
    /\ \A p \in Params : i.body[p] \in Seq([op : Ops, always : BOOLEAN])
    /\ i.loops \in Seq(Range(i.loops))
    /\ \A l \in Range(i.loops) : l.bound \in {NoParam} \cup
            {p \in Params : ShapeOf(i.type[p]) = "scalar"}

ASSUME InputsAssumption ==
    \A family \in DOMAIN Inputs : \A i \in Inputs[family] : Findable(i)

VARIABLES
    input,      \* the function and the findings: never changes
    lifecycle, owner, stringOwner, outParam, params,    \* the FunctionSpec
    stage,      \* the stage to run next
    handleTypes,\* does the handle analysis report T as handed out
    probes,     \* how often the probes have run
    \* History variables.
    failed,     \* the analyses that raised
    probed      \* parameter -> what the probes saw: "no", "unwritten", "written"

spec == <<lifecycle, owner, stringOwner, outParam, params>>
vars == <<input, spec, stage, handleTypes, probes, failed, probed>>

Shape(p) == ShapeOf(input.type[p])
With(shape) == {p \in Params : Shape(p) = shape}

-----------------------------------------------------------------------------
(* Layer 1: a first specification from the types of the header.            *)

Believed(role, intent, confidence, verified) ==
    [role |-> role, intent |-> intent, confidence |-> confidence, verified |-> verified]

Classify(shape) ==
    CASE shape \in {"scalar", "real"} -> Believed("scalar", "in", 1000, TRUE)
      [] shape = "string" -> Believed("string", "in", 1000, TRUE)
      [] shape = "out" -> Believed("scalar", "out", 900, FALSE)
      [] shape = "manual" -> Believed("scalar", "out", 1000, TRUE)
      [] shape \in {"struct", "double", "buffer", "opaque"} ->
            Believed("opaque", "in", 0, FALSE)

Init ==
    /\ \E family \in DOMAIN Inputs : input \in Inputs[family]
    /\ lifecycle = "none"
    /\ owner = "none"
    /\ stringOwner = "none"
    /\ outParam = NoParam
    /\ params = [p \in Params |-> Classify(Shape(p))]
    /\ stage = IF ~Bindable(input.type, input.variadic) THEN "skipped"
               ELSE IF input.run = "noSource" THEN "propagate" ELSE "defUse"
    /\ handleTypes = FALSE
    /\ probes = 0
    /\ failed = {}
    /\ probed = [p \in Params |-> "no"]

\* The stages in their order, and those a run has: one without source has only
\* the coverage extensions, which two flags turn off.
Order == <<"defUse", "handles", "ownership", "strings", "outHandles", "arrays",
           "propagate", "promote", "callerState", "probe">>
Extensions == {"propagate", "promote", "callerState"}
Scheduled ==
    CASE input.run = "full" -> Range(Order)
      [] input.run = "noSource" -> Extensions \cup {"probe"}
      [] input.run = "noExtensions" -> Range(Order) \ Extensions
      [] input.run = "noCallerState" -> Range(Order) \ {"callerState"}
Following(this) ==
    LET later == {i \in DOMAIN Order : /\ Order[i] \in Scheduled
                                      /\ \E j \in 1..(i - 1) : Order[j] = this}
    IN  Order[Min(later)]

\* Did the analysis get to write its findings?
Ran(this) == this \in Scheduled /\ this \notin failed

\* The stage runs and the next one follows.
Run(this) == stage = this /\ stage' = Following(this)
Keep == UNCHANGED <<input, failed, probes, probed>>

-----------------------------------------------------------------------------
(* fuse_intent.                                                            *)

Refinements == {{"out", "inout"}, {"in", "inout"}}

\* Mutant: agreement is not capped below certainty.
FuseUncapped(l1, l2) ==
    CASE Shape(l1) = "manual" -> params[l1]
      [] Shape(l1) # "manual" /\ params[l1].intent = l2.intent ->
            [params[l1] EXCEPT !.confidence = Max({@, l2.confidence}) + 50]
      [] OTHER ->
            Believed(params[l1].role, l2.intent,
                     IF {params[l1].intent, l2.intent} \in Refinements
                     THEN l2.confidence ELSE (l2.confidence * 8) \div 10, FALSE)

\* Parameter l1 after a def-use finding l2: agreement adds a little, but never
\* as far as certainty; a disagreement is settled for the source.
Fuse(l1, l2) ==
    CASE Shape(l1) = "manual" -> params[l1]
      [] Shape(l1) # "manual" /\ params[l1].intent = l2.intent ->
            [params[l1] EXCEPT !.confidence = Min({990, Max({@, l2.confidence}) + 50})]
      [] OTHER ->
            Believed(params[l1].role, l2.intent,
                     IF {params[l1].intent, l2.intent} \in Refinements
                     THEN l2.confidence ELSE (l2.confidence * 8) \div 10, FALSE)

\* libclang looks at pointers to scalars only, pycparser at every pointer.
ScalarPointers == {p \in Params : Shape(p) \in {"out", "manual", "buffer"}}
PointerParams == {p \in Params : input.type[p].form \in {"pointer", "double"}}
Followed == PointerParams \cap (IF input.engine = "libclang" THEN ScalarPointers ELSE Params)

DefUse ==
    /\ Run("defUse")
    /\ params' = [p \in Params |->
                    LET found == IF p \in Followed THEN Findings(input.engine, input.body[p]) ELSE {}
                    IN  IF found = {} THEN params[p] ELSE Fuse(p, CHOOSE l2 \in found : TRUE)]
    /\ Keep /\ UNCHANGED <<lifecycle, owner, stringOwner, outParam, handleTypes>>

-----------------------------------------------------------------------------
(* Handles, ownership, out-handles and arrays.                             *)

\* Mutant: the second value of analyze_handles is discarded.
HandlesDiscardingTypes ==
    /\ Run("handles")
    /\ IF input.role = "none"
       THEN UNCHANGED <<lifecycle, params>>
       ELSE /\ lifecycle' = input.role
            /\ params' = [p \in Params |-> IF Shape(p) = "struct"
                                           THEN Believed("handle", "in", 900, FALSE)
                                           ELSE params[p]]
    /\ Keep /\ UNCHANGED <<owner, stringOwner, outParam, handleTypes>>

\* apply_handle_facts: every struct parameter of a function with a verdict is
\* marked, T being handed out.
Handles ==
    /\ Run("handles")
    /\ handleTypes' = input.handedOut
    /\ IF input.role = "none"
       THEN UNCHANGED <<lifecycle, params>>
       ELSE /\ lifecycle' = input.role
            /\ params' = [p \in Params |-> IF Shape(p) = "struct"
                                           THEN Believed("handle", "in", 900, FALSE)
                                           ELSE params[p]]
    /\ Keep /\ UNCHANGED <<owner, stringOwner, outParam>>

\* Mutant: the lifecycle is not demoted.
OwnershipOwnerOnly ==
    /\ Run("ownership")
    /\ owner' = IF input.owner = "none" THEN owner ELSE input.owner
    /\ Keep /\ UNCHANGED <<lifecycle, stringOwner, outParam, params, handleTypes>>

\* apply_ownership_facts.
Ownership ==
    /\ Run("ownership")
    /\ IF input.owner = "none"
       THEN UNCHANGED <<lifecycle, owner>>
       ELSE /\ owner' = input.owner
            /\ lifecycle' = IF lifecycle = "creates" /\ input.owner = "library"
                            THEN "borrows" ELSE lifecycle
    /\ Keep /\ UNCHANGED <<stringOwner, outParam, params, handleTypes>>

\* apply_string_ownership_facts, of a function that returns char*.  A body that
\* was not analysed leaves no fact.
Strings ==
    /\ Run("strings")
    /\ stringOwner' = CASE input.text = "owned" -> "caller"
                        [] input.text = "notOwned" -> "library"
                        [] input.text \in {"none", "notAnalysed"} -> stringOwner
    /\ Keep /\ UNCHANGED <<lifecycle, owner, outParam, params, handleTypes>>

\* apply_out_handle_facts: each confirmed parameter is marked, and the last of
\* them becomes the one out-handle of the function.
OutHandles ==
    /\ Run("outHandles")
    /\ IF input.confirmed = {}
       THEN UNCHANGED spec
       ELSE /\ params' = [p \in Params |-> IF p \in input.confirmed
                                           THEN Believed("outHandle", "out", 850, FALSE)
                                           ELSE params[p]]
            /\ outParam' = Max(input.confirmed)
            /\ lifecycle' = "creates"
            /\ owner' = "caller"
            /\ UNCHANGED stringOwner
    /\ Keep /\ UNCHANGED handleTypes

Pointees == {p \in Params : Shape(p) \in {"out", "manual", "buffer"}}
Integral == {p \in Params : Shape(p) = "scalar"}
Lengths == ArrayFacts(Pointees, Integral, input.loops)

\* The array analysis reads C text that needs no preprocessing.
TextAtHand == input.engine = "pycparser" \/ input.preprocessed

\* apply_array_facts.
Arrays ==
    /\ Run("arrays")
    /\ params' =
        IF ~TextAtHand THEN params
        ELSE [p \in Params |->
                LET as == {f \in Lengths : f.array = p} IN
                CASE as # {} -> Believed("array", "in", Max({f.confidence : f \in as}), FALSE)
                  [] as = {} /\ (\E f \in Lengths : f.length = p) ->
                        [params[p] EXCEPT !.role = "lengthOf"]
                  [] OTHER -> params[p]]
    /\ Keep /\ UNCHANGED <<lifecycle, owner, stringOwner, outParam, handleTypes>>

-----------------------------------------------------------------------------
(* Coverage extensions.                                                    *)

\* extended_handle_types, T and the other types of the library apart.
ExtendedT == handleTypes \/ With("double") # {}
ExtendedAny == ExtendedT \/ input.otherCandidates

\* A neighbour that is taken for a count by its name, whatever its type, and has
\* kept a scalar's role.
CountBeside(p) == \E q \in {p - 1, p + 1} \cap Params :
                    /\ "count" \in input.type[q].named
                    /\ params[q].role \in {"scalar", "lengthOf"}

StillOpaque(p) == params[p].role = "opaque"

Propagated == IF ExtendedT THEN {p \in With("struct") : StillOpaque(p) /\ ~CountBeside(p)}
                           ELSE {}

\* propagate_handle_types.
Propagate ==
    /\ Run("propagate")
    /\ params' = [p \in Params |-> IF p \in Propagated
                                   THEN Believed("handle", "in", 800, FALSE) ELSE params[p]]
    /\ lifecycle' = IF Propagated # {} /\ lifecycle = "none" THEN "uses" ELSE lifecycle
    /\ Keep /\ UNCHANGED <<owner, stringOwner, outParam, handleTypes>>

\* The T** parameters that are not confirmed: none is when the stage that
\* confirms them left no facts.
Structural == {p \in With("double") \ (IF Ran("outHandles") THEN input.confirmed ELSE {}) :
                    params[p].role \in {"opaque", "outHandle"}}

\* promote_structural_out_handles: the first candidate, unless one has been
\* confirmed; no allocation was traced into it, so the library owns it.
Promote ==
    /\ Run("promote")
    /\ IF outParam # NoParam \/ Structural = {}
       THEN UNCHANGED spec
       ELSE /\ params' = [params EXCEPT ![Min(Structural)] =
                            Believed("outHandle", "out", 700, FALSE)]
            /\ outParam' = Min(Structural)
            /\ lifecycle' = "creates"
            /\ owner' = "library"
            /\ UNCHANGED stringOwner
    /\ Keep /\ UNCHANGED handleTypes

\* detect_caller_allocated_state for T.
CallerAllocated ==
    /\ ExtendedAny
    /\ ~ExtendedT
    /\ lifecycle \notin {"destroys", "uncertain_destroys"}
    /\ ~input.destructorNamed
    /\ \E dims \in StructDims(input.struct) : dims.local
    /\ input.initialised

\* apply_caller_state_facts.
CallerState ==
    /\ Run("callerState")
    /\ params' = [p \in Params |->
                    IF CallerAllocated /\ Shape(p) = "struct" /\ StillOpaque(p) /\ ~CountBeside(p)
                    THEN Believed("callerState", "inout", 800, FALSE) ELSE params[p]]
    /\ Keep /\ UNCHANGED <<lifecycle, owner, stringOwner, outParam, handleTypes>>

-----------------------------------------------------------------------------
(* An analysis raises before it has written anything.                      *)

\* The coverage extensions are abandoned together.
AfterFailure(this) == IF this \in Extensions THEN "probe" ELSE Following(this)

Fail ==
    /\ stage \in Range(Order) \ {"probe"}
    /\ stage = "arrays" => TextAtHand
    /\ Cardinality(failed) < MaxFailures
    /\ stage' = AfterFailure(stage)
    /\ failed' = failed \cup {stage}
    /\ UNCHANGED <<input, spec, handleTypes, probes, probed>>

-----------------------------------------------------------------------------
(* apply_verification, run once or more on the finished specification.     *)

Probeable ==
    IF \E p \in Params : params[p].role \in
            {"string", "opaque", "handle", "array", "outHandle", "callerState"}
    THEN {}
    ELSE {p \in Params : Shape(p) \in {"out", "manual"} /\ params[p].intent \in {"out", "inout"}}

AfterProbe(p, written) ==
    IF p \in written THEN [params[p] EXCEPT !.verified = TRUE]
    ELSE [params[p] EXCEPT !.confidence = @ \div 2]

Probe ==
    /\ stage = "probe"
    /\ probes < MaxProbes
    /\ probes' = probes + 1
    /\ \E written \in SUBSET Probeable :
        /\ params' = [p \in Params |-> IF p \in Probeable
                                       THEN AfterProbe(p, written) ELSE params[p]]
        /\ probed' = [p \in Params |->
                        IF p \in written THEN "written"
                        ELSE IF p \in Probeable /\ probed[p] = "no" THEN "unwritten"
                        ELSE probed[p]]
    /\ UNCHANGED <<input, lifecycle, owner, stringOwner, outParam, stage, handleTypes, failed>>

-----------------------------------------------------------------------------
(* check_exposable and the dispatch of build_capability.                   *)

Threshold == 500

Managed == {"handle", "outHandle", "callerState"}

ReturnsPointer == input.role = "creates"

\* Mutant: rule 0 is left out.
ExposableUncertain ==
    /\ ReturnsPointer => lifecycle \in {"creates", "borrows"}
    /\ \A p \in Params : params[p].role \notin Managed =>
            /\ params[p].role # "opaque"
            /\ params[p].verified \/ params[p].confidence >= Threshold

Exposable ==
    /\ lifecycle # "uncertain_destroys"
    /\ ReturnsPointer => lifecycle \in {"creates", "borrows"}
    /\ \A p \in Params : params[p].role \notin Managed =>
            /\ params[p].role # "opaque"
            /\ params[p].verified \/ params[p].confidence >= Threshold

Gate ==
    /\ stage = "probe"
    /\ stage' = IF Exposable THEN "exposed" ELSE "refused"
    /\ UNCHANGED <<input, spec, handleTypes, probes, failed, probed>>

\* The calling shape a function that is exposed is built with.
CallingShape ==
    CASE \E p \in Params : params[p].role = "callerState" -> "callerState"
      [] (\A p \in Params : params[p].role # "callerState") /\ outParam # NoParam -> "outHandle"
      [] OTHER -> IF lifecycle # "none" THEN lifecycle
                  ELSE IF \E p \in Params : params[p].role = "array" THEN "array" ELSE "plain"

\* Is the handle a call makes registered as owned, so that a destructor will
\* accept it?
ResultOwned ==
    \/ CallingShape = "outHandle" /\ owner = "caller"
    \/ CallingShape = "creates"

\* The parameter whose handle a destructor checks and pops.
PoppedParam == Min({p \in Params : params[p].role = "handle"})

\* In the plain shape C finds a cell of zeroes where an output is believed, and
\* the client's value otherwise.
ClientsValue(p) == params[p].intent # "out"
HandedBack == {p \in Params : Shape(p) \in {"out", "manual"} /\ params[p].role = "scalar"
                                /\ params[p].intent \in {"out", "inout"}}

\* The array whose length is passed for length parameter q: the last that
\* claimed it.
LengthGiven(q) == Max({f.array : f \in {g \in Lengths : g.length = q}})

\* The destructor of T has a lifecycle of its own once the handle analysis has
\* found it, or the propagation.
DestructorClaimed ==
    \/ Ran("handles") /\ input.handedOut
    \/ Ran("propagate") /\ ExtendedT

\* Mutant: a destructor that has a lifecycle is a candidate too, and the first
\* candidate will do.
DeallocatorOfAnyLifecycle ==
    CASE input.destructorNamed -> "object"
      [] ~input.destructorNamed /\ input.bufferFree -> "buffer"
      [] OTHER -> "none"

\* _find_string_deallocator: the one function that is named like one, takes one
\* parameter and has no lifecycle.
Deallocator ==
    LET object == input.destructorNamed /\ ~DestructorClaimed IN
    CASE object /\ ~input.bufferFree -> "object"
      [] ~object /\ input.bufferFree -> "buffer"
      [] object = input.bufferFree -> "none"

\* What becomes of a char* result: read and freed, read and left alone, passed
\* to the client as a number, or dropped.
TextResult ==
    CASE CallingShape = "destroys" -> "dropped"
      [] CallingShape \in {"callerState", "outHandle"} -> "read"
      [] CallingShape \in {"plain", "array", "uses"} /\ stringOwner # "caller" -> "read"
      [] CallingShape = "array" /\ stringOwner = "caller" -> "number"
      [] CallingShape = "plain" /\ stringOwner = "caller" /\ HandedBack # {} -> "number"
      [] OTHER -> IF Deallocator = "none" THEN "read" ELSE "freed"

Analyse == DefUse \/ Handles \/ Ownership \/ Strings \/ OutHandles \/ Arrays
            \/ Propagate \/ Promote \/ CallerState
Next == Analyse \/ Fail \/ Probe \/ Gate
Spec == Init /\ [][Next]_vars

-----------------------------------------------------------------------------
(* Properties.                                                             *)

\* A handle that a client may destroy is one whose ownership was established:
\* by the ownership analysis for a result, by a traced allocation for an
\* out-parameter (ownership rule 5).  It takes the ownership analysis to have
\* run: a creates that it never saw stays owned.
FreeableIsTraced ==
    stage = "exposed" /\ ResultOwned /\ Ran("ownership")
        => input.owner = "caller" \/ input.confirmed # {}

\* A function that frees its handle only on some path is never exposed (policy
\* rule 0).  A T** parameter makes it a creates and takes it past the rule.
UncertainRefused ==
    stage = "exposed" /\ Ran("handles") /\ With("double") = {}
        => input.role # "uncertain_destroys"

\* The binding never allocates a struct that the library hands out, or one that
\* belongs to the system, provided the handle analysis has run.
ManagedNeverAllocated ==
    /\ stage = "exposed" /\ Ran("handles")
    /\ CallingShape = "callerState"
    => ~input.handedOut /\ input.struct.place # "system"

\* What C may write to through a parameter is of the kind the binding gives it:
\* a cell or a list for scalars, an object of the library's or a zeroed struct
\* for T*, a cell for T**, and nothing for text or memory of an unknown type:
\* those are refused, whatever the stages after the first made of them (policy
\* rule 2).  An array of char takes itself for read-only text.
WritableIsProvided ==
    stage = "exposed" => \A p \in Params : LET t == input.type[p] IN
        /\ t.form \in {"pointer", "double"} /\ ~t.const
        => params[p].role \in
            CASE t.form = "pointer" /\ t.of \in {"integer", "real"} -> {"scalar", "array"}
              [] t.form = "pointer" /\ t.of = "struct" -> {"handle", "callerState"}
              [] t.form = "double" /\ t.of = "struct" -> {"outHandle"}
              [] OTHER -> {}

\* An output that every probe saw unwritten is not exposed, however sure the
\* types and the source were of it.  Only an author's override stands.
RefutedOutRefused ==
    stage = "exposed" => \A p \in Params :
        probed[p] = "unwritten" => Shape(p) = "manual"

\* With the plain shape the client's value is where C reads one before writing,
\* and what C writes comes back to the client.  The first half takes the first
\* access to be one the collectors see and every execution makes: they do not
\* follow branches.  The second takes no write to be an increment, through
\* pointer arithmetic or in a callee: the collectors overlook those.
ScalarsTravelBothWays ==
    stage = "exposed" /\ CallingShape = "plain" /\ Ran("defUse")
    => \A p \in With("out") : LET accesses == input.body[p] IN accesses # <<>> =>
        /\ Head(accesses).always /\ Reads(Head(accesses).op) => ClientsValue(p)
        /\ (\A a \in Range(accesses) : a.op \notin {"increment", "offset", "pass"})
            /\ (\E a \in Range(accesses) : Writes(a.op))
           => p \in HandedBack

\* The length C bounds its loops over an array by is the length of the list the
\* client gave for that array.  It takes the array to be the only pointer to
\* scalars and its loops to have one bound and variables of their own: the
\* first bound the analysis finds is given to every such pointer.
LengthIsTheBound ==
    LET over == {l \in Range(input.loops) : l.over # {}} IN
    /\ stage = "exposed" /\ CallingShape = "array"
    /\ Cardinality(Pointees) = 1
    /\ Cardinality({l.bound : l \in over}) = 1
    /\ \A l \in Range(input.loops) : l.over = {} => l.var \notin IndexVars(input.loops)
    => \A l \in over, p \in Pointees :
        params[p].role = "array" /\ l.bound # NoParam
        => params[l.bound].role = "lengthOf" /\ LengthGiven(l.bound) = p

\* A string the analysis found owned, and no other, is freed once it has been
\* read, and never by the destructor of an object.  It takes that destructor to
\* have been claimed: the search for a deallocator goes by names and would take
\* it otherwise.
TextFreedIffOwned ==
    stage = "exposed" /\ input.text # "none"
    /\ (input.destructorNamed => DestructorClaimed)
    => /\ TextResult = "freed" => input.text = "owned" /\ Deallocator = "buffer"
       /\ /\ input.text = "owned" /\ input.bufferFree /\ Ran("strings")
          /\ CallingShape \in {"plain", "uses"} /\ HandedBack = {}
          => TextResult = "freed"

\* The policy lets destructors through because the handle table checks the
\* ownership of what is freed: the handle checked and popped must be the one
\* the C function frees.
PoppedIsFreed ==
    stage = "exposed" /\ CallingShape = "destroys" => PoppedParam = input.freed
==============================================================================
