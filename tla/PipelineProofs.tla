--------------------------- MODULE PipelineProofs ---------------------------
(***************************************************************************)
(* Theorems about Pipeline, for every number of parameters, every function *)
(* whose findings are consistent (InputsAssumption), every number of       *)
(* analyses that raise and every number of probe rounds.                   *)
(***************************************************************************)
EXTENDS Pipeline, NumberLemmas, SequenceTheorems

\* The place of a stage in the order: the ends of a run come after all of them,
\* and a function that is skipped never enters it.
Place(s) ==
    CASE s = "defUse" -> 1 [] s = "handles" -> 2 [] s = "ownership" -> 3
      [] s = "strings" -> 4 [] s = "outHandles" -> 5 [] s = "arrays" -> 6
      [] s = "propagate" -> 7 [] s = "promote" -> 8 [] s = "callerState" -> 9
      [] s = "probe" -> 10 [] s = "skipped" -> 0 [] OTHER -> 11

Analyses == {"defUse", "handles", "ownership", "strings", "outHandles", "arrays",
             "propagate", "promote", "callerState"}
Ends == {"skipped", "exposed", "refused"}
Early == Analyses \ Extensions

Passed(s) == Place(s) < Place(stage)

\* The analysis has written its findings, and is not merely going to.
Done(s) == Ran(s) /\ Passed(s)

-----------------------------------------------------------------------------
(* The invariants.                                                         *)

\* A run goes through its stages in order; the ones that raised lie behind it.
StageInv ==
    /\ Findable(input)
    /\ stage \in Analyses \cup {"probe"} \cup Ends
    /\ stage \in Analyses \cup {"probe"} => stage \in Scheduled
    /\ failed \subseteq {s \in Analyses : Passed(s)}

\* What can be made of a parameter that the first layer sees as this shape.
RolesOf(shape) ==
    CASE shape = "scalar" -> {"scalar", "lengthOf"}
      [] shape = "real" -> {"scalar"}
      [] shape = "string" -> {"string"}
      [] shape \in {"out", "manual"} -> {"scalar", "array"}
      [] shape = "buffer" -> {"opaque", "array"}
      [] shape = "struct" -> {"opaque", "handle", "callerState"}
      [] shape = "double" -> {"opaque", "outHandle"}
      [] OTHER -> {"opaque"}

Beliefs ==
    [role : {"scalar", "lengthOf", "string", "array", "opaque", "handle",
             "callerState", "outHandle"},
     intent : {"in", "out", "inout"}, confidence : Nat, verified : BOOLEAN]

TypeOK ==
    /\ lifecycle \in {"none", "creates", "borrows", "uses", "destroys", "uncertain_destroys"}
    /\ owner \in {"none", "caller", "library"}
    /\ stringOwner \in {"none", "caller", "library"}
    /\ outParam \in Params \cup {NoParam}
    /\ params \in [Params -> Beliefs]
    /\ handleTypes \in BOOLEAN
    /\ probed \in [Params -> {"no", "unwritten", "written"}]

\* The role of a parameter stays within its shape.  An output that only the types
\* and the source vouch for stays short of certainty, and one the probes refuted
\* below the threshold of the policy.
BeliefInv ==
    \A p \in Params :
        /\ params[p].role \in RolesOf(Shape(p))
        /\ probed[p] # "no" => /\ Passed("callerState")
                               /\ Shape(p) \in {"out", "manual"}
        /\ Shape(p) = "out" =>
            /\ params[p].confidence <= 990
            /\ probed[p] # "written" => ~params[p].verified
            /\ probed[p] = "unwritten" => params[p].confidence < Threshold

\* Nothing changes the specification once the policy has let the function through.
GateInv == stage = "exposed" => Exposable

SpecInv == StageInv /\ TypeOK /\ BeliefInv /\ GateInv

\* A handle that the caller owns was traced to an allocation or confirmed, and a
\* function creates by its result or by an out-parameter found after ownership.
OwnerInv ==
    /\ owner = "caller" => input.owner = "caller" \/ input.confirmed # {}
    /\ outParam # NoParam => Passed("ownership")
    /\ lifecycle = "creates" /\ outParam = NoParam =>
            /\ input.role = "creates"
            /\ Done("ownership") => input.owner = "caller"
    /\ lifecycle = "borrows" => input.role = "creates"

\* Without a T** nothing takes back that a function only may destroy.
UncertainInv ==
    Done("handles") /\ With("double") = {} /\ input.role = "uncertain_destroys"
        => lifecycle = "uncertain_destroys"

\* The caller owns the text that the analysis found owned.
TextInv ==
    /\ stringOwner = "caller" => input.text = "owned"
    /\ Done("strings") /\ input.text = "owned" => stringOwner = "caller"

\* The binding allocates what the library neither hands out nor has from the system.
AllocatedInv ==
    /\ Done("handles") => handleTypes = input.handedOut
    /\ \A p \in Params : params[p].role = "callerState" =>
            input.struct.place # "system" /\ (Ran("handles") => ~input.handedOut)

\* An output that is still a scalar has the intent of its finding.
FoundIntent(p) == IF Noted(input.body[p]) = {} THEN "out" ELSE IntentOf(input.body[p])
IntentInv ==
    \A p \in With("out") : params[p].role = "scalar" =>
        params[p].intent = IF Done("defUse") THEN FoundIntent(p) ELSE "out"

\* Arrays and their lengths are marked together.
LengthInv ==
    (\E p \in Params : params[p].role = "array")
        => \A f \in Lengths : params[f.length].role = "lengthOf"

VerdictInv ==
    /\ OwnerInv /\ UncertainInv /\ TextInv
    /\ AllocatedInv /\ IntentInv /\ LengthInv

-----------------------------------------------------------------------------
(* The order of the stages.                                                *)

\* Place inverts Order.
LEMMA Places ==
    /\ DOMAIN Order = 1 .. 10
    /\ \A i \in 1 .. 10 : Place(Order[i]) = i /\ Order[i] \in Analyses \cup {"probe"}
    /\ Range(Order) = Analyses \cup {"probe"}
    /\ \A s \in Analyses \cup {"probe"} : Order[Place(s)] = s /\ Place(s) \in 1 .. 10
    /\ \A s \in Ends : Place(s) = IF s = "skipped" THEN 0 ELSE 11
<1>1. DOMAIN Order = 1 .. 10
    BY DEF Order
<1>2. \A i \in 1 .. 10 : Place(Order[i]) = i /\ Order[i] \in Analyses \cup {"probe"}
    BY DEF Order, Place, Analyses
<1>3. \A s \in Analyses \cup {"probe"} : Order[Place(s)] = s /\ Place(s) \in 1 .. 10
    <2>1. \A s \in Analyses \cup {"probe"} : \E i \in 1 .. 10 : Order[i] = s
        BY DEF Order, Analyses
    <2> QED
        BY <1>2, <2>1
<1>4. Range(Order) = Analyses \cup {"probe"}
    BY <1>1, <1>2, <1>3 DEF Range
<1>5. \A s \in Ends : Place(s) = IF s = "skipped" THEN 0 ELSE 11
    BY DEF Ends, Place
<1> QED
    BY <1>1, <1>2, <1>3, <1>4, <1>5

\* Every run has the probes, and its stages are among those of the order.
LEMMA ScheduledStages ==
    ASSUME Findable(input)
    PROVE  "probe" \in Scheduled /\ Scheduled \subseteq Analyses \cup {"probe"}
BY Places DEF Findable, Scheduled, Extensions, Analyses

\* The stage that follows is the first of the later ones the run has.
LEMMA FollowingIsNext ==
    ASSUME Findable(input), NEW this \in Analyses
    PROVE  LET next == Following(this) IN
           /\ next \in Scheduled
           /\ Place(next) > Place(this)
           /\ \A s \in Scheduled : Place(s) > Place(this) => Place(s) >= Place(next)
<1> DEFINE later == {i \in DOMAIN Order : /\ Order[i] \in Scheduled
                                         /\ \E j \in 1..(i - 1) : Order[j] = this}
<1>1. \A i \in 1 .. 10 : (\E j \in 1..(i - 1) : Order[j] = this) <=> Place(this) < i
    <2> SUFFICES ASSUME NEW i \in 1 .. 10
                 PROVE  (\E j \in 1..(i - 1) : Order[j] = this) <=> Place(this) < i
        OBVIOUS
    <2>1. ASSUME NEW j \in 1..(i - 1), Order[j] = this
          PROVE  Place(this) < i
        <3>1. j \in 1 .. 10
            OBVIOUS
        <3> QED
            BY <2>1, <3>1, Places
    <2>2. ASSUME Place(this) < i
          PROVE  Place(this) \in 1..(i - 1) /\ Order[Place(this)] = this
        BY <2>2, Places
    <2> QED
        BY <2>1, <2>2
<1>2. later = {i \in 1 .. 10 : Order[i] \in Scheduled /\ Place(this) < i}
    BY <1>1, Places
<1> HIDE DEF later
<1>3. later \in SUBSET Nat /\ later # {}
    <2>1. Place(this) < 10 /\ Order[10] = "probe"
        BY DEF Place, Analyses, Order
    <2> QED
        BY <1>2, <2>1, ScheduledStages
<1>4. Min(later) \in later /\ \A i \in later : Min(later) <= i
    BY <1>3, MinIsLeast
<1>5. Following(this) = Order[Min(later)]
    BY DEF Following, later
<1>6. Place(Following(this)) = Min(later)
    BY <1>2, <1>4, <1>5, Places
<1>7. \A s \in Scheduled : Place(s) > Place(this) => Place(s) \in later
    BY <1>2, Places, ScheduledStages
<1> QED
    BY <1>2, <1>4, <1>5, <1>6, <1>7

\* No step changes what is found about the function, turns back, skips an analysis
\* before the extensions, or takes one for done that has raised.
LEMMA StepAdvances ==
    ASSUME StageInv, [Next]_vars
    PROVE  /\ StageInv'
           /\ input' = input /\ Scheduled' = Scheduled
           /\ failed \subseteq failed'
           /\ Place(stage) <= Place(stage')
           /\ \A s \in Early : Done(s)' => Done(s) \/ s = stage
<1>1. /\ stage \in Analyses \cup {"probe"} => stage \in Scheduled
      /\ \A s \in Analyses \cup {"probe"} \cup Ends : Place(s) \in 0 .. 11
      /\ \A s, t \in Analyses \cup {"probe"} : Place(s) = Place(t) => s = t
      /\ Scheduled \subseteq Analyses \cup {"probe"} /\ "probe" \in Scheduled
    BY Places, ScheduledStages DEF StageInv
<1>2. ASSUME NEW this \in Analyses, Run(this), Keep
      PROVE  /\ StageInv'
             /\ input' = input /\ Scheduled' = Scheduled
             /\ failed \subseteq failed'
             /\ Place(stage) <= Place(stage')
             /\ \A s \in Early : Done(s)' => Done(s) \/ s = stage
    <2>1. /\ stage = this /\ stage' = Following(this)
          /\ input' = input /\ failed' = failed /\ Scheduled' = Scheduled
        BY <1>2 DEF Run, Keep, Scheduled
    <2>2. /\ stage' \in Scheduled /\ Place(stage') > Place(stage)
          /\ \A s \in Scheduled : Place(s) > Place(stage) => Place(s) >= Place(stage')
        BY <2>1, FollowingIsNext DEF StageInv
    <2>3. StageInv'
        BY <1>1, <2>1, <2>2 DEF StageInv, Passed
    <2>4. ASSUME NEW s \in Early, Done(s)'
          PROVE  Done(s) \/ s = stage
        <3>1. s \in Scheduled /\ s \notin failed /\ Place(s) < Place(stage')
            BY <2>1, <2>4 DEF Done, Ran, Passed
        <3>2. ~(Place(s) > Place(stage))
            BY <1>1, <2>2, <3>1
        <3>3. Place(s) < Place(stage) \/ s = stage
            BY <1>1, <2>1, <3>1, <3>2
        <3> QED
            BY <3>1, <3>3 DEF Done, Ran, Passed
    <2> QED
        BY <1>1, <2>1, <2>2, <2>3, <2>4
<1>3. CASE Fail
    <2>1. stage \in Analyses
        BY <1>3, Places DEF Fail
    <2>2. /\ stage' = AfterFailure(stage) /\ failed' = failed \cup {stage}
          /\ input' = input /\ Scheduled' = Scheduled
        BY <1>3 DEF Fail, Scheduled
    <2>3. /\ stage' \in Scheduled /\ Place(stage') > Place(stage)
          /\ \A s \in Scheduled \cap Early : Place(s) > Place(stage) => Place(s) >= Place(stage')
        <3>1. CASE stage \in Extensions
            <4>1. stage' = "probe"
                BY <2>2, <3>1 DEF AfterFailure
            <4>2. /\ Place("probe") = 10
                  /\ \A s \in Extensions : Place(s) \in 7 .. 9
                  /\ \A s \in Early : Place(s) \in 1 .. 6
                BY DEF Early, Analyses, Extensions, Place
            <4> QED
                BY <1>1, <3>1, <4>1, <4>2
        <3>2. CASE stage \notin Extensions
            BY <2>1, <2>2, <3>2, FollowingIsNext DEF StageInv, AfterFailure
        <3> QED
            BY <3>1, <3>2
    <2>4. StageInv'
        BY <1>1, <2>1, <2>2, <2>3 DEF StageInv, Passed
    <2>5. ASSUME NEW s \in Early, Done(s)'
          PROVE  Done(s) \/ s = stage
        <3>1. s \in Scheduled /\ s \notin failed /\ s # stage /\ Place(s) < Place(stage')
            BY <2>2, <2>5 DEF Done, Ran, Passed
        <3>2. ~(Place(s) > Place(stage))
            BY <1>1, <2>3, <3>1
        <3>3. Place(s) < Place(stage)
            BY <1>1, <2>1, <3>1, <3>2
        <3> QED
            BY <3>1, <3>3 DEF Done, Ran, Passed
    <2> QED
        BY <1>1, <2>1, <2>2, <2>3, <2>4, <2>5
<1>4. CASE Probe
    <2>1. stage' = stage /\ input' = input /\ failed' = failed /\ Scheduled' = Scheduled
        BY <1>4 DEF Probe, Scheduled
    <2> QED
        BY <1>1, <2>1 DEF StageInv, Passed, Done, Ran
<1>5. CASE Gate
    <2>1. /\ stage = "probe" /\ stage' \in Ends \ {"skipped"}
          /\ input' = input /\ failed' = failed /\ Scheduled' = Scheduled
        BY <1>5 DEF Gate, Ends, Scheduled
    <2>2. /\ Place("probe") = 10 /\ Place(stage') = 11 /\ Ends \cap (Analyses \cup {"probe"}) = {}
          /\ \A s \in Analyses : Place(s) < 10
        BY <2>1, Places DEF Place, Ends, Analyses
    <2> QED
        BY <1>1, <2>1, <2>2 DEF StageInv, Passed, Done, Ran, Early
<1>6. CASE UNCHANGED vars
    <2>1. stage' = stage /\ input' = input /\ failed' = failed /\ Scheduled' = Scheduled
        BY <1>6 DEF vars, Scheduled
    <2> QED
        BY <1>1, <2>1 DEF StageInv, Passed, Done, Ran
<1>7. CASE Analyse
    <2>1. \E this \in Analyses : Run(this) /\ Keep
        BY <1>7 DEF Analyse, DefUse, Handles, Ownership, Strings, OutHandles, Arrays,
                    Propagate, Promote, CallerState, Analyses
    <2> QED
        BY <1>2, <2>1
<1> QED
    BY <1>3, <1>4, <1>5, <1>6, <1>7 DEF Next

-----------------------------------------------------------------------------
(* What the analyses find.                                                 *)

\* Every shape is one of nine.
LEMMA ShapeType ==
    \A p \in Params : Shape(p) \in {"scalar", "real", "string", "out", "manual",
                                    "struct", "double", "buffer", "opaque"}
<1>1. \A t : ShapeOf(t) \in {"scalar", "real", "string", "out", "manual",
                           "struct", "double", "buffer", "opaque"}
    <2> SUFFICES ASSUME NEW t
                 PROVE  ShapeOf(t) \in {"scalar", "real", "string", "out",
                                       "manual", "struct", "double", "buffer", "opaque"}
        OBVIOUS
    <2>1. CASE MapType(t) = "integer"
        BY <2>1 DEF ShapeOf
    <2>2. CASE MapType(t) \in {"real", "char"}
        BY <2>2 DEF ShapeOf
    <2>3. CASE MapType(t) = "text"
        BY <2>3 DEF ShapeOf
    <2>4. CASE MapType(t) = "cell"
        BY <2>4 DEF ShapeOf
    <2>5. CASE MapType(t) \notin {"integer", "real", "char", "text", "cell"}
        BY <2>5 DEF ShapeOf
    <2> QED
        BY <2>1, <2>2, <2>3, <2>4, <2>5
<1> QED
    BY <1>1 DEF Shape

AccessLists == Seq([op : Ops, always : BOOLEAN])

\* The first noted access, its event and the events after it.
LEMMA NotedAccess ==
    ASSUME NEW accesses \in AccessLists, Noted(accesses) # {}
    PROVE  LET first == Min(Noted(accesses)) IN
           /\ first \in Noted(accesses) /\ \A i \in Noted(accesses) : first <= i
           /\ first \in 1 .. Len(accesses) /\ accesses[first].op \in Ops
           /\ Head(Seen(accesses[first].op)) \in {"read", "write"}
<1>1. /\ DOMAIN accesses = 1 .. Len(accesses) /\ Len(accesses) \in Nat
      /\ \A i \in 1 .. Len(accesses) : accesses[i].op \in Ops
    <2>1. \A i \in 1 .. Len(accesses) : accesses[i] \in [op : Ops, always : BOOLEAN]
        BY ElementOfSeq DEF AccessLists
    <2> QED
        BY <2>1, LenProperties DEF AccessLists
<1>2. Noted(accesses) \in SUBSET Nat /\ Noted(accesses) \subseteq 1 .. Len(accesses)
    BY <1>1 DEF Noted
<1>3. \A op \in Ops : Seen(op) # <<>> => Head(Seen(op)) \in {"read", "write"}
    BY DEF Ops, Seen
<1> QED
    BY <1>1, <1>2, <1>3, MinIsLeast DEF Noted

\* A finding is an intent with one of two confidences.
LEMMA FindingsType ==
    ASSUME NEW accesses \in AccessLists, NEW engine,
           NEW l2 \in Findings(engine, accesses)
    PROVE  /\ l2.intent \in {"in", "out", "inout"} /\ l2.intent = IntentOf(accesses)
           /\ l2.confidence \in {500, 950}
           /\ Noted(accesses) # {}
<1>1. Noted(accesses) # {} /\ l2 = [intent |-> IntentOf(accesses),
                  confidence |-> IF Escaped(engine, accesses) THEN 500 ELSE 950]
    BY DEF Findings
<1>2. IntentOf(accesses) \in {"in", "out", "inout"}
    BY <1>1, NotedAccess DEF IntentOf
<1> QED
    BY <1>1, <1>2

\* A noted access makes a finding.
LEMMA SomeFinding ==
    ASSUME NEW accesses, NEW engine, Noted(accesses) # {}
    PROVE  Findings(engine, accesses) # {}
<1> DEFINE l2 == [intent |-> IntentOf(accesses),
                  confidence |-> IF Escaped(engine, accesses) THEN 500 ELSE 950]
<1>1. Findings(engine, accesses) = {l2}
    BY DEF Findings
<1> HIDE DEF l2
<1> QED
    BY <1>1

\* An array fact is about a pointer to scalars and an integer parameter.
LEMMA LengthsType ==
    ASSUME Findable(input), NEW f \in Lengths
    PROVE  f.array \in Pointees /\ f.length \in Integral /\ f.confidence \in {600, 900}
<1>1. PICK p \in Pointees : f \in LengthOf(p, input.loops, Integral)
    BY DEF Lengths, ArrayFacts
<1> DEFINE counting == Bounds(input.loops, Integral)
<1>2. CASE counting # {}
    <2>1. f = [array |-> p, length |-> input.loops[Min(counting)].bound, confidence |-> 900]
        BY <1>1, <1>2 DEF LengthOf
    <2>2. counting \in SUBSET Nat
        BY DEF Bounds, Findable
    <2>3. Min(counting) \in counting
        BY <1>2, <2>2, MinIsLeast
    <2>4. input.loops[Min(counting)].bound \in Integral
        BY <2>3 DEF Bounds
    <2> QED
        BY <2>1, <2>4
<1>3. CASE counting = {} /\ p + 1 \in Integral
    <2>1. f = [array |-> p, length |-> p + 1, confidence |-> 600]
        BY <1>1, <1>3 DEF LengthOf
    <2> QED
        BY <1>3, <2>1
<1>4. CASE counting = {} /\ p + 1 \notin Integral
    <2>1. f \in {}
        BY <1>1, <1>4 DEF LengthOf
    <2> QED
        BY <2>1
<1> QED
    BY <1>2, <1>3, <1>4

\* The confidence of an array is that of one of the facts about it.
LEMMA ArrayConfidence ==
    ASSUME Findable(input), NEW facts \in SUBSET Lengths, facts # {}
    PROVE  Max({f.confidence : f \in facts}) \in {600, 900}
<1> DEFINE T == {f.confidence : f \in facts}
<1>1. T \subseteq {600, 900} /\ T # {}
    <2>1. \A f \in facts : f.confidence \in {600, 900}
        <3> TAKE f \in facts
        <3>1. f \in Lengths
            OBVIOUS
        <3> QED
            BY <3>1, LengthsType
    <2> QED
        BY <2>1
<1> HIDE DEF T
<1>2. T \in SUBSET Nat /\ \A x \in T : x <= 900
    BY <1>1
<1>3. Max(T) \in T
    BY <1>1, <1>2, MaxIsGreatest
<1> QED
    BY <1>1, <1>3 DEF T

\* Agreement never reaches certainty, and a disagreement is settled for the source.
LEMMA FuseResult ==
    ASSUME TypeOK, NEW p \in Params, NEW l2,
           l2.intent \in {"in", "out", "inout"}, l2.confidence \in {500, 950}
    PROVE  /\ Fuse(p, l2) \in Beliefs
           /\ Fuse(p, l2).role = params[p].role
           /\ Shape(p) # "manual" =>
                /\ Fuse(p, l2).intent = l2.intent
                /\ Fuse(p, l2).confidence <= 990
                /\ Fuse(p, l2).verified => params[p].verified
<1>1. params[p] \in Beliefs
    BY DEF TypeOK
<1>2. CASE Shape(p) = "manual"
    BY <1>1, <1>2 DEF Fuse
<1>3. CASE Shape(p) # "manual" /\ params[p].intent = l2.intent
    <2> DEFINE top == Max({params[p].confidence, l2.confidence})
               c == Min({990, top + 50})
    <2>1. top \in Nat
        <3> DEFINE b == params[p].confidence + l2.confidence
        <3>1. /\ params[p].confidence \in Nat /\ l2.confidence \in Nat /\ b \in Nat
              /\ params[p].confidence <= b /\ l2.confidence <= b
            BY <1>1 DEF Beliefs
        <3> DEFINE S == {params[p].confidence, l2.confidence}
        <3>2. S \in SUBSET Nat /\ S # {} /\ \A x \in S : x <= b
            BY <3>1
        <3> HIDE DEF b, S
        <3>3. Max(S) \in Nat
            BY <3>1, <3>2, MaxIsGreatest
        <3> QED
            BY <3>3 DEF S
    <2> HIDE DEF top
    <2>2. c \in Nat /\ c <= 990
        <3>1. {990, top + 50} \in SUBSET Nat /\ {990, top + 50} # {} /\ 990 \in {990, top + 50}
            BY <2>1
        <3> QED
            BY <3>1, MinIsLeast
    <2> HIDE DEF c
    <2>3. Fuse(p, l2) = [params[p] EXCEPT !.confidence = c]
        BY <1>3 DEF Fuse, c, top
    <2> QED
        BY <1>1, <1>3, <2>2, <2>3 DEF Beliefs
<1>4. CASE Shape(p) # "manual" /\ params[p].intent # l2.intent
    <2> DEFINE c == IF {params[p].intent, l2.intent} \in Refinements
                    THEN l2.confidence ELSE (l2.confidence * 8) \div 10
    <2>1. c \in Nat /\ c <= 990
        <3>1. (500 * 8) \div 10 = 400 /\ (950 * 8) \div 10 = 760
            OBVIOUS
        <3> QED
            BY <3>1
    <2>2. Fuse(p, l2) = Believed(params[p].role, l2.intent, c, FALSE)
        BY <1>4 DEF Fuse
    <2> HIDE DEF c
    <2> QED
        BY <1>1, <2>1, <2>2 DEF Beliefs, Believed
<1> QED
    BY <1>2, <1>3, <1>4

-----------------------------------------------------------------------------
(* What a step can make of a parameter.                                    *)

Untouched(p) == params'[p] = params[p]
Given(p, role, intent, c) == params'[p] = Believed(role, intent, c, FALSE)
Fused(p) ==
    /\ stage = "defUse" /\ p \in Followed
    /\ \E l2 \in Findings(input.engine, input.body[p]) : params'[p] = Fuse(p, l2)
MarkedArray(p) ==
    /\ Arrays /\ stage = "arrays" /\ p \in Pointees
    /\ \E c \in {600, 900} : Given(p, "array", "in", c)
MarkedLength(p) ==
    /\ stage = "arrays" /\ p \in Integral
    /\ params'[p] = [params[p] EXCEPT !.role = "lengthOf"]
MarkedHandle(p) ==
    /\ stage \in {"handles", "propagate"} /\ Shape(p) = "struct"
    /\ \E c \in {800, 900} : Given(p, "handle", "in", c)
MarkedState(p) ==
    /\ stage = "callerState" /\ Shape(p) = "struct" /\ CallerAllocated
    /\ Given(p, "callerState", "inout", 800)
MarkedOutHandle(p) ==
    /\ stage \in {"outHandles", "promote"} /\ Shape(p) = "double"
    /\ \E c \in {700, 850} : Given(p, "outHandle", "out", c)
ProbedOnce(p) ==
    /\ stage = "probe" /\ stage' = stage /\ p \in Probeable
    /\ \/ params'[p] = [params[p] EXCEPT !.verified = TRUE]
       \/ params'[p] = [params[p] EXCEPT !.confidence = @ \div 2]

\* The belief a step leaves of parameter p is the one before, or is written by
\* the one analysis that has a say on parameters of this shape.
Rewritten(p) ==
    \/ Untouched(p) \/ Fused(p) \/ MarkedArray(p) \/ MarkedLength(p)
    \/ MarkedHandle(p) \/ MarkedState(p) \/ MarkedOutHandle(p) \/ ProbedOnce(p)

\* Each step rewrites each parameter in one of these ways.
LEMMA StepRewrites ==
    ASSUME StageInv, TypeOK, Next, NEW p \in Params
    PROVE  Rewritten(p)
<1>1. CASE DefUse
    <2> DEFINE found(q) == IF q \in Followed THEN Findings(input.engine, input.body[q]) ELSE {}
    <2>1. /\ stage = "defUse"
          /\ params' = [q \in Params |-> IF found(q) = {} THEN params[q]
                                         ELSE Fuse(q, CHOOSE l2 \in found(q) : TRUE)]
        BY <1>1 DEF DefUse, Run
    <2>2. params'[p] = IF found(p) = {} THEN params[p]
                       ELSE Fuse(p, CHOOSE l2 \in found(p) : TRUE)
        <3> HIDE DEF found
        <3> QED
            BY <2>1
    <2>3. CASE found(p) = {}
        BY <2>2, <2>3 DEF Untouched, Rewritten
    <2>4. CASE found(p) # {}
        <3>1. p \in Followed /\ found(p) = Findings(input.engine, input.body[p])
            BY <2>4
        <3>2. (CHOOSE l2 \in found(p) : TRUE) \in found(p)
            <4> HIDE DEF found
            <4> QED
                BY <2>4
        <3>3. Fused(p)
            <4> HIDE DEF found
            <4> QED
                BY <2>1, <2>2, <2>4, <3>1, <3>2 DEF Fused
        <3> QED
            BY <3>3 DEF Rewritten
    <2> QED
        BY <2>3, <2>4
<1>2. CASE Handles
    <2>1. CASE input.role # "none" /\ Shape(p) = "struct"
        <3>1. stage = "handles" /\ Given(p, "handle", "in", 900)
            BY <1>2, <2>1 DEF Handles, Run, Given
        <3>2. MarkedHandle(p)
            BY <2>1, <3>1 DEF MarkedHandle
        <3> QED
            BY <3>2 DEF Rewritten
    <2>2. CASE input.role = "none" \/ Shape(p) # "struct"
        <3>1. Untouched(p)
            BY <1>2, <2>2 DEF Handles, Untouched
        <3> QED
            BY <3>1 DEF Rewritten
    <2> QED
        BY <2>1, <2>2
<1>3. CASE Ownership \/ Strings \/ Fail \/ Gate
    <2>1. Untouched(p)
        BY <1>3 DEF Ownership, Strings, Fail, Gate, spec, Untouched
    <2> QED
        BY <2>1 DEF Rewritten
<1>4. CASE OutHandles
    <2>1. \A q \in input.confirmed : Shape(q) = "double"
        BY DEF StageInv, Findable, Shape
    <2>2. CASE p \in input.confirmed
        <3>1. params'[p] = Believed("outHandle", "out", 850, FALSE)
            <4>1. params' = [q \in Params |-> IF q \in input.confirmed
                                THEN Believed("outHandle", "out", 850, FALSE) ELSE params[q]]
                BY <1>4, <2>2, Zenon DEF OutHandles
            <4> QED
                BY <2>2, <4>1
        <3>2. stage = "outHandles" /\ Given(p, "outHandle", "out", 850)
            BY <1>4, <3>1 DEF OutHandles, Run, Given
        <3>3. MarkedOutHandle(p)
            BY <2>1, <2>2, <3>2 DEF MarkedOutHandle
        <3> QED
            BY <3>3 DEF Rewritten
    <2>3. CASE p \notin input.confirmed
        <3>1. Untouched(p)
            BY <1>4, <2>3 DEF OutHandles, spec, Untouched
        <3> QED
            BY <3>1 DEF Rewritten
    <2> QED
        BY <2>2, <2>3
<1>5. CASE Arrays
    <2> DEFINE about == {f \in Lengths : f.array = p}
    <2>0. stage = "arrays"
        BY <1>5 DEF Arrays, Run
    <2>1. CASE ~TextAtHand
        <3>1. Untouched(p)
            BY <1>5, <2>1 DEF Arrays, Untouched
        <3> QED
            BY <3>1 DEF Rewritten
    <2>2. CASE TextAtHand /\ about # {}
        <3>1. params'[p] = Believed("array", "in", Max({f.confidence : f \in about}), FALSE)
            BY <1>5, <2>2 DEF Arrays
        <3>2. Max({f.confidence : f \in about}) \in {600, 900}
            <4>1. about \in SUBSET Lengths /\ about # {} /\ Findable(input)
                BY <2>2 DEF StageInv
            <4> HIDE DEF about
            <4> QED
                BY <4>1, ArrayConfidence
        <3>3. p \in Pointees
            <4>1. PICK f \in Lengths : f.array = p
                BY <2>2
            <4> QED
                BY <4>1, LengthsType DEF StageInv
        <3>4. Given(p, "array", "in", Max({f.confidence : f \in about}))
            BY <3>1 DEF Given
        <3>5. MarkedArray(p)
            <4> DEFINE top == Max({f.confidence : f \in about})
            <4>1. top \in {600, 900} /\ Given(p, "array", "in", top)
                BY <3>2, <3>4
            <4> HIDE DEF top
            <4> QED
                BY <1>5, <2>0, <3>3, <4>1 DEF MarkedArray
        <3> QED
            BY <3>5 DEF Rewritten
    <2>3. CASE TextAtHand /\ about = {} /\ \E f \in Lengths : f.length = p
        <3>1. params'[p] = [params[p] EXCEPT !.role = "lengthOf"]
            BY <1>5, <2>3 DEF Arrays
        <3>2. p \in Integral
            BY <2>3, LengthsType DEF StageInv
        <3>3. MarkedLength(p)
            BY <2>0, <3>1, <3>2 DEF MarkedLength
        <3> QED
            BY <3>3 DEF Rewritten
    <2>4. CASE TextAtHand /\ about = {} /\ ~ \E f \in Lengths : f.length = p
        <3>1. Untouched(p)
            BY <1>5, <2>4 DEF Arrays, Untouched
        <3> QED
            BY <3>1 DEF Rewritten
    <2> QED
        BY <2>1, <2>2, <2>3, <2>4
<1>6. CASE Propagate
    <2>1. Propagated \subseteq With("struct")
        BY DEF Propagated
    <2>2. /\ stage = "propagate"
          /\ params' = [q \in Params |-> IF q \in Propagated
                             THEN Believed("handle", "in", 800, FALSE) ELSE params[q]]
        BY <1>6 DEF Propagate, Run
    <2>3. CASE p \in Propagated
        <3>1. Given(p, "handle", "in", 800)
            BY <2>2, <2>3 DEF Given
        <3>2. MarkedHandle(p)
            BY <2>1, <2>2, <2>3, <3>1 DEF MarkedHandle, With
        <3> QED
            BY <3>2 DEF Rewritten
    <2>4. CASE p \notin Propagated
        <3>1. Untouched(p)
            BY <2>2, <2>4 DEF Untouched
        <3> QED
            BY <3>1 DEF Rewritten
    <2> QED
        BY <2>3, <2>4
<1>7. CASE Promote
    <2>1. CASE outParam # NoParam \/ Structural = {}
        <3>1. Untouched(p)
            BY <1>7, <2>1 DEF Promote, spec, Untouched
        <3> QED
            BY <3>1 DEF Rewritten
    <2>2. CASE ~(outParam # NoParam \/ Structural = {})
        <3>1. Structural \in SUBSET Nat /\ \A q \in Structural : Shape(q) = "double"
            BY DEF Structural, With, Params
        <3>2. Shape(Min(Structural)) = "double"
            BY <2>2, <3>1, MinIsLeast
        <3>3. /\ stage = "promote"
              /\ params' = [params EXCEPT ![Min(Structural)] =
                            Believed("outHandle", "out", 700, FALSE)]
            BY <1>7, <2>2 DEF Promote, Run
        <3>4. params \in [Params -> Beliefs]
            BY DEF TypeOK
        <3>5. CASE p = Min(Structural)
            <4>1. Given(p, "outHandle", "out", 700)
                BY <3>3, <3>4, <3>5 DEF Given
            <4>2. MarkedOutHandle(p)
                BY <3>2, <3>3, <3>5, <4>1 DEF MarkedOutHandle
            <4> QED
                BY <4>2 DEF Rewritten
        <3>6. CASE p # Min(Structural)
            <4>1. Untouched(p)
                BY <3>3, <3>4, <3>6 DEF Untouched
            <4> QED
                BY <4>1 DEF Rewritten
        <3> QED
            BY <3>5, <3>6
    <2> QED
        BY <2>1, <2>2
<1>8. CASE CallerState
    <2> DEFINE chosen == /\ CallerAllocated /\ Shape(p) = "struct"
                         /\ StillOpaque(p) /\ ~CountBeside(p)
    <2>1. /\ stage = "callerState"
          /\ params'[p] = IF chosen THEN Believed("callerState", "inout", 800, FALSE)
                          ELSE params[p]
        BY <1>8 DEF CallerState, Run
    <2>2. CASE chosen
        <3>1. Given(p, "callerState", "inout", 800)
            BY <2>1, <2>2 DEF Given
        <3>2. MarkedState(p)
            BY <2>1, <2>2, <3>1 DEF MarkedState
        <3> QED
            BY <3>2 DEF Rewritten
    <2>3. CASE ~chosen
        <3>1. Untouched(p)
            BY <2>1, <2>3 DEF Untouched
        <3> QED
            BY <3>1 DEF Rewritten
    <2> QED
        BY <2>2, <2>3
<1>9. CASE Probe
    <2>1. stage = "probe" /\ stage' = stage
        BY <1>9 DEF Probe
    <2>2. PICK written \in SUBSET Probeable :
            params' = [q \in Params |-> IF q \in Probeable
                                        THEN AfterProbe(q, written) ELSE params[q]]
        BY <1>9 DEF Probe
    <2>3. Untouched(p) \/ ProbedOnce(p)
        BY <2>1, <2>2 DEF AfterProbe, Untouched, ProbedOnce
    <2> QED
        BY <2>3 DEF Rewritten
<1> QED
    BY <1>1, <1>2, <1>3, <1>4, <1>5, <1>6, <1>7, <1>8, <1>9 DEF Next, Analyse

\* And it keeps to the same parameters.
LEMMA StepKeepsParams ==
    ASSUME TypeOK, Next
    PROVE  DOMAIN params' = Params /\ params' = [q \in Params |-> params'[q]]
<1>1. DOMAIN params = Params /\ params = [q \in Params |-> params[q]]
    BY DEF TypeOK
<1>2. CASE Ownership \/ Strings \/ Fail \/ Gate
    BY <1>1, <1>2 DEF Ownership, Strings, Fail, Gate, spec
<1>3. CASE DefUse
    BY <1>3 DEF DefUse
<1>4. CASE Handles
    BY <1>1, <1>4 DEF Handles
<1>5. CASE OutHandles
    BY <1>1, <1>5 DEF OutHandles, spec
<1>6. CASE Arrays
    BY <1>1, <1>6 DEF Arrays
<1>7. CASE Propagate
    BY <1>7 DEF Propagate
<1>8. CASE Promote
    <2>1. \/ params' = params
          \/ \E b : params' = [params EXCEPT ![Min(Structural)] = b]
        <3> DEFINE b == Believed("outHandle", "out", 700, FALSE)
        <3> HIDE DEF b
        <3>1. params' = params \/ params' = [params EXCEPT ![Min(Structural)] = b]
            BY <1>8 DEF Promote, spec, b
        <3> QED
            BY <3>1, Zenon
    <2> QED
        BY <1>1, <2>1
<1>9. CASE CallerState
    BY <1>9 DEF CallerState
<1>10. CASE Probe
    BY <1>10 DEF Probe
<1> QED
    BY <1>2, <1>3, <1>4, <1>5, <1>6, <1>7, <1>8, <1>9, <1>10 DEF Next, Analyse

\* So a belief stays a belief, and the role stays within the shape.
LEMMA RewrittenBelief ==
    ASSUME StageInv, TypeOK, NEW p \in Params, Rewritten(p),
           params[p].role \in RolesOf(Shape(p))
    PROVE  params'[p] \in Beliefs /\ params'[p].role \in RolesOf(Shape(p))
<1>1. params[p] \in Beliefs
    BY DEF TypeOK
<1>2. CASE Untouched(p)
    BY <1>1, <1>2 DEF Untouched
<1>3. CASE Fused(p)
    <2>1. PICK l2 \in Findings(input.engine, input.body[p]) : params'[p] = Fuse(p, l2)
        BY <1>3 DEF Fused
    <2>2. input.body[p] \in AccessLists
        BY DEF StageInv, Findable, AccessLists
    <2>3. l2.intent \in {"in", "out", "inout"} /\ l2.confidence \in {500, 950}
        BY <2>2, FindingsType
    <2> QED
        BY <2>1, <2>3, FuseResult
<1>4. CASE MarkedArray(p)
    BY <1>4 DEF MarkedArray, Given, Pointees, Believed, Beliefs, RolesOf
<1>5. CASE MarkedLength(p)
    BY <1>1, <1>5 DEF MarkedLength, Integral, Beliefs, RolesOf
<1>6. CASE MarkedHandle(p)
    BY <1>6 DEF MarkedHandle, Given, Believed, Beliefs, RolesOf
<1>7. CASE MarkedState(p)
    BY <1>7 DEF MarkedState, Given, Believed, Beliefs, RolesOf
<1>8. CASE MarkedOutHandle(p)
    BY <1>8 DEF MarkedOutHandle, Given, Believed, Beliefs, RolesOf
<1>9. CASE ProbedOnce(p)
    <2>1. params[p].confidence \div 2 \in Nat
        BY <1>1 DEF Beliefs
    <2>2. CASE params'[p] = [params[p] EXCEPT !.verified = TRUE]
        BY <1>1, <2>2 DEF Beliefs
    <2>3. CASE params'[p] = [params[p] EXCEPT !.confidence = @ \div 2]
        BY <1>1, <2>1, <2>3 DEF Beliefs
    <2> QED
        BY <1>9, <2>2, <2>3 DEF ProbedOnce
<1> QED
    BY <1>2, <1>3, <1>4, <1>5, <1>6, <1>7, <1>8, <1>9 DEF Rewritten

-----------------------------------------------------------------------------
(* The invariant holds throughout.                                         *)

\* Beliefs and roles of all the parameters together.
LEMMA BeliefsStay ==
    ASSUME SpecInv, Next
    PROVE  /\ params' \in [Params -> Beliefs]
           /\ \A p \in Params : params'[p].role \in RolesOf(Shape(p))
<1>1. \A p \in Params : params'[p] \in Beliefs /\ params'[p].role \in RolesOf(Shape(p))
    <2> TAKE p \in Params
    <2>1. Rewritten(p)
        BY StepRewrites DEF SpecInv
    <2> QED
        BY <2>1, RewrittenBelief DEF SpecInv, BeliefInv
<1>2. params' = [q \in Params |-> params'[q]]
    BY StepKeepsParams DEF SpecInv
<1> QED
    BY <1>1, <1>2

\* Every variable keeps to its type.
LEMMA TypePreserved ==
    ASSUME SpecInv, Next
    PROVE  TypeOK'
<1>1. params' \in [Params -> Beliefs]
    BY BeliefsStay
<1>2. /\ Params \in SUBSET Nat /\ NumParams \in Nat /\ \A p \in Params : p <= NumParams
      /\ input.confirmed \in SUBSET Params
    BY BoundsAssumption DEF Params, SpecInv, StageInv, Findable
<1>3. input.confirmed # {} => Max(input.confirmed) \in Params
    BY <1>2, MaxIsGreatest
<1>4. Structural # {} => Min(Structural) \in Params
    <2>1. Structural \in SUBSET Params
        BY DEF Structural, With
    <2> QED
        BY <1>2, <2>1, MinIsLeast
<1>5. /\ lifecycle' \in {"none", "creates", "borrows", "uses", "destroys", "uncertain_destroys"}
      /\ owner' \in {"none", "caller", "library"}
      /\ stringOwner' \in {"none", "caller", "library"}
      /\ outParam' \in Params \cup {NoParam}
      /\ handleTypes' \in BOOLEAN
    <2>0. /\ lifecycle \in {"none", "creates", "borrows", "uses", "destroys", "uncertain_destroys"}
          /\ owner \in {"none", "caller", "library"}
          /\ stringOwner \in {"none", "caller", "library"}
          /\ outParam \in Params \cup {NoParam}
          /\ handleTypes \in BOOLEAN
          /\ input.role \in {"none", "creates", "uses", "destroys", "uncertain_destroys"}
          /\ input.owner \in {"none", "caller", "library"}
          /\ input.text \in {"none", "owned", "notOwned", "notAnalysed"}
          /\ input.handedOut \in BOOLEAN
        BY DEF SpecInv, TypeOK, StageInv, Findable
    <2>1. CASE DefUse \/ Arrays \/ CallerState
        BY <2>0, <2>1 DEF DefUse, Arrays, CallerState
    <2>2. CASE Handles
        BY <2>0, <2>2 DEF Handles
    <2>3. CASE Ownership
        BY <2>0, <2>3 DEF Ownership
    <2>4. CASE Strings
        BY <2>0, <2>4 DEF Strings
    <2>5. CASE OutHandles
        BY <1>3, <2>0, <2>5 DEF OutHandles, spec
    <2>6. CASE Propagate
        BY <2>0, <2>6 DEF Propagate
    <2>7. CASE Promote
        BY <1>4, <2>0, <2>7 DEF Promote, spec
    <2>8. CASE Fail \/ Gate
        BY <2>0, <2>8 DEF Fail, Gate, spec
    <2>9. CASE Probe
        BY <2>0, <2>9 DEF Probe
    <2> QED
        BY <2>1, <2>2, <2>3, <2>4, <2>5, <2>6, <2>7, <2>8, <2>9 DEF Next, Analyse
<1>6. probed' \in [Params -> {"no", "unwritten", "written"}]
    <2>0. probed \in [Params -> {"no", "unwritten", "written"}]
        BY DEF SpecInv, TypeOK
    <2>1. CASE Probe
        <3>1. PICK written \in SUBSET Probeable :
                probed' = [p \in Params |->
                        IF p \in written THEN "written"
                        ELSE IF p \in Probeable /\ probed[p] = "no" THEN "unwritten"
                        ELSE probed[p]]
            BY <2>1 DEF Probe
        <3> QED
            BY <2>0, <3>1
    <2>2. CASE ~Probe
        <3>1. probed' = probed
            BY <2>2 DEF Next, Analyse, DefUse, Handles, Ownership, Strings, OutHandles, Arrays,
                        Propagate, Promote, CallerState, Keep, Fail, Gate
        <3> QED
            BY <2>0, <3>1
    <2> QED
        BY <2>1, <2>2
<1> QED
    BY <1>1, <1>5, <1>6 DEF TypeOK

\* Beliefs stay short of certainty, and refuted ones short of the threshold.
LEMMA BeliefPreserved ==
    ASSUME SpecInv, Next
    PROVE  BeliefInv'
<1>1. /\ input' = input /\ \A p \in Params : Shape(p)' = Shape(p)
      /\ Place(stage) <= Place(stage')
    BY StepAdvances DEF SpecInv, Shape
<1>2. \A p \in Params : params'[p].role \in RolesOf(Shape(p))'
    BY <1>1, BeliefsStay
<1>3. Passed("callerState") => Passed("callerState")'
    <2>1. Place(stage) \in 0 .. 11 /\ Place(stage') \in 0 .. 11 /\ Place("callerState") = 9
        BY DEF Place
    <2> QED
        BY <1>1, <2>1 DEF Passed
<1>4. SUFFICES ASSUME NEW p \in Params
               PROVE  /\ probed'[p] # "no" => /\ Passed("callerState")'
                                              /\ Shape(p) \in {"out", "manual"}
                      /\ Shape(p) = "out" =>
                            /\ params'[p].confidence <= 990
                            /\ probed'[p] # "written" => ~params'[p].verified
                            /\ probed'[p] = "unwritten" => params'[p].confidence < Threshold
    BY <1>1, <1>2 DEF BeliefInv
<1>5. /\ params[p] \in Beliefs /\ probed[p] \in {"no", "unwritten", "written"}
      /\ probed[p] # "no" => Passed("callerState") /\ Shape(p) \in {"out", "manual"}
      /\ Shape(p) = "out" =>
            /\ params[p].confidence <= 990
            /\ probed[p] # "written" => ~params[p].verified
            /\ probed[p] = "unwritten" => params[p].confidence < Threshold
    BY DEF SpecInv, TypeOK, BeliefInv
<1>6. CASE Probe
    <2>1. PICK written \in SUBSET Probeable :
            /\ params'[p] = IF p \in Probeable THEN AfterProbe(p, written) ELSE params[p]
            /\ probed'[p] = IF p \in written THEN "written"
                            ELSE IF p \in Probeable /\ probed[p] = "no" THEN "unwritten"
                            ELSE probed[p]
        BY <1>6 DEF Probe
    <2>2. Passed("callerState")'
        BY <1>6 DEF Probe, Passed, Place
    <2>3. CASE p \notin Probeable
        BY <1>5, <2>1, <2>2, <2>3
    <2>4. CASE p \in written
        <3>1. params'[p] = [params[p] EXCEPT !.verified = TRUE]
            BY <2>1, <2>4 DEF AfterProbe
        <3>2. params'[p].confidence = params[p].confidence
            BY <1>5, <3>1 DEF Beliefs
        <3>3. Shape(p) \in {"out", "manual"}
            BY <2>4 DEF Probeable
        <3> QED
            BY <1>5, <2>1, <2>2, <2>4, <3>2, <3>3
    <2>5. CASE p \in Probeable \ written
        <3>1. params'[p] = [params[p] EXCEPT !.confidence = @ \div 2]
            BY <2>1, <2>5 DEF AfterProbe
        <3>2. /\ params'[p].confidence = params[p].confidence \div 2
              /\ params'[p].verified = params[p].verified
            BY <1>5, <3>1 DEF Beliefs
        <3>3. Shape(p) = "out" => params[p].confidence \div 2 <= 495
            BY <1>5 DEF Beliefs
        <3>4. Shape(p) \in {"out", "manual"}
            BY <2>5 DEF Probeable
        <3>5. probed'[p] = IF probed[p] = "no" THEN "unwritten" ELSE probed[p]
            BY <2>1, <2>5
        <3>6. Shape(p) = "out" => params'[p].confidence <= 495
            BY <3>2, <3>3
        <3>7. Shape(p) = "out" /\ probed'[p] # "written" => ~params'[p].verified
            BY <1>5, <3>2, <3>5
        <3>8. Shape(p) = "out" => params'[p].confidence <= 990 /\ params'[p].confidence < Threshold
            <4>1. params[p].confidence \div 2 \in Int
                BY <1>5 DEF Beliefs
            <4> QED
                BY <3>2, <3>6, <4>1 DEF Threshold
        <3> QED
            BY <2>2, <3>4, <3>7, <3>8
    <2> QED
        BY <2>3, <2>4, <2>5
<1>7. CASE ~Probe
    <2>1. probed' = probed
        BY <1>7 DEF Next, Analyse, DefUse, Handles, Ownership, Strings, OutHandles, Arrays,
                    Propagate, Promote, CallerState, Keep, Fail, Gate
    <2>2. probed'[p] # "no" => Passed("callerState")' /\ Shape(p) \in {"out", "manual"}
        BY <1>3, <1>5, <2>1
    <2>3. stage \in {"defUse", "arrays"} => probed[p] = "no"
        BY <1>5 DEF Passed, Place
    <2>4. SUFFICES ASSUME Shape(p) = "out"
                   PROVE  /\ params'[p].confidence <= 990
                          /\ probed'[p] # "written" => ~params'[p].verified
                          /\ probed'[p] = "unwritten" => params'[p].confidence < Threshold
        BY <2>2
    <2>5. Rewritten(p)
        BY StepRewrites DEF SpecInv
    <2>6. CASE Untouched(p)
        BY <1>5, <2>1, <2>4, <2>6 DEF Untouched
    <2>7. CASE Fused(p)
        <3>1. PICK l2 \in Findings(input.engine, input.body[p]) : params'[p] = Fuse(p, l2)
            BY <2>7 DEF Fused
        <3>2. input.body[p] \in AccessLists
            BY DEF SpecInv, StageInv, Findable, AccessLists
        <3>3. l2.intent \in {"in", "out", "inout"} /\ l2.confidence \in {500, 950}
            BY <3>2, FindingsType
        <3>4. Fuse(p, l2).confidence <= 990 /\ (Fuse(p, l2).verified => params[p].verified)
            BY <2>4, <3>3, FuseResult DEF SpecInv
        <3>5. probed[p] = "no"
            BY <2>3, <2>7 DEF Fused
        <3> QED
            BY <1>5, <2>1, <2>4, <3>1, <3>4, <3>5
    <2>8. CASE MarkedArray(p)
        <3>1. PICK c \in {600, 900} : Given(p, "array", "in", c)
            BY <2>8 DEF MarkedArray
        <3>2. params'[p].confidence = c /\ ~params'[p].verified
            BY <3>1 DEF Given, Believed
        <3>3. probed[p] = "no"
            BY <2>3, <2>8 DEF MarkedArray
        <3> QED
            BY <3>1, <2>1, <3>2, <3>3
    <2>9. ~ (MarkedLength(p) \/ MarkedHandle(p) \/ MarkedState(p) \/ MarkedOutHandle(p))
        BY <2>4 DEF MarkedLength, Integral, MarkedHandle, MarkedState, MarkedOutHandle
    <2>10. ~ProbedOnce(p)
        <3>1. Analyse => stage # "probe"
            BY DEF Analyse, DefUse, Handles, Ownership, Strings, OutHandles,
                   Arrays, Propagate, Promote, CallerState, Run
        <3>2. Fail => stage # "probe"
            BY DEF Fail
        <3>3. Gate => stage' # "probe"
            BY DEF Gate
        <3> QED
            BY <1>7, <3>1, <3>2, <3>3 DEF Next, ProbedOnce
    <2> QED
        BY <2>5, <2>6, <2>7, <2>8, <2>9, <2>10 DEF Rewritten
<1> QED
    BY <1>6, <1>7

\* Only the policy exposes, and what it exposed stays as it was.
LEMMA GatePreserved ==
    ASSUME StageInv, GateInv, [Next]_vars
    PROVE  GateInv' /\ (stage' = "exposed" => Exposable)
<1>1. Analyses \cap {"exposed", "probe"} = {} /\ Scheduled \subseteq Analyses \cup {"probe"}
    BY ScheduledStages DEF Analyses, StageInv
<1>2. CASE Analyse
    <2>1. \E this \in Analyses : Run(this)
        BY <1>2 DEF Analyse, DefUse, Handles, Ownership, Strings, OutHandles, Arrays,
                    Propagate, Promote, CallerState, Analyses
    <2>2. stage' \in Scheduled
        BY <2>1, FollowingIsNext DEF Run, StageInv
    <2> QED
        BY <1>1, <2>2 DEF GateInv
<1>3. CASE Fail
    <2>1. stage \in Analyses /\ stage' = AfterFailure(stage)
        BY <1>3, Places DEF Fail
    <2>2. stage' \in Scheduled \cup {"probe"}
        BY <2>1, FollowingIsNext DEF AfterFailure, StageInv
    <2> QED
        BY <1>1, <2>2 DEF GateInv
<1>4. CASE Probe
    BY <1>4 DEF Probe, GateInv
<1>5. CASE Gate
    <2>1. Exposable' = Exposable
        BY <1>5 DEF Gate, spec, Exposable, ReturnsPointer
    <2>2. stage' = "exposed" => Exposable
        BY <1>5 DEF Gate
    <2> QED
        BY <2>1, <2>2 DEF GateInv
<1>6. CASE UNCHANGED vars
    <2>1. Exposable' = Exposable /\ stage' = stage
        BY <1>6 DEF vars, spec, Exposable, ReturnsPointer
    <2> QED
        BY <2>1 DEF GateInv
<1> QED
    BY <1>2, <1>3, <1>4, <1>5, <1>6 DEF Next

\* What holds of the specification throughout: it keeps to its types, the run to
\* its order, each parameter to its shape, and the verdict to what it was given on.
LEMMA SpecInvariant == Spec => []SpecInv
<1>1. ASSUME Init PROVE SpecInv
    <2>1. Findable(input)
        BY <1>1, InputsAssumption DEF Init
    <2>2. /\ stage \in {"skipped", "propagate", "defUse"} /\ failed = {}
          /\ stage = "propagate" => input.run = "noSource"
          /\ stage = "defUse" => input.run # "noSource"
        BY <1>1 DEF Init
    <2>3. StageInv
        <3>1. /\ Range(Order) = Analyses \cup {"probe"}
              /\ {"propagate", "defUse"} \subseteq Analyses
              /\ "skipped" \in Ends /\ "skipped" \notin Analyses \cup {"probe"}
              /\ "defUse" \notin Extensions /\ "propagate" \in Extensions
            BY Places DEF Analyses, Ends, Extensions
        <3>2. stage \in Analyses \cup {"probe"} => stage \in Scheduled
            BY <2>1, <2>2, <3>1 DEF Scheduled, Findable
        <3> QED
            BY <2>1, <2>2, <3>1, <3>2 DEF StageInv
    <2>4. \A p \in Params : /\ params[p] = Classify(Shape(p)) /\ probed[p] = "no"
        BY <1>1 DEF Init
    <2>5. \A p \in Params : /\ params[p] \in Beliefs /\ params[p].role \in RolesOf(Shape(p))
                            /\ Shape(p) = "out" => params[p].confidence = 900
                                                   /\ ~params[p].verified
        <3> TAKE p \in Params
        <3>0. params[p] = Classify(Shape(p))
            BY <2>4
        <3>1. CASE Shape(p) \in {"scalar", "real"}
            <4>1. params[p] = Believed("scalar", "in", 1000, TRUE)
                <5>1. CASE Shape(p) = "scalar"
                    BY <3>0, <5>1 DEF Classify
                <5>2. CASE Shape(p) = "real"
                    BY <3>0, <5>2 DEF Classify
                <5> QED
                    BY <3>1, <5>1, <5>2
            <4>2. params[p] \in Beliefs
                BY <4>1 DEF Believed, Beliefs
            <4>3. params[p].role = "scalar"
                BY <4>1 DEF Believed
            <4>4. "scalar" \in RolesOf(Shape(p))
                BY <3>1 DEF RolesOf
            <4>5. Shape(p) # "out"
                BY <3>1
            <4> QED
                BY <4>2, <4>3, <4>4, <4>5
        <3>2. CASE Shape(p) = "string"
            <4>1. params[p] = Believed("string", "in", 1000, TRUE)
                BY <3>0, <3>2 DEF Classify
            <4> QED
                BY <3>2, <4>1 DEF Believed, Beliefs, RolesOf
        <3>3. CASE Shape(p) = "out"
            <4>1. params[p] = Believed("scalar", "out", 900, FALSE)
                BY <3>0, <3>3 DEF Classify
            <4> QED
                BY <3>3, <4>1 DEF Believed, Beliefs, RolesOf
        <3>5. CASE Shape(p) = "manual"
            <4>1. params[p] = Believed("scalar", "out", 1000, TRUE)
                BY <3>0, <3>5 DEF Classify
            <4>2. params[p] \in Beliefs
                BY <4>1 DEF Believed, Beliefs
            <4>3. params[p].role = "scalar"
                BY <4>1 DEF Believed
            <4>4. "scalar" \in RolesOf(Shape(p))
                BY <3>5 DEF RolesOf
            <4> QED
                BY <3>5, <4>2, <4>3, <4>4
        <3>4. CASE Shape(p) \in {"struct", "double", "buffer", "opaque"}
            <4>1. params[p] = Believed("opaque", "in", 0, FALSE)
                <5>1. CASE Shape(p) = "struct"
                    BY <3>0, <5>1 DEF Classify
                <5>2. CASE Shape(p) = "double"
                    BY <3>0, <5>2 DEF Classify
                <5>3. CASE Shape(p) = "buffer"
                    BY <3>0, <5>3 DEF Classify
                <5>4. CASE Shape(p) = "opaque"
                    BY <3>0, <5>4 DEF Classify
                <5> QED
                    BY <3>4, <5>1, <5>2, <5>3, <5>4
            <4> QED
                BY <3>4, <4>1 DEF Believed, Beliefs, RolesOf
        <3> QED
            BY <3>1, <3>2, <3>3, <3>4, <3>5, ShapeType
    <2>6. TypeOK
        <3>1. params \in [Params -> Beliefs]
            <4>1. params = [p \in Params |-> Classify(Shape(p))]
                BY <1>1 DEF Init
            <4>2. \A p \in Params : Classify(Shape(p)) \in Beliefs
                BY <2>4, <2>5
            <4> QED
                BY <4>1, <4>2, Zenon
        <3>2. /\ probed \in [Params -> {"no", "unwritten", "written"}]
              /\ lifecycle = "none" /\ owner = "none" /\ stringOwner = "none"
              /\ outParam = NoParam /\ handleTypes = FALSE
            BY <1>1 DEF Init
        <3> QED
            BY <3>1, <3>2 DEF TypeOK
    <2>7. BeliefInv
        BY <2>4, <2>5 DEF BeliefInv
    <2>8. GateInv
        BY <2>2 DEF GateInv
    <2> QED
        BY <2>3, <2>6, <2>7, <2>8 DEF SpecInv
<1>2. ASSUME SpecInv, [Next]_vars PROVE SpecInv'
    <2>1. StageInv' /\ GateInv'
        BY <1>2, StepAdvances, GatePreserved DEF SpecInv
    <2>2. CASE Next
        BY <1>2, <2>1, <2>2, TypePreserved, BeliefPreserved DEF SpecInv
    <2>3. CASE UNCHANGED vars
        <3>1. TypeOK' /\ BeliefInv'
            BY <1>2, <2>3 DEF vars, spec, SpecInv, TypeOK, BeliefInv, Passed, Shape
        <3> QED
            BY <2>1, <3>1 DEF SpecInv
    <2> QED
        BY <1>2, <2>2, <2>3
<1> QED
    BY <1>1, <1>2, PTL DEF Spec

\* What C may write to through a parameter is of the kind the binding gives it.
THEOREM WritableMemoryProvided == Spec => []WritableIsProvided
<1>1. ASSUME SpecInv PROVE WritableIsProvided
    <2> SUFFICES ASSUME stage = "exposed", NEW p \in Params,
                        input.type[p].form \in {"pointer", "double"}, ~input.type[p].const
                 PROVE  params[p].role \in
                          CASE input.type[p].form = "pointer" /\ input.type[p].of \in {"integer", "real"}
                                -> {"scalar", "array"}
                            [] input.type[p].form = "pointer" /\ input.type[p].of = "struct"
                                -> {"handle", "callerState"}
                            [] input.type[p].form = "double" /\ input.type[p].of = "struct"
                                -> {"outHandle"}
                            [] OTHER -> {}
        BY DEF WritableIsProvided
    <2>1. params[p].role \in RolesOf(Shape(p)) /\ params[p].role # "opaque"
        BY <1>1 DEF SpecInv, BeliefInv, GateInv, Exposable, Managed
    <2> DEFINE t == input.type[p]
    <2>2. Shape(p) = ShapeOf(t) /\ t.form \in {"pointer", "double"} /\ ~t.const
        BY DEF Shape
    <2> HIDE DEF t
    <2>3. CASE t.form = "pointer" /\ t.of \in {"integer", "real"}
        <3>1. Shape(p) \in {"manual", "out", "buffer"}
            BY <2>2, <2>3 DEF ShapeOf, MapType
        <3> QED
            BY <2>1, <2>3, <3>1 DEF RolesOf, t
    <2>4. CASE t.form = "pointer" /\ t.of = "struct"
        <3>1. Shape(p) = "struct"
            BY <2>2, <2>4 DEF ShapeOf, MapType, StructPtrParam
        <3> QED
            BY <2>1, <2>4, <3>1 DEF RolesOf, t
    <2>5. CASE t.form = "double" /\ t.of = "struct"
        <3>1. Shape(p) = "double"
            BY <2>2, <2>5 DEF ShapeOf, MapType, StructPtrParam, OutHandleCandidate
        <3> QED
            BY <2>1, <2>5, <3>1 DEF RolesOf, t
    <2>6. CASE ~ \/ t.form = "pointer" /\ t.of \in {"integer", "real", "struct"}
                 \/ t.form = "double" /\ t.of = "struct"
        <3>1. MapType(t) \in {"address", "unmappable"}
            BY <2>2, <2>6 DEF MapType
        <3>2. Shape(p) = "opaque"
            BY <2>2, <2>6, <3>1 DEF ShapeOf, StructPtrParam, OutHandleCandidate
        <3> QED
            BY <2>1, <3>2 DEF RolesOf
    <2> QED
        BY <2>3, <2>4, <2>5, <2>6
<1> QED
    BY <1>1, SpecInvariant, PTL

\* An output that every probe saw unwritten is not exposed.
THEOREM RefutedOutputsRefused == Spec => []RefutedOutRefused
<1>1. ASSUME SpecInv PROVE RefutedOutRefused
    <2> SUFFICES ASSUME stage = "exposed", NEW p \in Params, probed[p] = "unwritten",
                        Shape(p) # "manual"
                 PROVE  FALSE
        BY DEF RefutedOutRefused
    <2>1. /\ Shape(p) = "out" /\ ~params[p].verified
          /\ params[p] \in Beliefs /\ params[p].confidence < Threshold
        BY <1>1 DEF SpecInv, BeliefInv, TypeOK
    <2>2. params[p].role \in {"scalar", "array"}
        BY <1>1, <2>1 DEF SpecInv, BeliefInv, RolesOf
    <2>3. params[p].confidence >= Threshold
        BY <1>1, <2>1, <2>2 DEF SpecInv, GateInv, Exposable, Managed
    <2> QED
        BY <2>1, <2>3 DEF Beliefs, Threshold
<1> QED
    BY <1>1, SpecInvariant, PTL

-----------------------------------------------------------------------------
(* The verdicts.                                                           *)

\* What a step can make of the roles.
LEMMA StepRoles ==
    ASSUME SpecInv, Next, NEW p \in Params
    PROVE  /\ params'[p].role = "callerState" =>
                params[p].role = "callerState" \/ (stage = "callerState" /\ CallerAllocated)
           /\ params'[p].role = "array" /\ ~Arrays => params[p].role = "array"
           /\ params[p].role = "lengthOf" => params'[p].role = "lengthOf"
<1>1. Rewritten(p) /\ params[p] \in Beliefs /\ params[p].role \in RolesOf(Shape(p))
    BY StepRewrites DEF SpecInv, TypeOK, BeliefInv
<1>2. CASE Untouched(p)
    BY <1>2 DEF Untouched
<1>3. CASE Fused(p)
    <2>1. PICK l2 \in Findings(input.engine, input.body[p]) : params'[p] = Fuse(p, l2)
        BY <1>3 DEF Fused
    <2>2. input.body[p] \in AccessLists
        BY DEF SpecInv, StageInv, Findable, AccessLists
    <2>3. l2.intent \in {"in", "out", "inout"} /\ l2.confidence \in {500, 950}
        BY <2>2, FindingsType
    <2>4. params'[p].role = params[p].role
        BY <2>1, <2>3, FuseResult DEF SpecInv
    <2> QED
        BY <2>4
<1>4. CASE MarkedArray(p)
    <2>1. /\ Arrays /\ params'[p].role = "array" /\ Shape(p) \in {"out", "manual", "buffer"}
        BY <1>4 DEF MarkedArray, Pointees, Given, Believed
    <2> QED
        BY <1>1, <2>1 DEF RolesOf
<1>5. CASE MarkedLength(p)
    <2>1. params'[p].role = "lengthOf"
        BY <1>1, <1>5 DEF MarkedLength, Beliefs
    <2> QED
        BY <2>1
<1>6. CASE MarkedHandle(p)
    <2>1. params'[p].role = "handle" /\ Shape(p) = "struct"
        BY <1>6 DEF MarkedHandle, Given, Believed
    <2> QED
        BY <1>1, <2>1 DEF RolesOf
<1>7. CASE MarkedState(p)
    <2>1. params'[p].role = "callerState" /\ Shape(p) = "struct"
        BY <1>7 DEF MarkedState, Given, Believed
    <2> QED
        BY <1>1, <1>7, <2>1 DEF RolesOf, MarkedState
<1>8. CASE MarkedOutHandle(p)
    <2>1. params'[p].role = "outHandle" /\ Shape(p) = "double"
        BY <1>8 DEF MarkedOutHandle, Given, Believed
    <2> QED
        BY <1>1, <2>1 DEF RolesOf
<1>9. CASE ProbedOnce(p)
    <2>1. params'[p].role = params[p].role
        BY <1>1, <1>9 DEF ProbedOnce, Beliefs
    <2> QED
        BY <2>1
<1> QED
    BY <1>1, <1>2, <1>3, <1>4, <1>5, <1>6, <1>7, <1>8, <1>9 DEF Rewritten

\* The stages behind a step stay behind, and nothing that raised becomes done.
LEMMA StepKeepsDone ==
    ASSUME SpecInv, Next
    PROVE  /\ \A s \in Early : Passed(s) => Passed(s)'
           /\ \A s \in Early : Done(s)' /\ stage # s => Done(s)
           /\ \A s \in Early : ~Done(s) \/ stage # s
           /\ \A s \in Early : Ran(s)' => Ran(s)
           /\ input' = input /\ \A p \in Params : Shape(p)' = Shape(p)
<1>1. /\ StageInv' /\ input' = input /\ Scheduled' = Scheduled /\ failed \subseteq failed'
      /\ Place(stage) <= Place(stage')
      /\ \A s \in Early : Done(s)' => Done(s) \/ s = stage
    BY StepAdvances DEF SpecInv
<1>2. /\ Place(stage) \in 0 .. 11 /\ Place(stage') \in 0 .. 11
      /\ \A s \in Early : Place(s) \in 0 .. 11
    BY Places, <1>1 DEF StageInv, SpecInv, Early
<1> QED
    BY <1>1, <1>2 DEF Passed, Done, Ran, Shape

\* Ownership is taken on evidence and given back in the order of the stages.
LEMMA OwnerPreserved ==
    ASSUME SpecInv, OwnerInv, Next
    PROVE  OwnerInv'
<1>0. /\ input' = input
      /\ Passed("ownership") => Passed("ownership")'
      /\ Done("ownership")' /\ stage # "ownership" => Done("ownership")
      /\ ~Done("ownership") \/ stage # "ownership"
    BY StepKeepsDone DEF Early, Analyses, Extensions
<1>1. /\ input.role = "creates" => input.owner # "none"
      /\ input.owner \in {"none", "caller", "library"}
    BY DEF SpecInv, StageInv, Findable
<1>2. Place(stage) <= Place(stage')
    BY StepAdvances DEF SpecInv
<1>3. CASE /\ lifecycle' = lifecycle /\ owner' = owner /\ outParam' = outParam
           /\ stage # "ownership" \/ Fail
    <2>1. Fail /\ stage = "ownership" => ~Done("ownership")'
        BY DEF Fail, Done, Ran
    <2> QED
        BY <1>0, <1>3, <2>1 DEF OwnerInv
<1>4. CASE Handles
    <2>1. stage = "handles" /\ outParam' = outParam /\ owner' = owner
        BY <1>4 DEF Handles, Run
    <2>2. ~Passed("ownership")
        BY <2>1 DEF Passed, Place
    <2>3. outParam = NoParam /\ ~Done("ownership")'
        BY <1>0, <2>1, <2>2 DEF OwnerInv, Done
    <2>4. lifecycle' = lifecycle \/ lifecycle' = input.role
        BY <1>4 DEF Handles
    <2>5. lifecycle' = lifecycle \/ lifecycle' # "borrows"
        BY <2>4 DEF SpecInv, StageInv, Findable
    <2> QED
        BY <1>0, <2>1, <2>3, <2>4, <2>5 DEF OwnerInv
<1>5. CASE Ownership
    <2>1. stage = "ownership" /\ outParam' = outParam
        BY <1>5 DEF Ownership, Run
    <2>2. outParam = NoParam
        <3>1. ~Passed("ownership")
            BY <2>1 DEF Passed, Place
        <3> QED
            BY <3>1 DEF OwnerInv
    <2>3. CASE input.owner = "none"
        <3>1. lifecycle' = lifecycle /\ owner' = owner
            BY <1>5, <2>3 DEF Ownership
        <3> QED
            BY <1>0, <1>1, <2>1, <2>2, <2>3, <3>1 DEF OwnerInv
    <2>4. CASE input.owner # "none"
        <3>1. /\ owner' = input.owner
              /\ lifecycle' = IF lifecycle = "creates" /\ input.owner = "library"
                              THEN "borrows" ELSE lifecycle
            BY <1>5, <2>4 DEF Ownership
        <3> QED
            BY <1>0, <1>1, <2>1, <2>2, <2>4, <3>1 DEF OwnerInv
    <2> QED
        BY <2>3, <2>4
<1>6. CASE OutHandles /\ input.confirmed # {}
    <2>1. /\ stage = "outHandles" /\ lifecycle' = "creates" /\ owner' = "caller"
          /\ outParam' = Max(input.confirmed)
        BY <1>6 DEF OutHandles, Run
    <2>2. outParam' # NoParam
        <3>1. /\ Params \in SUBSET Nat /\ NumParams \in Nat /\ \A p \in Params : p <= NumParams
              /\ input.confirmed \in SUBSET Params /\ NoParam \notin Params
            BY BoundsAssumption DEF Params, NoParam, SpecInv, StageInv, Findable
        <3>2. Max(input.confirmed) \in input.confirmed
            BY <1>6, <3>1, MaxIsGreatest
        <3> QED
            BY <2>1, <3>1, <3>2
    <2>3. Passed("ownership")
        BY <2>1 DEF Passed, Place
    <2> QED
        BY <1>0, <1>6, <2>1, <2>2, <2>3 DEF OwnerInv
<1>7. CASE Propagate
    <2>1. stage = "propagate" /\ owner' = owner /\ outParam' = outParam
        BY <1>7 DEF Propagate, Run
    <2>2. lifecycle' = lifecycle \/ lifecycle' = "uses"
        BY <1>7 DEF Propagate
    <2> QED
        BY <1>0, <2>1, <2>2 DEF OwnerInv
<1>8. CASE Promote /\ ~(outParam # NoParam \/ Structural = {})
    <2>1. /\ stage = "promote" /\ lifecycle' = "creates" /\ owner' = "library"
          /\ outParam' = Min(Structural)
        BY <1>8 DEF Promote, Run
    <2>2. outParam' # NoParam
        <3>1. Structural \in SUBSET Nat /\ NoParam \notin Structural
            BY DEF Structural, With, Params, NoParam
        <3>2. Min(Structural) \in Structural
            BY <1>8, <3>1, MinIsLeast
        <3> QED
            BY <2>1, <3>1, <3>2
    <2>3. Passed("ownership")
        BY <2>1 DEF Passed, Place
    <2> QED
        BY <1>0, <2>1, <2>2, <2>3 DEF OwnerInv
<1>9. CASE OutHandles /\ input.confirmed = {}
    BY <1>3, <1>9 DEF OutHandles, Run, spec
<1>10. CASE Promote /\ (outParam # NoParam \/ Structural = {})
    BY <1>3, <1>10 DEF Promote, Run, spec
<1>11. CASE DefUse \/ Strings \/ Arrays \/ CallerState
    BY <1>3, <1>11 DEF DefUse, Strings, Arrays, CallerState, Run
<1>12. CASE Fail \/ Probe \/ Gate
    BY <1>3, <1>12 DEF Fail, Probe, Gate, spec
<1> QED
    BY <1>4, <1>5, <1>6, <1>7, <1>8, <1>9, <1>10, <1>11, <1>12 DEF Next, Analyse

\* An uncertain destructor stays one.
LEMMA UncertainPreserved ==
    ASSUME SpecInv, UncertainInv, Next
    PROVE  UncertainInv'
<1>0. /\ input' = input /\ With("double")' = With("double")
      /\ Done("handles")' /\ stage # "handles" => Done("handles")
    BY StepKeepsDone DEF Early, Analyses, Extensions, With
<1>1. SUFFICES ASSUME Done("handles")', With("double") = {}, input.role = "uncertain_destroys"
               PROVE  lifecycle' = "uncertain_destroys"
    BY <1>0 DEF UncertainInv
<1>2. input.confirmed = {} /\ Structural = {}
    <2>1. input.confirmed \subseteq With("double")
        BY DEF SpecInv, StageInv, Findable, With, Shape
    <2> QED
        BY <1>1, <2>1 DEF Structural
<1>3. CASE Handles
    BY <1>1, <1>3 DEF Handles
<1>4. CASE Fail
    <2>1. stage # "handles"
        BY <1>1, <1>4 DEF Fail, Done, Ran
    <2> QED
        BY <1>0, <1>1, <1>4, <2>1 DEF UncertainInv, Fail, spec
<1>5. CASE Ownership
    <2>1. stage = "ownership" /\ (lifecycle' = lifecycle \/ lifecycle = "creates")
        BY <1>5 DEF Ownership, Run
    <2> QED
        BY <1>0, <1>1, <2>1 DEF UncertainInv
<1>6. CASE Propagate
    <2>1. stage = "propagate" /\ (lifecycle' = lifecycle \/ lifecycle = "none")
        BY <1>6 DEF Propagate, Run
    <2> QED
        BY <1>0, <1>1, <2>1 DEF UncertainInv
<1>7. CASE DefUse \/ Strings \/ OutHandles \/ Arrays \/ Promote \/ CallerState \/ Probe \/ Gate
    <2>1. stage # "handles" /\ lifecycle' = lifecycle
        BY <1>2, <1>7 DEF DefUse, Strings, OutHandles, Arrays, Promote, CallerState, Probe, Gate,
                          Run, spec
    <2> QED
        BY <1>0, <1>1, <2>1 DEF UncertainInv
<1> QED
    BY <1>3, <1>4, <1>5, <1>6, <1>7 DEF Next, Analyse

\* The verdict on a text is the one the analysis reached.
LEMMA TextPreserved ==
    ASSUME SpecInv, TextInv, Next
    PROVE  TextInv'
<1>0. /\ input' = input
      /\ Done("strings")' /\ stage # "strings" => Done("strings")
    BY StepKeepsDone DEF Early, Analyses, Extensions
<1>1. input.text \in {"none", "owned", "notOwned", "notAnalysed"}
    BY DEF SpecInv, StageInv, Findable
<1>2. CASE Strings
    <2>1. stringOwner' = CASE input.text = "owned" -> "caller"
                           [] input.text = "notOwned" -> "library"
                           [] input.text \in {"none", "notAnalysed"} -> stringOwner
        BY <1>2 DEF Strings
    <2>2. CASE input.text = "owned"
        BY <1>0, <2>1, <2>2 DEF TextInv
    <2>3. CASE input.text = "notOwned"
        BY <1>0, <2>1, <2>3 DEF TextInv
    <2>4. CASE input.text = "none"
        BY <1>0, <2>1, <2>4 DEF TextInv
    <2>5. CASE input.text = "notAnalysed"
        BY <1>0, <2>1, <2>5 DEF TextInv
    <2> QED
        BY <1>1, <2>2, <2>3, <2>4, <2>5
<1>3. CASE ~Strings
    <2>1. stringOwner' = stringOwner
        BY <1>3 DEF Next, Analyse, DefUse, Handles, Ownership, OutHandles, Arrays,
                    Propagate, Promote, CallerState, Fail, Probe, Gate, spec
    <2>2. stage = "strings" => Fail
        <3>1. ~(DefUse \/ Handles \/ Ownership \/ OutHandles \/ Arrays
                \/ Propagate \/ Promote \/ CallerState \/ Probe \/ Gate) \/ stage # "strings"
            BY DEF DefUse, Handles, Ownership, OutHandles, Arrays, Propagate, Promote,
                   CallerState, Probe, Gate, Run
        <3> QED
            BY <1>3, <3>1 DEF Next, Analyse
    <2>3. Fail /\ stage = "strings" => ~Done("strings")'
        BY DEF Fail, Done, Ran
    <2> QED
        BY <1>0, <2>1, <2>2, <2>3 DEF TextInv
<1> QED
    BY <1>2, <1>3

\* Memory for the library's structs is only ever allocated with its leave.
LEMMA AllocatedPreserved ==
    ASSUME SpecInv, AllocatedInv, Next
    PROVE  AllocatedInv'
<1>0. /\ input' = input
      /\ Done("handles")' /\ stage # "handles" => Done("handles")
      /\ Ran("handles")' => Ran("handles")
    BY StepKeepsDone DEF Early, Analyses, Extensions
<1>1. Done("handles")' => handleTypes' = input.handedOut
    <2>1. CASE Handles
        BY <2>1 DEF Handles
    <2>2. CASE ~Handles
        <3>1. handleTypes' = handleTypes
            BY <2>2 DEF Next, Analyse, DefUse, Ownership, Strings, OutHandles, Arrays,
                        Propagate, Promote, CallerState, Fail, Probe, Gate
        <3>2. stage = "handles" => Fail
            <4>1. ~(DefUse \/ Ownership \/ Strings \/ OutHandles \/ Arrays
                    \/ Propagate \/ Promote \/ CallerState \/ Probe \/ Gate) \/ stage # "handles"
                BY DEF DefUse, Ownership, Strings, OutHandles, Arrays, Propagate, Promote,
                       CallerState, Probe, Gate, Run
            <4> QED
                BY <2>2, <4>1 DEF Next, Analyse
        <3>3. Fail /\ stage = "handles" => ~Done("handles")'
            BY DEF Fail, Done, Ran
        <3> QED
            BY <1>0, <3>1, <3>2, <3>3 DEF AllocatedInv
    <2> QED
        BY <2>1, <2>2
<1>2. ASSUME NEW p \in Params, params'[p].role = "callerState"
      PROVE  input.struct.place # "system" /\ (Ran("handles")' => ~input.handedOut)
    <2>1. CASE params[p].role = "callerState"
        BY <1>0, <2>1 DEF AllocatedInv
    <2>2. CASE stage = "callerState" /\ CallerAllocated
        <3>1. input.struct.place # "system"
            <4>1. PICK dims \in StructDims(input.struct) : dims.local
                BY <2>2 DEF CallerAllocated
            <4>2. dims = [local |-> InLibrary(input.struct.place, input.struct.installed)]
                BY <4>1 DEF StructDims
            <4>3. InLibrary(input.struct.place, input.struct.installed)
                BY <4>1, <4>2
            <4> QED
                BY <4>3 DEF InLibrary
        <3>2. Passed("handles")
            BY <2>2 DEF Passed, Place
        <3>3. ~handleTypes
            BY <2>2 DEF CallerAllocated, ExtendedT
        <3>4. Ran("handles") => handleTypes = input.handedOut
            BY <3>2 DEF Done, AllocatedInv
        <3>5. Ran("handles") => ~input.handedOut
            <4>1. handleTypes \in BOOLEAN /\ input.handedOut \in BOOLEAN
                BY DEF SpecInv, TypeOK, StageInv, Findable
            <4> QED
                BY <3>3, <3>4, <4>1
        <3> QED
            BY <1>0, <3>1, <3>5
    <2> QED
        BY <1>2, <2>1, <2>2, StepRoles
<1> QED
    BY <1>0, <1>1, <1>2 DEF AllocatedInv

\* The intent of an output that is still a scalar is its finding's, if it has one.
LEMMA IntentPreserved ==
    ASSUME SpecInv, IntentInv, Next
    PROVE  IntentInv'
<1>0. /\ input' = input /\ With("out")' = With("out")
      /\ Passed("defUse") => Passed("defUse")'
      /\ Done("defUse")' /\ stage # "defUse" => Done("defUse")
      /\ ~Done("defUse") \/ stage # "defUse"
    BY StepKeepsDone DEF Early, Analyses, Extensions, With
<1>5. /\ Scheduled' = Scheduled
      /\ \A p \in Params : FoundIntent(p)' = FoundIntent(p)
    BY <1>0, StepAdvances DEF FoundIntent, SpecInv
<1>1. SUFFICES ASSUME NEW p \in Params, Shape(p) = "out", params'[p].role = "scalar"
               PROVE  params'[p].intent = IF Done("defUse")' THEN FoundIntent(p) ELSE "out"
    <2>1. \A p \in With("out")' : p \in Params /\ Shape(p) = "out"
        BY <1>0 DEF With
    <2> QED
        BY <1>5, <2>1 DEF IntentInv
<1>2. /\ params[p] \in Beliefs
      /\ params[p].role = "scalar" =>
            params[p].intent = IF Done("defUse") THEN FoundIntent(p) ELSE "out"
    BY <1>1 DEF IntentInv, With, SpecInv, TypeOK
<1>3. CASE DefUse
    <2> DEFINE body == input.body[p]
               found(q) == IF q \in Followed THEN Findings(input.engine, input.body[q]) ELSE {}
    <2>1. stage = "defUse" /\ ~Done("defUse")
        BY <1>0, <1>3 DEF DefUse, Run
    <2>2. p \in Followed
        <3>1. input.type[p].form = "pointer"
            <4>1. Shape(p) = ShapeOf(input.type[p])
                BY DEF Shape
            <4> QED
                BY <1>1, <4>1 DEF ShapeOf, PointerIsOut
        <3> QED
            BY <1>1, <3>1 DEF Followed, PointerParams, ScalarPointers
    <2>3. params'[p] = IF found(p) = {} THEN params[p]
                       ELSE Fuse(p, CHOOSE l2 \in found(p) : TRUE)
        BY <1>3 DEF DefUse
    <2>4. found(p) = Findings(input.engine, body)
        BY <2>2
    <2> HIDE DEF found
    <2>5. CASE Noted(body) = {}
        <3>1. found(p) = {}
            BY <2>4, <2>5 DEF Findings
        <3>2. params'[p] = params[p]
            BY <2>3, <3>1
        <3>3. FoundIntent(p) = "out"
            BY <2>5 DEF FoundIntent
        <3> QED
            BY <1>1, <1>2, <2>1, <3>2, <3>3
    <2>6. CASE Noted(body) # {}
        <3>1. found(p) # {}
            <4> HIDE DEF body
            <4>1. Findings(input.engine, body) # {}
                BY <2>6, SomeFinding
            <4> QED
                BY <2>4, <4>1
        <3>2. PICK l2 \in found(p) : params'[p] = Fuse(p, l2)
            BY <2>3, <3>1
        <3>3. body \in AccessLists
            BY DEF SpecInv, StageInv, Findable, AccessLists
        <3> HIDE DEF body
        <3>4. l2 \in Findings(input.engine, body)
            BY <2>4, <3>2
        <3>5. /\ l2.intent \in {"in", "out", "inout"} /\ l2.intent = IntentOf(body)
              /\ l2.confidence \in {500, 950}
            BY <3>3, <3>4, FindingsType
        <3>6. params'[p].role = params[p].role /\ params'[p].intent = IntentOf(body)
            BY <1>1, <3>2, <3>5, FuseResult DEF SpecInv
        <3>7. Done("defUse")'
            <4>1. stage \in Scheduled /\ "defUse" \notin failed
                <5>1. "defUse" \in Analyses /\ ~Passed("defUse")
                    BY <2>1, Places DEF Analyses, Passed
                <5> QED
                    BY <2>1, <5>1 DEF SpecInv, StageInv
            <4>4. failed' = failed /\ Scheduled' = Scheduled
                BY <1>3, <1>5 DEF DefUse, Keep
            <4>2. stage' = Following("defUse")
                BY <1>3 DEF DefUse, Run
            <4>3. Place(stage') > Place("defUse")
                BY <4>2, FollowingIsNext DEF SpecInv, StageInv, Analyses
            <4> QED
                BY <2>1, <4>1, <4>3, <4>4 DEF Done, Ran, Passed
        <3>8. FoundIntent(p) = IntentOf(body)
            BY <2>6 DEF FoundIntent, body
        <3> QED
            BY <3>6, <3>7, <3>8
    <2> QED
        BY <2>5, <2>6
<1>4. CASE ~DefUse
    <2>1. params'[p].intent = params[p].intent /\ params'[p].role = params[p].role
        <3>1. Rewritten(p)
            BY StepRewrites DEF SpecInv
        <3>2. CASE Untouched(p)
            BY <3>2 DEF Untouched
        <3>3. CASE ProbedOnce(p)
            BY <1>2, <3>3 DEF ProbedOnce, Beliefs
        <3>4. ~Fused(p) \/ Untouched(p)
            <4>1. stage = "defUse" => params' = params
                <5>1. ~(Handles \/ Ownership \/ Strings \/ OutHandles \/ Arrays
                        \/ Propagate \/ Promote \/ CallerState \/ Probe \/ Gate) \/ stage # "defUse"
                    BY DEF Handles, Ownership, Strings, OutHandles, Arrays, Propagate, Promote,
                           CallerState, Probe, Gate, Run
                <5>2. Fail => params' = params
                    BY DEF Fail, spec
                <5> QED
                    BY <1>4, <5>1, <5>2 DEF Next, Analyse
            <4> QED
                BY <4>1 DEF Fused, Untouched
        <3>5. ~MarkedArray(p)
            BY <1>1 DEF MarkedArray, Given, Believed
        <3>6. ~(MarkedLength(p) \/ MarkedHandle(p) \/ MarkedState(p) \/ MarkedOutHandle(p))
            BY <1>1 DEF MarkedLength, Integral, MarkedHandle, MarkedState, MarkedOutHandle
        <3> QED
            BY <3>1, <3>2, <3>3, <3>4, <3>5, <3>6 DEF Rewritten
    <2>2. Done("defUse")' <=> Done("defUse")
        <3>1. Done("defUse") => Done("defUse")'
            <4>1. failed' \subseteq failed \cup {stage} /\ Scheduled' = Scheduled
                <5>1. Analyse => failed' = failed
                    BY DEF Analyse, DefUse, Handles, Ownership, Strings, OutHandles, Arrays,
                           Propagate, Promote, CallerState, Keep
                <5>2. Fail => failed' = failed \cup {stage}
                    BY DEF Fail
                <5>3. Probe \/ Gate => failed' = failed
                    BY DEF Probe, Gate
                <5> QED
                    BY <1>5, <5>1, <5>2, <5>3 DEF Next
            <4>2. ASSUME Done("defUse")
                  PROVE  "defUse" \in Scheduled' /\ "defUse" \notin failed' /\ Passed("defUse")'
                BY <1>0, <4>1, <4>2 DEF Done, Ran
            <4> QED
                BY <4>2 DEF Done, Ran
        <3>2. Done("defUse")' => stage # "defUse"
            <4>1. ~(Handles \/ Ownership \/ Strings \/ OutHandles \/ Arrays
                    \/ Propagate \/ Promote \/ CallerState \/ Probe \/ Gate) \/ stage # "defUse"
                BY DEF Handles, Ownership, Strings, OutHandles, Arrays, Propagate, Promote,
                       CallerState, Probe, Gate, Run
            <4>2. Fail /\ stage = "defUse" => ~Done("defUse")'
                BY DEF Fail, Done, Ran
            <4> QED
                BY <1>4, <4>1, <4>2 DEF Next, Analyse
        <3> QED
            BY <1>0, <3>1, <3>2
    <2> QED
        BY <1>1, <1>2, <2>1, <2>2
<1> QED
    BY <1>3, <1>4

\* Whenever an array is marked, so are the lengths of them all.
LEMMA LengthPreserved ==
    ASSUME SpecInv, LengthInv, Next
    PROVE  LengthInv'
<1>1. input' = input /\ Lengths' = Lengths
    BY StepKeepsDone DEF Lengths, Pointees, Integral
<1>2. \A f \in Lengths : f.array \in Pointees /\ f.length \in Integral
    BY LengthsType DEF SpecInv, StageInv
<1>3. CASE Arrays /\ TextAtHand
    <2>1. ASSUME NEW f \in Lengths
          PROVE  params'[f.length].role = "lengthOf"
        <3> DEFINE q == f.length
        <3>1. q \in Params /\ Shape(q) = "scalar"
            BY <1>2, <2>1 DEF Integral
        <3>2. {g \in Lengths : g.array = q} = {}
            BY <1>2, <3>1 DEF Pointees
        <3>3. \E g \in Lengths : g.length = q
            BY <2>1
        <3> HIDE DEF q
        <3>4. params'[q] = [params[q] EXCEPT !.role = "lengthOf"]
            BY <1>3, <3>1, <3>2, <3>3 DEF Arrays
        <3>5. params[q] \in Beliefs
            BY <3>1 DEF SpecInv, TypeOK
        <3>6. params'[q].role = "lengthOf"
            BY <3>4, <3>5 DEF Beliefs
        <3> QED
            BY <3>6 DEF q
    <2> QED
        BY <1>1, <2>1 DEF LengthInv
<1>4. CASE ~(Arrays /\ TextAtHand)
    <2>1. \A p \in Params : params'[p].role = "array" => params[p].role = "array"
        <3>1. CASE Arrays
            <4>1. params' = params
                BY <1>4, <3>1 DEF Arrays
            <4> QED
                BY <4>1
        <3>2. CASE ~Arrays
            BY <3>2, StepRoles
        <3> QED
            BY <3>1, <3>2
    <2>2. \A f \in Lengths : params[f.length].role = "lengthOf"
                                => params'[f.length].role = "lengthOf"
        <3>1. \A f \in Lengths : f.length \in Params
            BY <1>2 DEF Integral
        <3> QED
            BY <3>1, StepRoles
    <2> QED
        BY <1>1, <2>1, <2>2 DEF LengthInv
<1> QED
    BY <1>3, <1>4

\* The verdicts hold throughout.
LEMMA VerdictInvariant == Spec => [](SpecInv /\ VerdictInv)
<1>1. ASSUME Init, SpecInv PROVE VerdictInv
    <2>1. /\ stage \in {"skipped", "propagate", "defUse"}
          /\ stage = "propagate" => input.run = "noSource"
          /\ lifecycle = "none" /\ owner = "none" /\ stringOwner = "none" /\ outParam = NoParam
          /\ \A p \in Params : params[p] = Classify(Shape(p))
        BY <1>1 DEF Init
    <2>2. \A s \in Early : ~Done(s)
        <3> TAKE s \in Early
        <3>1. CASE stage = "propagate"
            <4>1. Scheduled = Extensions \cup {"probe"} /\ "probe" \notin Analyses
                BY <2>1, <3>1 DEF Scheduled, Analyses
            <4> QED
                BY <4>1 DEF Done, Ran, Early
        <3>2. CASE stage = "defUse"
            <4>1. Place(s) \in 1 .. 10 /\ Place(stage) = 1
                BY <3>2, Places DEF Early, Place
            <4> QED
                BY <4>1 DEF Done, Passed
        <3>3. CASE stage = "skipped"
            <4>1. Place(s) \in 1 .. 10 /\ Place(stage) = 0
                BY <3>3, Places DEF Early, Place
            <4> QED
                BY <4>1 DEF Done, Passed
        <3> QED
            BY <2>1, <3>1, <3>2, <3>3
    <2>3. {"defUse", "handles", "ownership", "strings"} \subseteq Early
        BY DEF Early, Analyses, Extensions
    <2>4. OwnerInv
        BY <2>1 DEF OwnerInv
    <2>5. UncertainInv /\ TextInv
        BY <2>1, <2>2, <2>3 DEF UncertainInv, TextInv
    <2>6. \A p \in Params : params[p].role \notin {"callerState", "array"}
        <3> TAKE p \in Params
        <3>1. \A shape : Classify(shape).role \notin {"callerState", "array"}
                         \/ shape \notin {"scalar", "real", "string", "out", "manual",
                                          "struct", "double", "buffer", "opaque"}
            BY DEF Classify, Believed
        <3> QED
            BY <2>1, <3>1, ShapeType
    <2>7. AllocatedInv /\ LengthInv
        BY <2>2, <2>3, <2>6 DEF AllocatedInv, LengthInv
    <2>8. IntentInv
        <3>1. \A p \in With("out") : params[p].intent = "out"
            BY <2>1 DEF With, Classify, Believed
        <3> QED
            BY <2>2, <2>3, <3>1 DEF IntentInv
    <2> QED
        BY <2>4, <2>5, <2>7, <2>8 DEF VerdictInv
<1>2. ASSUME SpecInv, VerdictInv, [Next]_vars PROVE VerdictInv'
    <2>1. CASE Next
        BY <1>2, <2>1, OwnerPreserved, UncertainPreserved, TextPreserved, AllocatedPreserved,
           IntentPreserved, LengthPreserved DEF VerdictInv
    <2>2. CASE UNCHANGED vars
        <3>1. /\ input' = input /\ lifecycle' = lifecycle /\ owner' = owner
              /\ stringOwner' = stringOwner /\ outParam' = outParam /\ params' = params
              /\ stage' = stage /\ handleTypes' = handleTypes /\ failed' = failed
            BY <2>2 DEF vars, spec
        <3>2. OwnerInv' /\ TextInv'
            BY <1>2, <3>1 DEF VerdictInv, OwnerInv, TextInv, Done, Ran, Passed, Scheduled
        <3>3. UncertainInv'
            BY <1>2, <3>1 DEF VerdictInv, UncertainInv, Done, Ran, Passed, Scheduled, With, Shape
        <3>4. AllocatedInv'
            BY <1>2, <3>1 DEF VerdictInv, AllocatedInv, Done, Ran, Passed, Scheduled
        <3>5. IntentInv' /\ LengthInv'
            BY <1>2, <3>1 DEF VerdictInv, IntentInv, LengthInv, Lengths, Pointees, Integral,
                              Done, Ran, Passed, Scheduled, With, Shape, FoundIntent
        <3> QED
            BY <3>2, <3>3, <3>4, <3>5 DEF VerdictInv
    <2> QED
        BY <1>2, <2>1, <2>2
<1> QED
    BY <1>1, <1>2, SpecInvariant, PTL DEF Spec

\* At the gate every stage lies behind, and an analysis that ran has written.
LEMMA ExposedIsLast ==
    ASSUME SpecInv, stage = "exposed"
    PROVE  /\ Exposable
           /\ \A s \in Early : Ran(s) => Done(s)
<1>1. Place(stage) = 11 /\ \A s \in Early : Place(s) \in 1 .. 10
    BY Places DEF Early, Ends
<1> QED
    BY <1>1 DEF SpecInv, GateInv, Done, Passed

\* A handle that a client may destroy is one whose ownership was established.
THEOREM OwnedHandlesTraced == Spec => []FreeableIsTraced
<1>1. ASSUME SpecInv, VerdictInv PROVE FreeableIsTraced
    <2> SUFFICES ASSUME stage = "exposed", ResultOwned, Ran("ownership")
                 PROVE  input.owner = "caller" \/ input.confirmed # {}
        BY DEF FreeableIsTraced
    <2>1. Done("ownership")
        BY <1>1, ExposedIsLast DEF Early, Analyses, Extensions
    <2>2. CASE CallingShape = "outHandle" /\ owner = "caller"
        BY <1>1, <2>2 DEF VerdictInv, OwnerInv
    <2>3. CASE CallingShape = "creates"
        <3>1. lifecycle = "creates" /\ outParam = NoParam
            BY <2>3 DEF CallingShape
        <3> QED
            BY <1>1, <2>1, <3>1 DEF VerdictInv, OwnerInv
    <2> QED
        BY <2>2, <2>3 DEF ResultOwned
<1> QED
    BY <1>1, VerdictInvariant, PTL

\* A function that frees its handle only on some path is never exposed.
THEOREM UncertainDestructorsRefused == Spec => []UncertainRefused
<1>1. ASSUME SpecInv, VerdictInv PROVE UncertainRefused
    <2>1. stage = "exposed" /\ Ran("handles") => Done("handles") /\ lifecycle # "uncertain_destroys"
        BY <1>1, ExposedIsLast DEF Early, Analyses, Extensions, Exposable
    <2> QED
        BY <1>1, <2>1 DEF UncertainRefused, VerdictInv, UncertainInv
<1> QED
    BY <1>1, VerdictInvariant, PTL

\* The binding never allocates a struct that the library hands out, or one that
\* belongs to the system.
THEOREM LibraryStructsNotAllocated == Spec => []ManagedNeverAllocated
<1>1. ASSUME SpecInv, VerdictInv PROVE ManagedNeverAllocated
    <2> SUFFICES ASSUME stage = "exposed", Ran("handles"), CallingShape = "callerState"
                 PROVE  ~input.handedOut /\ input.struct.place # "system"
        BY DEF ManagedNeverAllocated
    <2>1. \E p \in Params : params[p].role = "callerState"
        <3>1. lifecycle \in {"none", "creates", "borrows", "uses", "destroys", "uncertain_destroys"}
            BY <1>1 DEF SpecInv, TypeOK
        <3> QED
            BY <3>1 DEF CallingShape
    <2> QED
        BY <1>1, <2>1 DEF VerdictInv, AllocatedInv
<1> QED
    BY <1>1, VerdictInvariant, PTL

\* A string the analysis found owned, and no other, is freed once it has been
\* read, and never by the destructor of an object.
THEOREM OwnedTextFreed == Spec => []TextFreedIffOwned
<1>1. ASSUME SpecInv, VerdictInv PROVE TextFreedIffOwned
    <2> SUFFICES ASSUME stage = "exposed", input.text # "none",
                        input.destructorNamed => DestructorClaimed
                 PROVE  /\ TextResult = "freed" => input.text = "owned" /\ Deallocator = "buffer"
                        /\ /\ input.text = "owned" /\ input.bufferFree /\ Ran("strings")
                           /\ CallingShape \in {"plain", "uses"} /\ HandedBack = {}
                           => TextResult = "freed"
        BY DEF TextFreedIffOwned
    <2>1. /\ input.role # "creates" /\ {input.destructorNamed, input.bufferFree} \subseteq BOOLEAN
          /\ lifecycle \in {"none", "creates", "borrows", "uses", "destroys", "uncertain_destroys"}
          /\ lifecycle # "uncertain_destroys"
        BY <1>1, ExposedIsLast DEF SpecInv, StageInv, Findable, TypeOK, Exposable
    <2>2. lifecycle # "borrows" /\ (lifecycle = "creates" => outParam # NoParam)
        BY <1>1, <2>1 DEF VerdictInv, OwnerInv
    <2>3. CallingShape \in {"callerState", "outHandle", "uses", "destroys", "array", "plain"}
        BY <2>1, <2>2 DEF CallingShape
    <2>4. Deallocator = IF input.bufferFree THEN "buffer" ELSE "none"
        BY <2>1 DEF Deallocator
    <2>5. ASSUME TextResult = "freed"
          PROVE  input.text = "owned" /\ Deallocator = "buffer"
        <3>1. Deallocator # "none"
            BY <2>5 DEF TextResult
        <3>2. stringOwner = "caller"
            BY <2>3, <2>5 DEF TextResult
        <3> QED
            BY <1>1, <2>4, <3>1, <3>2 DEF VerdictInv, TextInv
    <2>6. ASSUME input.text = "owned", input.bufferFree, Ran("strings"),
                 CallingShape \in {"plain", "uses"}, HandedBack = {}
          PROVE  TextResult = "freed"
        <3>1. stringOwner = "caller"
            BY <1>1, <2>6, ExposedIsLast DEF VerdictInv, TextInv, Early, Analyses, Extensions
        <3>2. Deallocator # "none"
            BY <2>4, <2>6
        <3> QED
            BY <2>6, <3>1, <3>2 DEF TextResult
    <2> QED
        BY <2>5, <2>6
<1> QED
    BY <1>1, VerdictInvariant, PTL

\* The intents of outputs are what C does with them, as far as the collectors see.
THEOREM ScalarsTravel == Spec => []ScalarsTravelBothWays
<1>1. ASSUME SpecInv, VerdictInv PROVE ScalarsTravelBothWays
    <2> SUFFICES ASSUME stage = "exposed", CallingShape = "plain", Ran("defUse"),
                        NEW p \in With("out"), input.body[p] # <<>>
                 PROVE  LET accesses == input.body[p] IN
                    /\ Head(accesses).always /\ Reads(Head(accesses).op) => ClientsValue(p)
                    /\ (\A a \in Range(accesses) : a.op \notin {"increment", "offset", "pass"})
                        /\ (\E a \in Range(accesses) : Writes(a.op))
                       => p \in HandedBack
        BY DEF ScalarsTravelBothWays
    <2> DEFINE accesses == input.body[p]
    <2>1. p \in Params /\ Shape(p) = "out" /\ accesses \in AccessLists
        BY <1>1 DEF With, SpecInv, StageInv, Findable, AccessLists
    <2>2. params[p].role = "scalar"
        <3>1. params[p].role \in {"scalar", "array"}
            BY <1>1, <2>1 DEF SpecInv, BeliefInv, RolesOf
        <3>2. ~ \E q \in Params : params[q].role = "array"
            BY <1>1 DEF CallingShape, SpecInv, TypeOK
        <3> QED
            BY <2>1, <3>1, <3>2
    <2>3. params[p].intent = FoundIntent(p)
        BY <1>1, <2>2, ExposedIsLast DEF VerdictInv, IntentInv, Early, Analyses, Extensions
    <2>4. FoundIntent(p) = IF Noted(accesses) = {} THEN "out" ELSE IntentOf(accesses)
        BY DEF FoundIntent
    <2>0. accesses # <<>>
        OBVIOUS
    <2> HIDE DEF accesses
    <2>5. /\ DOMAIN accesses = 1 .. Len(accesses) /\ Len(accesses) \in Nat /\ Len(accesses) # 0
          /\ Head(accesses) = accesses[1]
          /\ \A i \in 1 .. Len(accesses) : accesses[i].op \in Ops
        <3>1. \A i \in 1 .. Len(accesses) : accesses[i] \in [op : Ops, always : BOOLEAN]
            BY <2>1, ElementOfSeq DEF AccessLists
        <3> QED
            BY <2>0, <2>1, <3>1, LenProperties, EmptySeq DEF AccessLists
    <2>6. ASSUME Reads(Head(accesses).op)
          PROVE  ClientsValue(p)
        <3>1. Seen(accesses[1].op) # <<>> /\ Head(Seen(accesses[1].op)) = "read"
            BY <2>5, <2>6 DEF Reads, Seen
        <3>2. 1 \in Noted(accesses)
            BY <2>5, <3>1 DEF Noted
        <3>3. Min(Noted(accesses)) = 1
            <4>1. /\ Min(Noted(accesses)) \in 1 .. Len(accesses)
                  /\ \A i \in Noted(accesses) : Min(Noted(accesses)) <= i
                BY <2>1, <3>2, NotedAccess
            <4> QED
                BY <3>2, <4>1
        <3>4. IntentOf(accesses) \in {"in", "inout"}
            BY <3>1, <3>3 DEF IntentOf
        <3> QED
            BY <2>3, <2>4, <3>2, <3>4 DEF ClientsValue
    <2>7. ASSUME \A a \in Range(accesses) : a.op \notin {"increment", "offset", "pass"},
                 \E a \in Range(accesses) : Writes(a.op)
          PROVE  p \in HandedBack
        <3>1. PICK i \in 1 .. Len(accesses) : Writes(accesses[i].op)
            BY <2>5, <2>7 DEF Range
        <3>2. accesses[i].op \in {"store", "recompute", "update"}
            BY <2>5, <2>7, <3>1 DEF Range, Writes
        <3>3. Seen(accesses[i].op) # <<>> /\ "write" \in Range(Seen(accesses[i].op))
            BY <3>2 DEF Seen, Range
        <3>4. i \in Noted(accesses)
            BY <2>5, <3>3 DEF Noted
        <3>5. Head(Seen(accesses[Min(Noted(accesses))].op)) \in {"read", "write"}
            BY <2>1, <3>4, NotedAccess
        <3>6. IntentOf(accesses) \in {"out", "inout"}
            BY <3>3, <3>4, <3>5 DEF IntentOf
        <3> QED
            BY <2>1, <2>2, <2>3, <2>4, <3>4, <3>6 DEF HandedBack
    <2> QED
        BY <2>6, <2>7 DEF accesses
<1> QED
    BY <1>1, VerdictInvariant, PTL

\* The length C bounds its loops over an array by is the length of the client's list.
THEOREM LengthsGiven == Spec => []LengthIsTheBound
<1>1. ASSUME SpecInv, VerdictInv PROVE LengthIsTheBound
    <2> DEFINE over == {l \in Range(input.loops) : l.over # {}}
    <2> SUFFICES ASSUME Cardinality(Pointees) = 1,
                        Cardinality({l.bound : l \in over}) = 1,
                        \A l \in Range(input.loops) : l.over = {} =>
                                                    l.var \notin IndexVars(input.loops),
                        NEW l \in over, NEW p \in Pointees,
                        params[p].role = "array", l.bound # NoParam
                 PROVE  params[l.bound].role = "lengthOf" /\ LengthGiven(l.bound) = p
        BY DEF LengthIsTheBound
    <2>1. /\ input.loops \in Seq(Range(input.loops))
          /\ \A k \in Range(input.loops) : k.bound \in {NoParam} \cup Integral
        BY <1>1 DEF SpecInv, StageInv, Findable, Integral, Shape
    <2>2. IsFiniteSet(Params)
        BY FS_Interval, BoundsAssumption DEF Params
    <2>3. Pointees = {p}
        <3>1. IsFiniteSet(Pointees)
            BY <2>2, FS_Subset DEF Pointees
        <3>2. PICK x : Pointees = {x}
            BY <3>1, FS_Singleton
        <3> QED
            BY <3>2
    <2>4. \A k \in over : k.bound = l.bound
        <3> DEFINE bounds == {k.bound : k \in over}
        <3>1. bounds \subseteq {NoParam} \cup Params
            BY <2>1 DEF Integral
        <3>2. IsFiniteSet({NoParam} \cup Params)
            BY <2>2, FS_AddElement
        <3>3. IsFiniteSet(bounds)
            BY <3>1, <3>2, FS_Subset
        <3>4. PICK x : bounds = {x}
            BY <3>3, FS_Singleton
        <3> QED
            BY <3>4
    <2> DEFINE counting == Bounds(input.loops, Integral)
               m == Min(counting)
    <2>5. counting # {} /\ counting \in SUBSET Nat
        <3>1. PICK i \in DOMAIN input.loops : l = input.loops[i]
            BY DEF Range
        <3>2. l.bound \in Integral /\ l.var \in IndexVars(input.loops)
            BY <2>1 DEF IndexVars
        <3>3. i \in counting
            BY <3>1, <3>2 DEF Bounds
        <3> QED
            BY <2>1, <3>3 DEF Bounds
    <2>6. m \in counting
        BY <2>5, MinIsLeast
    <2>7. input.loops[m].bound = l.bound
        <3>1. /\ input.loops[m] \in Range(input.loops)
              /\ input.loops[m].var \in IndexVars(input.loops)
            BY <2>6 DEF Bounds, Range
        <3>2. input.loops[m] \in over
            BY <3>1
        <3> QED
            BY <2>4, <3>2
    <2> DEFINE fact == [array |-> p, length |-> l.bound, confidence |-> 900]
    <2>8. Lengths = {fact}
        <3>1. LengthOf(p, input.loops, Integral) = {fact}
            BY <2>5, <2>7 DEF LengthOf
        <3> QED
            BY <2>3, <3>1 DEF Lengths, ArrayFacts
    <2>9. params[l.bound].role = "lengthOf"
        <3>1. fact \in Lengths /\ fact.length = l.bound
            BY <2>8
        <3>2. p \in Params
            BY DEF Pointees
        <3> QED
            BY <1>1, <3>1, <3>2 DEF VerdictInv, LengthInv
    <2>10. LengthGiven(l.bound) = p
        <3>1. {f.array : f \in {g \in Lengths : g.length = l.bound}} = {p}
            <4>1. fact.array = p /\ fact.length = l.bound
                OBVIOUS
            <4> HIDE DEF fact
            <4>2. {g \in Lengths : g.length = l.bound} = {fact}
                BY <2>8, <4>1
            <4> QED
                BY <4>1, <4>2
        <3>2. p \in Nat
            BY DEF Pointees, Params
        <3>3. Max({p}) \in {p}
            BY <3>2, MaxIsGreatest
        <3> QED
            BY <3>1, <3>3 DEF LengthGiven
    <2> QED
        BY <2>9, <2>10
<1> QED
    BY <1>1, VerdictInvariant, PTL
=============================================================================
