------------------------------ MODULE Ownership ------------------------------
(***************************************************************************)
(* Who frees what a C function hands out.  Three analyses share one shape: *)
(* each function is decided from its own record (module Extraction) when   *)
(* that is possible, and otherwise takes over the verdict of the functions *)
(* it calls, in passes over the records until one of them changes nothing  *)
(* or a cap is reached.                                                    *)
(*   "pointer"  classify_ownership (layers/l2_ownership.py)                *)
(*   "string"   classify_string_ownership (layers/l2_ownership.py)         *)
(*   "out"      classify_out_handles (layers/l2_out_handles.py)            *)
(* A verdict is "caller" (owned, or a confirmed out-parameter), "library"  *)
(* (borrowed, or refused) or "open".                                       *)
(***************************************************************************)
EXTENDS Extraction

CONSTANTS
    Transfers,  \* functions whose names hold detach, remove, take, unlink, pop...
    Libraries,  \* a sequence of sets of inputs: each a record of analysis,
                \* engine, files and manual
    MaxRounds   \* 10 in the code

Owners == {"caller", "library"}

ASSUME RoundsAssumption == MaxRounds \in Nat \ {0}

\* A dict is a finite sequence of names, of functions that are C.
ASSUME LibrariesAssumption ==
    \A family \in DOMAIN Libraries : \A input \in Libraries[family] :
        /\ input.analysis \in {"pointer", "string", "out"}
        /\ input.engine \in {"libclang", "pycparser"}
        /\ LET names == Analysed(input.files, input.analysis) IN
            /\ names \in Seq(Range(names)) /\ Range(names) \cap Tags = {}
            /\ \A f \in Range(names) : WellFormed(FileOf(input.files, f)[f], input.analysis)

VARIABLES
    library,    \* the input: never changes
    order,      \* the functions with a record, in the order of the dict
    records,    \* what was extracted of each: never changes
    verdict,
    next,       \* the position in order of the function to look at
    round,
    changed,
    phase,      \* "classify", then "done" or "raised"
    facts       \* the result: function -> owner

vars == <<library, order, records, verdict, next, round, changed, phase, facts>>

Recorded == DOMAIN records

-----------------------------------------------------------------------------
(* What a record decides by itself.                                        *)

\* The pipeline hands an author's annotations to libclang's analysis of
\* pointers only.
Annotated ==
    IF library.analysis = "pointer" /\ library.engine = "libclang" THEN library.manual ELSE <<>>

\* Rules 1 to 3, with the detach and transfer rules; 5 is the default at the
\* end.
PointerSeed(f) ==
    LET r == records[f] IN
    CASE r.returns /\ r.escaped -> "library"
      [] r.returns /\ ~r.escaped /\ r.origin = "alloc" -> "caller"
      [] r.returns /\ r.origin = "member" -> IF r.detaches THEN "caller" ELSE "library"
      [] r.returns /\ r.origin = "param" /\ r.mutates /\ f \in Transfers -> "caller"
      [] OTHER -> "open"

\* A string is owned only if every return is.
StringSeed(f) ==
    CASE records[f].origins = {} -> "library"
      [] records[f].origins = {"alloc"} -> "caller"
      [] OTHER -> "open"

\* A direct write of anything but an allocation is refused.
OutSeed(f) ==
    CASE records[f].written = "alloc" -> "caller"
      [] records[f].written = "other" -> "library"
      [] records[f].written = "nothing" -> IF records[f].forward = {} THEN "library" ELSE "open"

Seed(f) ==
    CASE library.analysis = "pointer" /\ f \in DOMAIN Annotated -> Annotated[f]
      [] library.analysis = "pointer" /\ f \notin DOMAIN Annotated -> PointerSeed(f)
      [] library.analysis = "string" -> StringSeed(f)
      [] library.analysis = "out" -> OutSeed(f)

\* The functions whose verdicts settle that of f.
DependsOn(f) ==
    CASE library.analysis = "pointer" ->
            IF records[f].returns /\ records[f].origin \notin {"alloc", "member", "param", "unknown", "static"}
            THEN {records[f].origin} ELSE {}
      [] library.analysis = "string" -> records[f].origins \ {"alloc"}
      [] library.analysis = "out" -> records[f].forward

-----------------------------------------------------------------------------

\* _normalize_manual refuses an owner that is neither of the two.
ManualInvalid == \E f \in DOMAIN Annotated : Annotated[f] \notin Owners

\* Only a run over several files survives one that does not parse.
Unreadable == Len(library.files) = 1 /\ library.files[1].truncated

Init ==
    /\ \E family \in DOMAIN Libraries : library \in Libraries[family]
    /\ order = Analysed(library.files, library.analysis)
    /\ records = [f \in Range(order) |->
                    Record(library.files, library.analysis, library.engine, f)]
    /\ phase = IF ManualInvalid \/ Unreadable THEN "raised" ELSE "classify"
    /\ verdict = [f \in Recorded |->
                    IF library.analysis = "out" \/ phase = "raised" THEN "open" ELSE Seed(f)]
    /\ next = 1
    /\ round = 1
    /\ changed = FALSE
    /\ facts = <<>>

\* Mutant: one owned callee is enough.
InheritedFromAny(f) ==
    IF \E g \in DependsOn(f) \cap Recorded : verdict[g] = "caller" THEN "caller" ELSE "open"

\* What f takes over from the functions it depends on.
Inherited(f) ==
    CASE DependsOn(f) = {} -> "open"
      [] ~ DependsOn(f) \subseteq Recorded ->
            IF library.analysis = "out" THEN "library" ELSE "open"
      [] DependsOn(f) # {} /\ DependsOn(f) \subseteq Recorded ->
            IF \E g \in DependsOn(f) : verdict[g] = "open" THEN "open"
            ELSE IF \A g \in DependsOn(f) : verdict[g] = "caller" THEN "caller"
            ELSE "library"

\* classify_out_handles reads the evidence inside the loop.
Settled(f) ==
    IF library.analysis = "out" /\ OutSeed(f) # "open" THEN OutSeed(f) ELSE Inherited(f)

\* Mutant: changed is not set.
VisitUnmarked ==
    /\ phase = "classify"
    /\ next \in DOMAIN order
    /\ LET f == order[next] IN
        IF verdict[f] # "open" \/ Settled(f) = "open"
        THEN UNCHANGED verdict
        ELSE verdict' = [verdict EXCEPT ![f] = Settled(f)]
    /\ next' = next + 1
    /\ UNCHANGED <<library, order, records, round, changed, phase, facts>>

Visit ==
    /\ phase = "classify"
    /\ next \in DOMAIN order
    /\ LET f == order[next] IN
        IF verdict[f] # "open" \/ Settled(f) = "open"
        THEN UNCHANGED <<verdict, changed>>
        ELSE verdict' = [verdict EXCEPT ![f] = Settled(f)] /\ changed' = TRUE
    /\ next' = next + 1
    /\ UNCHANGED <<library, order, records, round, phase, facts>>

\* Only a function that returns a pointer gets a fact of its own.
Reported == {f \in Recorded : library.analysis = "pointer" => records[f].returns}

\* Rule 5: what is still open is the library's.  A manual fact stands even
\* for a function without a record.
Outcome ==
    [f \in Reported \cup DOMAIN Annotated |->
        CASE f \notin Recorded -> Annotated[f]
          [] f \in Recorded -> IF verdict[f] = "open" THEN "library" ELSE verdict[f]]

NextRound ==
    /\ changed
    /\ round < MaxRounds
    /\ round' = round + 1
    /\ next' = 1
    /\ changed' = FALSE
    /\ UNCHANGED <<library, order, records, verdict, phase, facts>>

Finish ==
    /\ ~changed \/ round = MaxRounds
    /\ phase' = "done"
    /\ facts' = Outcome
    /\ UNCHANGED <<library, order, records, verdict, next, round, changed>>

EndRound ==
    /\ phase = "classify"
    /\ next = Len(order) + 1
    /\ NextRound \/ Finish

Next == Visit \/ EndRound
Spec == Init /\ [][Next]_vars

-----------------------------------------------------------------------------
(* The functions that are owned by their bodies and the bodies they call:  *)
(* the least set closed under the calls, without passes or caps.  What an  *)
(* author says of a function without a record is evidence of that function *)
(* alone.                                                                  *)

\* f hands out only what the functions of known do.
HandsOnFrom(f, known) ==
    /\ Seed(f) = "open"
    /\ DependsOn(f) # {}
    /\ DependsOn(f) \subseteq known

Grounded(S) ==
    \A f \in Recorded : Seed(f) = "caller" \/ HandsOnFrom(f, S) => f \in S

Traced == {f \in Recorded : \A S \in SUBSET Recorded : Grounded(S) => f \in S}

OwnedByEvidence ==
    Traced \cup {f \in DOMAIN Annotated \ Recorded : Annotated[f] = "caller"}

-----------------------------------------------------------------------------
(* The bodies about which a walk that does not follow the flow of control  *)
(* can be right: outside them the verdicts are guesses, and not all of     *)
(* them err on the safe side (README, section 5).                          *)

Function(f) == FileOf(library.files, f)[f]

\* Each local is given one value apart from NULL, and none is a copy of another;
\* parameters keep their own.
AssignedOnce(fn) ==
    LET Gives(i) == Assigns(fn.body[i]) /\ fn.body[i].to.is = "ref" /\ fn.body[i].from.is # "null"
    IN  /\ \A i, j \in DOMAIN fn.body :
             Gives(i) /\ Gives(j) /\ fn.body[i].to.name = fn.body[j].to.name => i = j
        /\ \A i \in DOMAIN fn.body : Gives(i) => fn.body[i].from.is # "ref"
        /\ \A s \in Range(fn.body) : Assigns(s) /\ s.to.is = "ref" => s.to.name \notin Params(fn)

\* No local is read before it is assigned on the way there.
Initialised(fn) ==
    \A i \in DOMAIN fn.body : \A x \in NamesIn(fn.body[i].from) \ Params(fn) :
        \E j \in DOMAIN fn.body : j < i /\ AssignsTo(fn.body[j], x) /\ ~fn.body[j].branch

\* The origin of a function that returns pointers is one for all its returns: the
\* only return of anything but NULL is the last statement.
ReturnsLast(fn) == \A i \in DOMAIN Returns(fn) : Returns(fn)[i].is # "null" => i = Len(fn.body)

\* What could keep a returned local is a handle, under its own name: the escape
\* rule does not look at a structure reached through another local or a call,
\* nor at the function the local came from.
KeptByHandles(fn) ==
    LET Result(e) == e.is = "ref" /\ e.name \in ReturnedRoots(fn)
        Handle(e) == e.is = "ref" /\ e.name \in fn.handles
    IN  /\ \A c \in {d \in Calls(fn) : d.callee \notin Allocators \cup Deallocators} :
             (\E a \in Range(c.args) : Result(a)) =>
                 /\ \A a \in Range(c.args) : Result(a) \/ Handle(a) \/ a.is \in {"null", "text"}
                 /\ c.callee \notin Range(ReturnOrigins(fn, library.engine))
        /\ \A s \in {t \in Range(fn.body) : t.do = "set" /\ Result(t.from)} :
             \/ s.to.is = "ref" \/ WritesOut(fn, s)
             \/ s.to.is = "member" /\ s.to.name \in fn.handles

\* A member that is read into a returned local is read once and passed to be
\* freed only, under any name, and is written after the read, on every path.
TakenOnce(fn) ==
    \A i \in DOMAIN fn.body :
        LET It(e) == e.is = "member" /\ e.path = fn.body[i].from.path IN
        /\ fn.body[i].from.is = "member" /\ Assigns(fn.body[i])
        /\ fn.body[i].to.is = "ref" /\ fn.body[i].to.name \in ReturnedRoots(fn)
        =>
        /\ \A j \in DOMAIN fn.body : It(fn.body[j].from) => j = i
        /\ \A j \in DOMAIN fn.body :
             Assigns(fn.body[j]) /\ It(fn.body[j].to) => j > i /\ ~fn.body[j].branch
        /\ \A c \in Calls(fn) :
             c.callee \notin Allocators \cup Deallocators => \A a \in Range(c.args) : ~It(a)

\* No local is stored in a structure or passed to a function that could.
KeepsNothing(fn) ==
    /\ \A s \in Range(fn.body) :
         Assigns(s) /\ s.to.is # "ref" /\ ~WritesOut(fn, s) => s.from.is # "ref"
    /\ \A c \in Calls(fn) :
         c.callee \notin Allocators \cup Deallocators => NamesIn(c) \subseteq Params(fn)

\* What is filled in by a call is filled in by that call alone, and what is
\* written is written once, apart from NULL.
FilledOnce(fn) ==
    \A o \in fn.outs :
        LET on == PassedOn(fn, library.engine, o)
        IN  /\ on = {} \/ Writes(fn, o) = {}
            /\ \A a, b \in on : a = b
            /\ \A i, j \in Writes(fn, o) :
                 fn.body[i].from.is # "null" /\ fn.body[j].from.is # "null" => i = j

Straightforward(fn) == AssignedOnce(fn) /\ Initialised(fn)
Traceable(fn) == ReturnsLast(fn) /\ KeptByHandles(fn) /\ TakenOnce(fn)

\* The functions whose result is the caller's, as far as the analysis knows.
Owned == {f \in DOMAIN facts : facts[f] = "caller"}

-----------------------------------------------------------------------------
(* Properties.                                                             *)

\* Nothing is called owned that does not lead to an allocation, a transfer or
\* a manual fact: a pass cut short by the cap, a cycle of calls and a call out
\* of the library all end as the library's (the fail-safe direction).  Every
\* function that hands something out, or that an author annotated, has a fact.
OwnedIsTraced ==
    phase = "done" => \A f \in Reported \cup DOMAIN Annotated :
        f \in DOMAIN facts /\ (facts[f] = "caller" => f \in OwnedByEvidence)

\* When the last pass changed nothing the result misses no owned function,
\* in whatever order the records came.
ConvergedIsComplete ==
    phase = "done" /\ ~changed =>
        \A f \in OwnedByEvidence \cap (Reported \cup DOMAIN Annotated) : facts[f] = "caller"

\* What libclang calls the caller's is the caller's on every execution of the
\* body: fresh, or released by the structure it came from, and in either case
\* held by nothing else (rules 1, 3 and 4 and the detach rule together).  Not
\* claimed for a transfer by name, an annotation or a body that is not
\* straightforward.
PointerOwnedIsHandedOver ==
    phase = "done" /\ library.analysis = "pointer" /\ library.engine = "libclang" =>
        \A f \in (Owned \cap Reported) \ DOMAIN Annotated :
            Straightforward(Function(f)) /\ Traceable(Function(f)) /\ records[f].origin # "param" =>
                \A end \in Executions(Function(f), Owned) : HandedOver(end, end.result)

\* An owned string is freed after it is copied: on every execution it must be
\* one that nothing else holds, and never a literal.
StringOwnedIsHandedOver ==
    phase = "done" /\ library.analysis = "string" =>
        \A f \in Owned :
            Straightforward(Function(f)) /\ KeepsNothing(Function(f)) =>
                \A end \in Executions(Function(f), Owned) : HandedOver(end, end.result)

\* What a confirmed out-parameter is given becomes an owned handle: on every
\* execution it is fresh, or NULL, which becomes no handle.
ConfirmedIsAllocated ==
    phase = "done" /\ library.analysis = "out" =>
        \A f \in Owned :
            Straightforward(Function(f)) /\ KeepsNothing(Function(f)) /\ FilledOnce(Function(f)) =>
                \A end \in Executions(Function(f), Owned) : HandedOver(end, end.out)

==============================================================================
