--------------------------- MODULE OwnershipProofs ---------------------------
(***************************************************************************)
(* Theorems about Ownership, for libraries of any size, every order of the *)
(* records and any cap on the passes: which functions the passes settle,   *)
(* and that what they call owned is handed over by every execution of the  *)
(* body, whatever branches it takes.                                       *)
(***************************************************************************)
EXTENDS Ownership, Integers, NumberLemmas, TLAPS

Verdicts == {"open", "caller", "library"}

TypeOK ==
    /\ \E family \in DOMAIN Libraries : library \in Libraries[family]
    /\ order \in Seq(Recorded) /\ Range(order) = Recorded
    /\ verdict \in [Recorded -> Verdicts]
    /\ next \in 1 .. Len(order) + 1
    /\ changed \in BOOLEAN
    /\ phase \in {"classify", "done", "raised"}

\* The input of an analysis that runs: owners an annotation may name, and what
\* a record may say of the writes through an out-parameter.
InputRead ==
    /\ ~ ManualInvalid
    /\ library.analysis = "out" =>
            \A f \in Recorded : records[f].written \in {"alloc", "other", "nothing"}

\* The records are what was read off the bodies.
Extracted ==
    /\ order = Analysed(library.files, library.analysis)
    /\ \A f \in Recorded :
            records[f] = Record(library.files, library.analysis, library.engine, f)

\* What the record of a function decides is never overruled by its callees.
\* Only the out-handle analysis puts off reading it to the visit.
SeedStands(f) ==
    /\ verdict[f] # "open" /\ Seed(f) # "open" => verdict[f] = Seed(f)
    /\ verdict[f] = "open" /\ library.analysis # "out" => Seed(f) = "open"

\* An inherited "library" has a reason that stays: a callee outside the records
\* or one that is the library's itself.
RefusalStands(f) ==
    verdict[f] = "library" /\ Seed(f) = "open" =>
        \E g \in DependsOn(f) : g \in Recorded => verdict[g] = "library"

\* Nothing is the caller's without evidence.
CallerTraced(f) == verdict[f] = "caller" => f \in Traced

\* Its record or all of its callees say so.
Callers == {f \in Recorded : verdict[f] = "caller"}
CallerGrounded(f) ==
    verdict[f] = "caller" => Seed(f) = "caller" \/ HandsOnFrom(f, Callers)

\* No visit of f would decide it now.
Decided(f) == verdict[f] # "open" \/ Settled(f) = "open"

\* A pass that has decided nothing so far would decide none of those it visited.
PassSettles ==
    /\ phase = "classify" /\ ~ changed => \A j \in 1 .. next - 1 : Decided(order[j])
    /\ phase = "done" /\ ~ changed => \A f \in Recorded : Decided(f)

\* The inductive invariant.
VerdictsInv ==
    /\ TypeOK /\ Extracted
    /\ phase # "raised" =>
            /\ InputRead
            /\ \A f \in Recorded :
                    SeedStands(f) /\ RefusalStands(f) /\ CallerTraced(f) /\ CallerGrounded(f)
            /\ PassSettles
            /\ phase = "done" => facts = Outcome

-----------------------------------------------------------------------------
(* What the definitions yield.                                             *)

\* A record decides for the caller, for the library, or not at all.
LEMMA SeedIsVerdict ==
    ASSUME library.analysis \in {"pointer", "string", "out"}, InputRead, NEW f \in Recorded
    PROVE  Seed(f) \in Verdicts
<1>1. CASE library.analysis = "pointer" /\ f \in DOMAIN Annotated
    BY <1>1 DEF Seed, InputRead, ManualInvalid, Owners, Verdicts
<1>2. CASE library.analysis = "pointer" /\ f \notin DOMAIN Annotated
    <2>1. PointerSeed(f) \in Verdicts
        BY DEF PointerSeed, Verdicts
    <2> QED
        BY <1>2, <2>1 DEF Seed
<1>3. CASE library.analysis = "string"
    <2>1. StringSeed(f) \in Verdicts
        BY DEF StringSeed, Verdicts
    <2> QED
        BY <1>3, <2>1 DEF Seed
<1>4. CASE library.analysis = "out"
    <2>1. records[f].written \in {"alloc", "other", "nothing"}
        BY <1>4 DEF InputRead
    <2>2. OutSeed(f) \in Verdicts
        BY <2>1 DEF OutSeed, Verdicts
    <2> QED
        BY <1>4, <2>2 DEF Seed
<1> QED
    BY <1>1, <1>2, <1>3, <1>4

\* Every callee has to be the caller's, one that is not settles it otherwise.
LEMMA InheritedShape ==
    ASSUME TypeOK, NEW f \in Recorded
    PROVE  /\ Inherited(f) \in Verdicts
           /\ Inherited(f) = "caller" =>
                /\ DependsOn(f) # {} /\ DependsOn(f) \subseteq Recorded
                /\ \A g \in DependsOn(f) : verdict[g] = "caller"
           /\ Inherited(f) = "library" =>
                \E g \in DependsOn(f) : g \in Recorded => verdict[g] = "library"
           /\ Inherited(f) # "caller" =>
                \/ DependsOn(f) = {}
                \/ \E g \in DependsOn(f) : g \notin Recorded \/ verdict[g] # "caller"
<1>1. CASE DependsOn(f) = {}
    <2>1. Inherited(f) = "open"
        BY <1>1 DEF Inherited
    <2> QED
        BY <1>1, <2>1 DEF Verdicts
<1>2. CASE ~ DependsOn(f) \subseteq Recorded
    <2>1. Inherited(f) = IF library.analysis = "out" THEN "library" ELSE "open"
        BY <1>2 DEF Inherited
    <2>2. \E g \in DependsOn(f) : g \notin Recorded
        BY <1>2
    <2> QED
        BY <1>2, <2>1, <2>2 DEF Verdicts
<1>3. CASE DependsOn(f) # {} /\ DependsOn(f) \subseteq Recorded
    <2>1. Inherited(f) =
            IF \E g \in DependsOn(f) : verdict[g] = "open" THEN "open"
            ELSE IF \A g \in DependsOn(f) : verdict[g] = "caller" THEN "caller"
            ELSE "library"
        BY <1>3 DEF Inherited
    <2>2. \A g \in DependsOn(f) : verdict[g] \in Verdicts
        BY <1>3 DEF TypeOK
    <2>3. CASE \E g \in DependsOn(f) : verdict[g] = "open"
        <3>1. Inherited(f) = "open"
            BY <2>1, <2>3
        <3> QED
            BY <2>3, <3>1 DEF Verdicts
    <2>4. CASE \A g \in DependsOn(f) : verdict[g] = "caller"
        <3>1. Inherited(f) = "caller"
            BY <1>3, <2>1, <2>4
        <3> QED
            BY <1>3, <2>4, <3>1 DEF Verdicts
    <2>5. CASE /\ ~ \E g \in DependsOn(f) : verdict[g] = "open"
               /\ ~ \A g \in DependsOn(f) : verdict[g] = "caller"
        <3>1. Inherited(f) = "library"
            BY <2>1, <2>5
        <3>2. \E g \in DependsOn(f) : verdict[g] = "library"
            BY <2>2, <2>5 DEF Verdicts
        <3> QED
            BY <2>5, <3>1, <3>2 DEF Verdicts
    <2> QED
        BY <2>3, <2>4, <2>5
<1> QED
    BY <1>1, <1>2, <1>3

\* What a visit decides is what the record says, or is inherited.
LEMMA SettledShape ==
    ASSUME TypeOK, InputRead, NEW f \in Recorded, verdict[f] = "open", SeedStands(f)
    PROVE  \/ Settled(f) = Seed(f) /\ Seed(f) # "open"
           \/ Settled(f) = Inherited(f) /\ Seed(f) = "open"
<1>1. CASE library.analysis = "out"
    <2>1. Seed(f) = OutSeed(f)
        BY <1>1 DEF Seed
    <2> QED
        BY <1>1, <2>1 DEF Settled
<1>2. CASE library.analysis # "out"
    <2>1. Seed(f) = "open"
        BY <1>2 DEF SeedStands
    <2> QED
        BY <1>2, <2>1 DEF Settled
<1> QED
    BY <1>1, <1>2

\* The evidence is closed: what a record decides for the caller, and what hands
\* on only traced results.
LEMMA TracedIsGrounded == Grounded(Traced)
<1> SUFFICES ASSUME NEW f \in Recorded, Seed(f) = "caller" \/ HandsOnFrom(f, Traced),
                    NEW S \in SUBSET Recorded, Grounded(S)
             PROVE  f \in S
    BY DEF Grounded, Traced
<1>1. Traced \subseteq S
    BY DEF Traced
<1>2. Seed(f) = "caller" \/ HandsOnFrom(f, S)
    BY <1>1 DEF HandsOnFrom
<1> QED
    BY <1>2 DEF Grounded

-----------------------------------------------------------------------------
(* The inductive invariant.                                                *)

\* Before the first pass the records have decided what they decide.
LEMMA InitVerdicts == Init => VerdictsInv
<1> SUFFICES ASSUME Init PROVE VerdictsInv
    OBVIOUS
<1>1. PICK family \in DOMAIN Libraries : library \in Libraries[family]
    BY DEF Init
<1>2. /\ order = Analysed(library.files, library.analysis)
      /\ records = [f \in Range(order) |->
                        Record(library.files, library.analysis, library.engine, f)]
      /\ phase = IF ManualInvalid \/ Unreadable THEN "raised" ELSE "classify"
      /\ verdict = [f \in Recorded |->
                        IF library.analysis = "out" \/ phase = "raised" THEN "open" ELSE Seed(f)]
      /\ next = 1 /\ changed = FALSE
    BY DEF Init
<1>3. library.analysis \in {"pointer", "string", "out"} /\ order \in Seq(Range(order))
    BY <1>1, <1>2, LibrariesAssumption
<1>4. Recorded = Range(order)
    BY <1>2 DEF Recorded
<1>5. Len(order) \in Nat
    BY <1>3
<1>6. ASSUME phase # "raised"
      PROVE  InputRead
    <2>1. ~ ManualInvalid
        BY <1>2, <1>6
    <2>2. ASSUME library.analysis = "out", NEW f \in Recorded
          PROVE  records[f].written \in {"alloc", "other", "nothing"}
        <3> DEFINE file == FileOf(library.files, f)
        <3>1. records[f] = Record(library.files, library.analysis, library.engine, f)
            BY <1>2, <1>4
        <3>2. Record(library.files, library.analysis, library.engine, f)
                = OutRecord(file[f], library.engine, file)
            BY <2>2 DEF Record
        <3> HIDE DEF file
        <3>3. \E o : OutRecord(file[f], library.engine, file).written = Written(file[f], o)
            BY DEF OutRecord
        <3>4. \A fn, o : Written(fn, o) \in {"alloc", "other", "nothing"}
            BY DEF Written
        <3> QED
            BY <3>1, <3>2, <3>3, <3>4
    <2> QED
        BY <2>1, <2>2 DEF InputRead
<1> DEFINE First(f) ==
        IF library.analysis = "out" \/ phase = "raised" THEN "open" ELSE Seed(f)
<1>7. \A f \in Recorded : verdict[f] = First(f)
    BY <1>2
<1>8. TypeOK
    <2>1. next \in 1 .. Len(order) + 1 /\ phase \in {"classify", "done", "raised"}
        BY <1>2, <1>5
    <2>2. ASSUME NEW f \in Recorded, phase # "raised"
          PROVE  Seed(f) \in Verdicts
        BY <1>3, <1>6, <2>2, SeedIsVerdict
    <2>3. \A f \in Recorded : First(f) \in Verdicts
        BY <2>2 DEF Verdicts
    <2>4. verdict \in [Recorded -> Verdicts]
        BY <1>2, <2>3
    <2> QED
        BY <1>1, <1>2, <1>3, <1>4, <2>1, <2>4 DEF TypeOK
<1>9. ASSUME phase # "raised", NEW f \in Recorded
      PROVE  SeedStands(f) /\ RefusalStands(f) /\ CallerTraced(f) /\ CallerGrounded(f)
    <2>1. verdict[f] = IF library.analysis = "out" THEN "open" ELSE Seed(f)
        BY <1>7, <1>9
    <2>2. verdict[f] # "open" => verdict[f] = Seed(f)
        BY <2>1
    <2>3. SeedStands(f)
        BY <2>1, <2>2 DEF SeedStands
    <2>4. RefusalStands(f)
        BY <2>2 DEF RefusalStands
    <2>5. CallerTraced(f)
        BY <2>2, TracedIsGrounded DEF CallerTraced, Grounded
    <2>6. CallerGrounded(f)
        BY <2>2 DEF CallerGrounded
    <2> QED
        BY <2>3, <2>4, <2>5, <2>6
<1>10. phase # "done"
    BY <1>2
<1>11. PassSettles
    <2>1. 1 .. next - 1 = {}
        BY <1>2
    <2> QED
        BY <1>10, <2>1 DEF PassSettles
<1>12. Extracted
    BY <1>2, <1>4 DEF Extracted
<1> QED
    BY <1>6, <1>8, <1>9, <1>10, <1>11, <1>12 DEF VerdictsInv

\* The input and the records never change, nor what is read off them alone.
LEMMA InputFixed ==
    ASSUME UNCHANGED <<library, order, records>>
    PROVE  /\ Recorded' = Recorded
           /\ \A f : Seed(f)' = Seed(f) /\ DependsOn(f)' = DependsOn(f)
           /\ Traced' = Traced /\ (InputRead' <=> InputRead) /\ (Extracted' <=> Extracted)
<1>1. library' = library /\ order' = order /\ records' = records
    OBVIOUS
<1>2. Recorded' = Recorded
    BY <1>1 DEF Recorded
<1>3. \A f : Seed(f)' = Seed(f)
    BY <1>1 DEF Seed, PointerSeed, StringSeed, OutSeed, Annotated
<1>4. \A f : DependsOn(f)' = DependsOn(f)
    BY <1>1 DEF DependsOn
<1>5. \A S : Grounded(S)' <=> Grounded(S)
    BY <1>2, <1>3, <1>4 DEF Grounded, HandsOnFrom
<1>6. Traced' = Traced
    BY <1>2, <1>5, Zenon DEF Traced
<1>7. InputRead' <=> InputRead
    BY <1>1, <1>2 DEF InputRead, ManualInvalid, Annotated
<1>8. Extracted' <=> Extracted
    BY <1>1, <1>2 DEF Extracted
<1> QED
    BY <1>2, <1>3, <1>4, <1>6, <1>7, <1>8

\* A visit that decides f has the record's word for it, or the callees'.
LEMMA DecisionKeeps ==
    ASSUME TypeOK, InputRead,
           \A g \in Recorded :
                SeedStands(g) /\ RefusalStands(g) /\ CallerTraced(g) /\ CallerGrounded(g),
           NEW f \in Recorded, verdict[f] = "open", Settled(f) # "open",
           verdict' = [verdict EXCEPT ![f] = Settled(f)],
           UNCHANGED <<library, order, records>>
    PROVE  /\ verdict' \in [Recorded -> Verdicts]
           /\ \A g \in Recorded :
                SeedStands(g)' /\ RefusalStands(g)' /\ CallerTraced(g)' /\ CallerGrounded(g)'
<1>1. verdict'[f] = Settled(f) /\ \A g \in Recorded \ {f} : verdict'[g] = verdict[g]
    BY DEF TypeOK
<1>2. \/ Settled(f) = Seed(f) /\ Seed(f) # "open"
      \/ Settled(f) = Inherited(f) /\ Seed(f) = "open"
    BY SettledShape
<1>3. /\ Recorded' = Recorded /\ Traced' = Traced /\ library' = library
      /\ \A g : Seed(g)' = Seed(g) /\ DependsOn(g)' = DependsOn(g)
    BY InputFixed
<1>4. Settled(f) \in Verdicts
    <2>1. library.analysis \in {"pointer", "string", "out"}
        BY LibrariesAssumption DEF TypeOK
    <2> QED
        BY <1>2, <2>1, SeedIsVerdict, InheritedShape
<1>5. verdict' \in [Recorded -> Verdicts]
    BY <1>4 DEF TypeOK
<1>6. \A g \in Recorded : verdict[g] # "open" => verdict'[g] = verdict[g]
    BY <1>1
<1>7. ASSUME NEW g \in Recorded
      PROVE  SeedStands(g)'
    BY <1>1, <1>2, <1>3, <1>7 DEF SeedStands
<1>8. ASSUME NEW g \in Recorded
      PROVE  RefusalStands(g)'
    <2>1. ASSUME verdict'[g] = "library", Seed(g) = "open"
          PROVE  \E h \in DependsOn(g) : h \in Recorded => verdict[h] = "library"
        <3>1. CASE g = f
            <4>1. Inherited(f) = "library"
                BY <1>1, <1>2, <2>1, <3>1
            <4> QED
                BY <3>1, <4>1, InheritedShape
        <3>2. CASE g # f
            BY <1>1, <2>1, <3>2 DEF RefusalStands
        <3> QED
            BY <3>1, <3>2
    <2> QED
        BY <1>3, <1>6, <2>1 DEF RefusalStands
<1>9. ASSUME NEW g \in Recorded
      PROVE  CallerTraced(g)'
    <2>1. ASSUME verdict'[g] = "caller"
          PROVE  g \in Traced
        <3>1. CASE g = f /\ Seed(f) = "caller"
            BY <3>1, TracedIsGrounded DEF Grounded
        <3>2. CASE g = f /\ Seed(f) # "caller"
            <4>1. Inherited(f) = "caller" /\ Seed(f) = "open"
                BY <1>1, <1>2, <2>1, <3>2
            <4>2. /\ DependsOn(f) # {} /\ DependsOn(f) \subseteq Recorded
                  /\ \A h \in DependsOn(f) : verdict[h] = "caller"
                BY <4>1, InheritedShape
            <4>3. DependsOn(f) \subseteq Traced
                BY <4>2 DEF CallerTraced
            <4>4. HandsOnFrom(f, Traced)
                BY <4>1, <4>2, <4>3 DEF HandsOnFrom
            <4> QED
                BY <3>2, <4>4, TracedIsGrounded DEF Grounded
        <3>3. CASE g # f
            BY <1>1, <2>1, <3>3 DEF CallerTraced
        <3> QED
            BY <3>1, <3>2, <3>3
    <2> QED
        BY <1>3, <2>1 DEF CallerTraced
<1>10. Callers \subseteq Callers'
    BY <1>3, <1>6 DEF Callers
<1>11. ASSUME NEW g \in Recorded
       PROVE  CallerGrounded(g)'
    <2>1. ASSUME verdict'[g] = "caller", Seed(g) # "caller"
          PROVE  HandsOnFrom(g, Callers)
        <3>1. CASE g = f
            <4>1. Inherited(f) = "caller" /\ Seed(f) = "open"
                BY <1>1, <1>2, <2>1, <3>1
            <4> QED
                BY <3>1, <4>1, InheritedShape DEF HandsOnFrom, Callers
        <3>2. CASE g # f
            BY <1>1, <2>1, <3>2 DEF CallerGrounded
        <3> QED
            BY <3>1, <3>2
    <2>2. HandsOnFrom(g, Callers) => HandsOnFrom(g, Callers)'
        BY <1>3, <1>10 DEF HandsOnFrom
    <2> QED
        BY <1>3, <2>1, <2>2 DEF CallerGrounded
<1> QED
    BY <1>5, <1>7, <1>8, <1>9, <1>11

\* One visit, and the end of one pass, keep the invariant.
LEMMA NextKeepsVerdicts == VerdictsInv /\ [Next]_vars => VerdictsInv'
<1> SUFFICES ASSUME VerdictsInv, [Next]_vars PROVE VerdictsInv'
    OBVIOUS
<1>1. library' = library /\ order' = order /\ records' = records
    BY DEF Next, Visit, EndRound, NextRound, Finish, vars
<1>2. /\ Recorded' = Recorded /\ Traced' = Traced /\ (InputRead' <=> InputRead) /\ Extracted'
      /\ \A f : Seed(f)' = Seed(f) /\ DependsOn(f)' = DependsOn(f)
    BY <1>1, InputFixed DEF VerdictsInv
<1>3. TypeOK /\ Len(order) \in Nat
    BY DEF VerdictsInv, TypeOK
<1>4. \A j \in 1 .. Len(order) : order[j] \in Recorded
    BY <1>3 DEF TypeOK
<1>5. CASE UNCHANGED vars
    <2>1. /\ verdict' = verdict /\ next' = next /\ changed' = changed /\ phase' = phase
          /\ facts' = facts
        BY <1>5 DEF vars
    <2>2. TypeOK'
        BY <1>1, <1>2, <1>3, <2>1 DEF TypeOK
    <2>3. ASSUME NEW f \in Recorded,
                 SeedStands(f), RefusalStands(f), CallerTraced(f), CallerGrounded(f)
          PROVE  SeedStands(f)' /\ RefusalStands(f)' /\ CallerTraced(f)' /\ CallerGrounded(f)'
        <3>1. SeedStands(f)' /\ RefusalStands(f)' /\ CallerTraced(f)'
            BY <1>1, <1>2, <2>1, <2>3 DEF SeedStands, RefusalStands, CallerTraced
        <3>2. CallerGrounded(f)'
            BY <1>2, <2>1, <2>3 DEF CallerGrounded, HandsOnFrom, Callers
        <3> QED
            BY <3>1, <3>2
    <2>4. \A f : Decided(f)' <=> Decided(f)
        BY <1>1, <1>2, <2>1 DEF Decided, Settled, OutSeed, Inherited
    <2>5. PassSettles => PassSettles'
        BY <1>1, <1>2, <2>1, <2>4 DEF PassSettles
    <2>6. Outcome' = Outcome
        BY <1>1, <1>2, <2>1 DEF Outcome, Reported, Annotated
    <2> QED
        BY <1>2, <2>1, <2>2, <2>3, <2>5, <2>6 DEF VerdictsInv
<1>6. ASSUME Next, UNCHANGED verdict
      PROVE  VerdictsInv'
    <2>1. phase = "classify" /\ phase' # "raised"
        BY <1>6 DEF Next, Visit, EndRound, NextRound, Finish
    <2>2. InputRead' /\ PassSettles
        BY <1>2, <2>1 DEF VerdictsInv
    <2>3. \A f \in Recorded :
            SeedStands(f)' /\ RefusalStands(f)' /\ CallerTraced(f)' /\ CallerGrounded(f)'
        <3> TAKE f \in Recorded
        <3>1. SeedStands(f) /\ RefusalStands(f) /\ CallerTraced(f) /\ CallerGrounded(f)
            BY <2>1 DEF VerdictsInv
        <3>2. SeedStands(f)' /\ RefusalStands(f)' /\ CallerTraced(f)'
            BY <1>1, <1>2, <1>6, <3>1 DEF SeedStands, RefusalStands, CallerTraced
        <3>3. CallerGrounded(f)'
            BY <1>2, <1>6, <3>1 DEF CallerGrounded, HandsOnFrom, Callers
        <3> QED
            BY <3>2, <3>3
    <2>4. \A f : Decided(f)' <=> Decided(f)
        BY <1>1, <1>2, <1>6 DEF Decided, Settled, OutSeed, Inherited
    <2>5. CASE Visit
        <3>1. /\ next \in 1 .. Len(order) /\ next' = next + 1
              /\ phase' = "classify" /\ changed' \in BOOLEAN
              /\ ~ changed' => ~ changed /\ Decided(order[next])
            <4>1. next \in DOMAIN order /\ next' = next + 1 /\ phase' = "classify"
                BY <2>1, <2>5 DEF Visit
            <4>2. \/ Decided(order[next]) /\ changed' = changed
                  \/ changed' = TRUE
                BY <2>5 DEF Visit, Decided
            <4>3. next \in 1 .. Len(order)
                BY <1>3, <4>1 DEF TypeOK
            <4>4. changed' \in BOOLEAN
                BY <1>3, <4>2 DEF TypeOK
            <4>5. ~ changed' => ~ changed /\ Decided(order[next])
                BY <4>2, Zenon
            <4> QED
                BY <4>1, <4>3, <4>4, <4>5
        <3>2. TypeOK'
            BY <1>1, <1>2, <1>3, <1>6, <3>1 DEF TypeOK
        <3>3. ~ changed' => \A j \in 1 .. next : Decided(order[j])
            BY <2>1, <2>2, <3>1 DEF PassSettles
        <3>4. PassSettles'
            BY <1>1, <2>4, <3>1, <3>3 DEF PassSettles
        <3> QED
            BY <1>2, <2>2, <2>3, <3>1, <3>2, <3>4 DEF VerdictsInv
    <2>6. CASE EndRound /\ NextRound
        <3>1. next' = 1 /\ changed' = FALSE /\ phase' = "classify"
            BY <2>1, <2>6 DEF NextRound
        <3>2. next' \in 1 .. Len(order) + 1 /\ 1 .. next' - 1 = {}
            BY <1>3, <3>1
        <3>3. TypeOK'
            BY <1>1, <1>2, <1>3, <1>6, <3>1, <3>2 DEF TypeOK
        <3>4. PassSettles'
            BY <3>1, <3>2 DEF PassSettles
        <3> QED
            BY <1>2, <2>2, <2>3, <3>1, <3>3, <3>4 DEF VerdictsInv
    <2>7. CASE EndRound /\ Finish
        <3>1. /\ next = Len(order) + 1 /\ next' = next /\ changed' = changed
              /\ phase' = "done" /\ facts' = Outcome
            BY <2>7 DEF EndRound, Finish
        <3>2. TypeOK'
            BY <1>1, <1>2, <1>3, <1>6, <3>1 DEF TypeOK
        <3>3. \A f \in Recorded : \E j \in 1 .. Len(order) : f = order[j]
            BY <1>3 DEF TypeOK, Range
        <3>4. ~ changed => \A f \in Recorded : Decided(f)
            BY <1>3, <2>1, <2>2, <3>1, <3>3 DEF PassSettles
        <3>5. PassSettles'
            BY <1>2, <2>4, <3>1, <3>4 DEF PassSettles
        <3>6. Outcome' = Outcome
            BY <1>1, <1>2, <1>6 DEF Outcome, Reported, Annotated
        <3> QED
            BY <1>2, <2>2, <2>3, <3>1, <3>2, <3>5, <3>6 DEF VerdictsInv
    <2> QED
        BY <1>6, <2>5, <2>6, <2>7 DEF Next, EndRound
<1>7. ASSUME Next, ~ UNCHANGED verdict
      PROVE  VerdictsInv'
    <2>1. Visit
        BY <1>7 DEF Next, EndRound, NextRound, Finish
    <2> DEFINE f == order[next]
    <2>2. /\ phase = "classify" /\ phase' = phase /\ next \in DOMAIN order /\ next' = next + 1
          /\ verdict[f] = "open" /\ Settled(f) # "open"
          /\ verdict' = [verdict EXCEPT ![f] = Settled(f)] /\ changed' = TRUE
        BY <1>7, <2>1 DEF Visit
    <2>3. next \in 1 .. Len(order) /\ f \in Recorded
        BY <1>3, <1>4, <2>2 DEF TypeOK
    <2> HIDE DEF f
    <2>4. InputRead /\ \A g \in Recorded :
                SeedStands(g) /\ RefusalStands(g) /\ CallerTraced(g) /\ CallerGrounded(g)
        BY <2>2 DEF VerdictsInv
    <2>5. /\ verdict' \in [Recorded -> Verdicts]
          /\ \A g \in Recorded :
                SeedStands(g)' /\ RefusalStands(g)' /\ CallerTraced(g)' /\ CallerGrounded(g)'
        BY <1>1, <1>3, <2>2, <2>3, <2>4, DecisionKeeps
    <2>6. TypeOK'
        BY <1>1, <1>2, <1>3, <2>2, <2>3, <2>5 DEF TypeOK
    <2>7. PassSettles'
        BY <2>2 DEF PassSettles
    <2> QED
        BY <1>2, <2>2, <2>4, <2>5, <2>6, <2>7 DEF VerdictsInv
<1> QED
    BY <1>5, <1>6, <1>7

-----------------------------------------------------------------------------
(* What the passes settle.                                                 *)

\* The invariant of the three analyses.
THEOREM VerdictsInvariant == Spec => []VerdictsInv
<1> QED
    BY InitVerdicts, NextKeepsVerdicts, PTL DEF Spec

\* Every verdict for the caller leads to an allocation, a transfer or an
\* annotation, the cap on the passes notwithstanding; and every function that
\* hands something out, or that is annotated, gets a verdict (rules 1 to 5).
THEOREM OwnershipHasEvidence == Spec => []OwnedIsTraced
<1>1. VerdictsInv => OwnedIsTraced
    <2> SUFFICES ASSUME VerdictsInv, phase = "done", NEW f \in Reported \cup DOMAIN Annotated
                 PROVE  f \in DOMAIN facts /\ (facts[f] = "caller" => f \in OwnedByEvidence)
        BY DEF OwnedIsTraced
    <2>1. facts = Outcome
        BY DEF VerdictsInv
    <2>2. CASE f \in Recorded
        <3>1. f \in DOMAIN facts
              /\ facts[f] = IF verdict[f] = "open" THEN "library" ELSE verdict[f]
            BY <2>1, <2>2 DEF Outcome
        <3>2. CallerTraced(f)
            BY <2>2 DEF VerdictsInv
        <3> QED
            BY <3>1, <3>2 DEF CallerTraced, OwnedByEvidence
    <2>3. CASE f \notin Recorded
        <3>1. f \in DOMAIN Annotated
            BY <2>3 DEF Reported
        <3>2. f \in DOMAIN facts /\ facts[f] = Annotated[f]
            BY <2>1, <2>3 DEF Outcome
        <3> QED
            BY <2>3, <3>1, <3>2 DEF OwnedByEvidence
    <2> QED
        BY <2>2, <2>3
<1> QED
    BY <1>1, VerdictsInvariant, PTL

\* A result whose last pass changed nothing misses no function that evidence
\* makes the caller's, in whatever order the records came (classify_ownership,
\* classify_string_ownership, classify_out_handles).
THEOREM ConvergedOwnershipIsComplete == Spec => []ConvergedIsComplete
<1>1. VerdictsInv => ConvergedIsComplete
    <2> SUFFICES ASSUME VerdictsInv, phase = "done", ~ changed,
                        NEW f \in OwnedByEvidence, f \in Reported \cup DOMAIN Annotated
                 PROVE  facts[f] = "caller"
        BY DEF ConvergedIsComplete
    <2> DEFINE S == {g \in Recorded : verdict[g] = "caller"}
    <2>1. /\ TypeOK /\ InputRead /\ facts = Outcome
          /\ \A g \in Recorded : SeedStands(g) /\ RefusalStands(g) /\ Decided(g)
        BY DEF VerdictsInv, PassSettles
    <2>2. ASSUME NEW g \in Recorded, Seed(g) = "caller" \/ HandsOnFrom(g, S)
          PROVE  verdict[g] = "caller"
        <3>1. CASE Seed(g) = "caller"
            <4>1. ASSUME verdict[g] = "open" PROVE FALSE
                <5>1. Settled(g) = "caller"
                    BY <2>1, <3>1, <4>1, SettledShape
                <5> QED
                    BY <2>1, <4>1, <5>1 DEF Decided
            <4> QED
                BY <2>1, <3>1, <4>1 DEF SeedStands
        <3>2. CASE HandsOnFrom(g, S)
            <4>1. /\ Seed(g) = "open" /\ DependsOn(g) # {} /\ DependsOn(g) \subseteq Recorded
                  /\ \A h \in DependsOn(g) : verdict[h] = "caller"
                BY <3>2 DEF HandsOnFrom
            <4>2. verdict[g] # "library"
                BY <2>1, <4>1 DEF RefusalStands
            <4>3. Inherited(g) = "caller"
                BY <2>1, <4>1, InheritedShape
            <4>4. ASSUME verdict[g] = "open" PROVE FALSE
                <5>1. Settled(g) = "caller"
                    BY <2>1, <4>1, <4>3, <4>4, SettledShape
                <5> QED
                    BY <2>1, <4>4, <5>1 DEF Decided
            <4> QED
                BY <2>1, <4>2, <4>4 DEF TypeOK, Verdicts
        <3> QED
            BY <2>2, <3>1, <3>2
    <2>3. Grounded(S)
        BY <2>2 DEF Grounded
    <2>4. Traced \subseteq S
        BY <2>3 DEF Traced
    <2>5. CASE f \in Recorded
        <3>1. verdict[f] = "caller"
            BY <2>4, <2>5 DEF OwnedByEvidence
        <3> QED
            BY <2>1, <2>5, <3>1 DEF Outcome
    <2>6. CASE f \notin Recorded
        <3>1. f \in DOMAIN Annotated /\ Annotated[f] = "caller"
            BY <2>6 DEF OwnedByEvidence, Traced
        <3> QED
            BY <2>1, <2>6, <3>1 DEF Outcome
    <2> QED
        BY <2>5, <2>6
<1> QED
    BY <1>1, VerdictsInvariant, PTL

-----------------------------------------------------------------------------
(* What the bodies do when they run, and what the walks over them hold for *)
(* true. Both are recursive functions: each is shown to satisfy its        *)
(* equation, by looking at the least statement where it would not.         *)

\* Induction up to a bound.
LEMMA UpTo ==
    ASSUME NEW n \in Nat, NEW S, 0 \in S, \A i \in 1 .. n : i - 1 \in S => i \in S
    PROVE  \A i \in 0 .. n : i \in S
<1> DEFINE Bad == {i \in 0 .. n : i \notin S}
<1> SUFFICES ASSUME Bad # {} PROVE FALSE
    OBVIOUS
<1>1. Bad \in SUBSET Nat
    OBVIOUS
<1>2. PICK m \in Bad : \A k \in Bad : ~ (k < m)
    <2> HIDE DEF Bad
    <2> QED
        BY <1>1, LeastElement
<1>3. m # 0
    BY <1>2
<1>4. m - 1 \in 0 .. n /\ m - 1 < m
    BY <1>2, <1>3
<1>5. m - 1 \in S
    BY <1>2, <1>4
<1> QED
    BY <1>2, <1>3, <1>4, <1>5

\* f holds the states of an execution up to statement n.
ExecutionUpTo(f, fn, owned, taken, n) ==
    f = [i \in 0 .. n |-> IF i = 0 THEN Entered ELSE Step(fn, owned, taken, f[i - 1], i)]

\* For every body there is such a function, whatever branches are taken.
LEMMA ExecutionExists ==
    ASSUME NEW fn, NEW owned, NEW taken, NEW n \in Nat
    PROVE  \E f : ExecutionUpTo(f, fn, owned, taken, n)
<1> DEFINE S == {m \in Nat : \E f : ExecutionUpTo(f, fn, owned, taken, m)}
<1>1. 0 \in S
    <2>1. ExecutionUpTo([i \in 0 .. 0 |-> Entered], fn, owned, taken, 0)
        BY DEF ExecutionUpTo
    <2> QED
        BY <2>1
<1>2. ASSUME NEW m \in 1 .. n, m - 1 \in S
      PROVE  m \in S
    <2>1. PICK g : ExecutionUpTo(g, fn, owned, taken, m - 1)
        BY <1>2
    <2> DEFINE h == [i \in 0 .. m |-> IF i = m THEN Step(fn, owned, taken, g[m - 1], m) ELSE g[i]]
    <2>2. ASSUME NEW i \in 0 .. m
          PROVE  h[i] = IF i = 0 THEN Entered ELSE Step(fn, owned, taken, h[i - 1], i)
        <3>1. CASE i = 0
            BY <2>1, <3>1 DEF ExecutionUpTo
        <3>2. CASE i # 0
            <4>1. h[i - 1] = g[i - 1]
                BY <3>2
            <4> QED
                BY <2>1, <3>2, <4>1 DEF ExecutionUpTo
        <3> QED
            BY <3>1, <3>2
    <2>3. ExecutionUpTo(h, fn, owned, taken, m)
        BY <2>2 DEF ExecutionUpTo
    <2> QED
        BY <2>3
<1> HIDE DEF S
<1>3. n \in S
    BY <1>1, <1>2, UpTo
<1> QED
    BY <1>3 DEF S

\* So StatesAfter, which a recursive function defines, satisfies its equation.
LEMMA StatesRecursion ==
    ASSUME NEW fn, Len(fn.body) \in Nat, NEW owned, NEW taken
    PROVE  /\ StatesAfter(fn, owned, taken)[0] = Entered
           /\ \A i \in 1 .. Len(fn.body) :
                StatesAfter(fn, owned, taken)[i]
                    = Step(fn, owned, taken, StatesAfter(fn, owned, taken)[i - 1], i)
<1> DEFINE f == StatesAfter(fn, owned, taken)
<1>1. f = CHOOSE g : ExecutionUpTo(g, fn, owned, taken, Len(fn.body))
    BY DEF StatesAfter, ExecutionUpTo
<1>2. ExecutionUpTo(f, fn, owned, taken, Len(fn.body))
    BY <1>1, ExecutionExists
<1> HIDE DEF f
<1>3. f[0] = Entered
    BY <1>2 DEF ExecutionUpTo
<1>4. \A i \in 1 .. Len(fn.body) : f[i] = Step(fn, owned, taken, f[i - 1], i)
    BY <1>2 DEF ExecutionUpTo
<1> QED
    BY <1>3, <1>4 DEF f

\* The same for the walk that collects origins, and the one that collects
\* allocations.
OriginsUpTo(f, fn, engine, n) ==
    f = [i \in 0 .. n |-> IF i = 0 THEN <<>> ELSE Learn(fn, engine, f[i - 1], fn.body[i])]

\* For every body there is such a function of origins.
LEMMA OriginsExist ==
    ASSUME NEW fn, NEW engine, NEW n \in Nat
    PROVE  \E f : OriginsUpTo(f, fn, engine, n)
<1> DEFINE S == {m \in Nat : \E f : OriginsUpTo(f, fn, engine, m)}
<1>1. 0 \in S
    <2>1. OriginsUpTo([i \in 0 .. 0 |-> <<>>], fn, engine, 0)
        BY DEF OriginsUpTo
    <2> QED
        BY <2>1
<1>2. ASSUME NEW m \in 1 .. n, m - 1 \in S
      PROVE  m \in S
    <2>1. PICK g : OriginsUpTo(g, fn, engine, m - 1)
        BY <1>2
    <2> DEFINE h == [i \in 0 .. m |-> IF i = m THEN Learn(fn, engine, g[m - 1], fn.body[m]) ELSE g[i]]
    <2>2. ASSUME NEW i \in 0 .. m
          PROVE  h[i] = IF i = 0 THEN <<>> ELSE Learn(fn, engine, h[i - 1], fn.body[i])
        <3>1. CASE i = 0
            BY <2>1, <3>1 DEF OriginsUpTo
        <3>2. CASE i # 0
            <4>1. h[i - 1] = g[i - 1]
                BY <3>2
            <4> QED
                BY <2>1, <3>2, <4>1 DEF OriginsUpTo
        <3> QED
            BY <3>1, <3>2
    <2>3. OriginsUpTo(h, fn, engine, m)
        BY <2>2 DEF OriginsUpTo
    <2> QED
        BY <2>3
<1> HIDE DEF S
<1>3. n \in S
    BY <1>1, <1>2, UpTo
<1> QED
    BY <1>3 DEF S

\* So the walk that collects origins learns from one statement at a time.
LEMMA OriginsRecursion ==
    ASSUME NEW fn, Len(fn.body) \in Nat, NEW engine
    PROVE  /\ OriginsAfter(fn, engine)[0] = <<>>
           /\ \A i \in 1 .. Len(fn.body) :
                OriginsAfter(fn, engine)[i]
                    = Learn(fn, engine, OriginsAfter(fn, engine)[i - 1], fn.body[i])
<1> DEFINE f == OriginsAfter(fn, engine)
<1>1. f = CHOOSE g : OriginsUpTo(g, fn, engine, Len(fn.body))
    BY DEF OriginsAfter, OriginsUpTo
<1>2. OriginsUpTo(f, fn, engine, Len(fn.body))
    BY <1>1, OriginsExist
<1> HIDE DEF f
<1>3. f[0] = <<>>
    BY <1>2 DEF OriginsUpTo
<1>4. \A i \in 1 .. Len(fn.body) : f[i] = Learn(fn, engine, f[i - 1], fn.body[i])
    BY <1>2 DEF OriginsUpTo
<1> QED
    BY <1>3, <1>4 DEF f

NoLocals == {}
AllocatedUpTo(f, fn, n) ==
    f = [i \in 0 .. n |-> IF i = 0 THEN NoLocals ELSE Gather(f[i - 1], fn.body[i])]

\* For every body there is such a function of allocations.
LEMMA AllocatedExists ==
    ASSUME NEW fn, NEW n \in Nat
    PROVE  \E f : AllocatedUpTo(f, fn, n)
<1> DEFINE S == {m \in Nat : \E f : AllocatedUpTo(f, fn, m)}
<1>1. 0 \in S
    <2>1. AllocatedUpTo([i \in 0 .. 0 |-> NoLocals], fn, 0)
        BY DEF AllocatedUpTo
    <2> QED
        BY <2>1
<1>2. ASSUME NEW m \in 1 .. n, m - 1 \in S
      PROVE  m \in S
    <2>1. PICK g : AllocatedUpTo(g, fn, m - 1)
        BY <1>2
    <2> DEFINE h == [i \in 0 .. m |-> IF i = m THEN Gather(g[m - 1], fn.body[m]) ELSE g[i]]
    <2>2. ASSUME NEW i \in 0 .. m
          PROVE  h[i] = IF i = 0 THEN NoLocals ELSE Gather(h[i - 1], fn.body[i])
        <3>1. CASE i = 0
            BY <2>1, <3>1 DEF AllocatedUpTo
        <3>2. CASE i # 0
            <4>1. h[i - 1] = g[i - 1]
                BY <3>2
            <4> QED
                BY <2>1, <3>2, <4>1 DEF AllocatedUpTo
        <3> QED
            BY <3>1, <3>2
    <2>3. AllocatedUpTo(h, fn, m)
        BY <2>2 DEF AllocatedUpTo
    <2> QED
        BY <2>3
<1> HIDE DEF S
<1>3. n \in S
    BY <1>1, <1>2, UpTo
<1> QED
    BY <1>3 DEF S

\* So the walk that collects allocations gathers from one statement at a time.
LEMMA AllocatedRecursion ==
    ASSUME NEW fn, Len(fn.body) \in Nat
    PROVE  /\ AllocatedAfter(fn)[0] = {}
           /\ \A i \in 1 .. Len(fn.body) :
                AllocatedAfter(fn)[i]
                    = Gather(AllocatedAfter(fn)[i - 1], fn.body[i])
<1> DEFINE f == AllocatedAfter(fn)
<1>1. f = CHOOSE g : AllocatedUpTo(g, fn, Len(fn.body))
    BY DEF AllocatedAfter, AllocatedUpTo, NoLocals
<1>2. AllocatedUpTo(f, fn, Len(fn.body))
    BY <1>1, AllocatedExists
<1> HIDE DEF f
<1>3. f[0] = {}
    BY <1>2 DEF AllocatedUpTo, NoLocals
<1>4. \A i \in 1 .. Len(fn.body) : f[i] = Gather(f[i - 1], fn.body[i])
    BY <1>2 DEF AllocatedUpTo
<1> QED
    BY <1>3, <1>4 DEF f

-----------------------------------------------------------------------------
(* The states of an execution.                                             *)

After(fn, owned, taken, i) == StatesAfter(fn, owned, taken)[i]

\* The execution gets to statement i.
Runs(fn, owned, taken, i) ==
    /\ ~ After(fn, owned, taken, i - 1).returned
    /\ fn.body[i].branch => i \in taken

\* What statement i's expression is worth to it.
Got(fn, owned, taken, i) ==
    Value(After(fn, owned, taken, i - 1), owned, fn.body[i].from, i, "result")

\* The body of a C function is a sequence of statements of C.
LEMMA BodyShape ==
    ASSUME NEW fn, NEW analysis, WellFormed(fn, analysis)
    PROVE  /\ Len(fn.body) \in Nat /\ DOMAIN fn.body = 1 .. Len(fn.body)
           /\ \A i \in 1 .. Len(fn.body) : StatementOfC(fn.body[i]) /\ fn.body[i] \in Range(fn.body)
<1>1. fn.body \in Seq(Range(fn.body)) /\ \A s \in Range(fn.body) : StatementOfC(s)
    BY DEF WellFormed
<1>2. DOMAIN fn.body = 1 .. Len(fn.body) /\ Len(fn.body) \in Nat
    BY <1>1
<1>3. \A i \in DOMAIN fn.body : fn.body[i] \in Range(fn.body)
    BY DEF Range
<1> QED
    BY <1>1, <1>2, <1>3

\* A statement is executed, or skipped: it is on a branch that is not taken, or
\* comes after a return.
LEMMA StepAt ==
    ASSUME NEW fn, Len(fn.body) \in Nat, NEW owned, NEW taken
    PROVE  /\ After(fn, owned, taken, 0) = Entered
           /\ \A i \in 1 .. Len(fn.body) :
                After(fn, owned, taken, i)
                    = IF Runs(fn, owned, taken, i)
                      THEN Execute(fn, owned, After(fn, owned, taken, i - 1), i)
                      ELSE After(fn, owned, taken, i - 1)
<1>1. After(fn, owned, taken, 0) = Entered
    BY StatesRecursion DEF After
<1>2. ASSUME NEW i \in 1 .. Len(fn.body)
      PROVE  After(fn, owned, taken, i)
                    = IF Runs(fn, owned, taken, i)
                      THEN Execute(fn, owned, After(fn, owned, taken, i - 1), i)
                      ELSE After(fn, owned, taken, i - 1)
    <2>1. After(fn, owned, taken, i) = Step(fn, owned, taken, After(fn, owned, taken, i - 1), i)
        BY StatesRecursion DEF After
    <2> QED
        BY <2>1 DEF Step, Runs
<1> QED
    BY <1>1, <1>2

\* Every local holds what the statement that gave it its value got.
LocalsGivenAt(fn, owned, taken, i) ==
    \A y \in DOMAIN After(fn, owned, taken, i).env : \E j \in 1 .. i :
        /\ Runs(fn, owned, taken, j) /\ AssignsTo(fn.body[j], y)
        /\ After(fn, owned, taken, i).env[y] = Got(fn, owned, taken, j)

\* Whatever a local holds was assigned to it by a statement that ran.
LEMMA LocalsGiven ==
    ASSUME NEW fn, Len(fn.body) \in Nat, NEW owned, NEW taken
    PROVE  \A i \in 0 .. Len(fn.body) : LocalsGivenAt(fn, owned, taken, i)
<1> DEFINE S == {i \in 0 .. Len(fn.body) : LocalsGivenAt(fn, owned, taken, i)}
<1>1. 0 \in S
    <2>1. After(fn, owned, taken, 0).env = <<>>
        BY StepAt DEF Entered
    <2>2. DOMAIN After(fn, owned, taken, 0).env = {}
        BY <2>1
    <2> QED
        BY <2>2 DEF LocalsGivenAt
<1>2. ASSUME NEW i \in 1 .. Len(fn.body), i - 1 \in S
      PROVE  i \in S
    <2> DEFINE st == After(fn, owned, taken, i - 1)
               end == After(fn, owned, taken, i)
               s == fn.body[i]
    <2> SUFFICES LocalsGivenAt(fn, owned, taken, i)
        OBVIOUS
    <2>1. LocalsGivenAt(fn, owned, taken, i - 1)
        BY <1>2
    <2>2. CASE end.env = st.env
        BY <2>1, <2>2 DEF LocalsGivenAt
    <2>3. CASE end.env # st.env
        <3>1. Runs(fn, owned, taken, i) /\ end = Execute(fn, owned, st, i)
            BY <2>3, StepAt
        <3>2. Got(fn, owned, taken, i) = Value(st, owned, fn.body[i].from, i, "result")
            BY DEF Got
        <3>3. /\ Assigns(s) /\ s.to.is = "ref"
              /\ end.env = Bind(st.env, s.to.name, Got(fn, owned, taken, i))
            <4> HIDE DEF end, st
            <4> QED
                BY <2>3, <3>1, <3>2 DEF Execute, s
        <3>4. /\ DOMAIN end.env = DOMAIN st.env \cup {s.to.name}
              /\ end.env[s.to.name] = Got(fn, owned, taken, i)
              /\ \A y \in DOMAIN st.env : y # s.to.name => end.env[y] = st.env[y]
            <4> HIDE DEF end, st, s
            <4> QED
                BY <3>3 DEF Bind
        <3>5. AssignsTo(s, s.to.name)
            BY <3>3 DEF AssignsTo
        <3> HIDE DEF st, end, s
        <3>6. ASSUME NEW y \in DOMAIN end.env
              PROVE  \E j \in 1 .. i :
                        /\ Runs(fn, owned, taken, j) /\ AssignsTo(fn.body[j], y)
                        /\ end.env[y] = Got(fn, owned, taken, j)
            <4>1. CASE y = s.to.name
                BY <3>1, <3>4, <3>5, <4>1 DEF s
            <4>2. CASE y # s.to.name
                BY <2>1, <3>4, <4>2 DEF LocalsGivenAt, st
            <4> QED
                BY <4>1, <4>2
        <3> QED
            BY <3>6 DEF LocalsGivenAt, end
    <2> QED
        BY <2>2, <2>3
<1> HIDE DEF S
<1>3. \A i \in 0 .. Len(fn.body) : i \in S
    BY <1>1, <1>2, UpTo
<1> QED
    BY <1>3 DEF S

\* A return ends the execution.
ReturnedAt(fn, owned, taken, i) ==
    LET end == After(fn, owned, taken, i) IN
    IF end.returned
    THEN \E j \in 1 .. i :
            /\ Runs(fn, owned, taken, j) /\ fn.body[j].do = "return"
            /\ end.result = Got(fn, owned, taken, j)
    ELSE end.result = NullValue

\* The result is what the one return that ran got, or NULL.
LEMMA ResultGiven ==
    ASSUME NEW fn, Len(fn.body) \in Nat, NEW owned, NEW taken
    PROVE  \A i \in 0 .. Len(fn.body) : ReturnedAt(fn, owned, taken, i)
<1> DEFINE S == {i \in 0 .. Len(fn.body) : ReturnedAt(fn, owned, taken, i)}
<1>1. 0 \in S
    BY StepAt DEF Entered, ReturnedAt
<1>2. ASSUME NEW i \in 1 .. Len(fn.body), i - 1 \in S
      PROVE  i \in S
    <2> DEFINE st == After(fn, owned, taken, i - 1)
               end == After(fn, owned, taken, i)
    <2> SUFFICES ReturnedAt(fn, owned, taken, i)
        OBVIOUS
    <2>1. ReturnedAt(fn, owned, taken, i - 1)
        BY <1>2
    <2>2. CASE ~ Runs(fn, owned, taken, i)
        <3>1. end = st
            BY <2>2, StepAt
        <3> HIDE DEF end, st
        <3>2. CASE st.returned
            BY <2>1, <3>1, <3>2 DEF ReturnedAt, end, st
        <3>3. CASE ~ st.returned
            BY <2>1, <3>1, <3>3 DEF ReturnedAt, end, st
        <3> QED
            BY <3>2, <3>3
    <2>3. CASE Runs(fn, owned, taken, i)
        <3>1. end = Execute(fn, owned, st, i) /\ ~ st.returned
            BY <2>3, StepAt DEF Runs
        <3>2. /\ fn.body[i].do = "return" => end.result = Got(fn, owned, taken, i) /\ end.returned
              /\ fn.body[i].do # "return" => end.result = st.result /\ (end.returned <=> st.returned)
            <4>1. Got(fn, owned, taken, i) = Value(st, owned, fn.body[i].from, i, "result")
                BY DEF Got
            <4> HIDE DEF end, st
            <4> QED
                BY <3>1, <4>1 DEF Execute
        <3>3. st.result = NullValue
            BY <2>1, <3>1 DEF ReturnedAt
        <3> HIDE DEF end, st
        <3>4. CASE fn.body[i].do = "return"
            BY <2>3, <3>2, <3>4 DEF ReturnedAt, end
        <3>5. CASE fn.body[i].do # "return"
            BY <3>1, <3>2, <3>3, <3>5 DEF ReturnedAt, end
        <3> QED
            BY <3>4, <3>5
    <2> QED
        BY <2>2, <2>3
<1> HIDE DEF S
<1>3. \A i \in 0 .. Len(fn.body) : i \in S
    BY <1>1, <1>2, UpTo
<1> QED
    BY <1>3 DEF S

-----------------------------------------------------------------------------
(* Ways to an object: a local that holds it, a structure that keeps it.    *)

\* Nothing leads to v but the locals of X.
Confined(st, v, X) ==
    /\ v \notin st.kept
    /\ \A k \in DOMAIN st.fields : st.fields[k] # v
    /\ \A y \in DOMAIN st.env : st.env[y] = v => y \in X

\* Statement i leaves it so.
Contained(fn, owned, st, i, v, X) ==
    LET s == fn.body[i] IN
    /\ Value(st, owned, s.from, i, "result") = v =>
            ~ Assigns(s) \/ WritesOut(fn, s) \/ (s.to.is = "ref" /\ s.to.name \in X)
    /\ \A c \in CallsIn(s.from) : Keeps(st, owned, c, i) => v \notin Passed(st, owned, c, i)

\* An object the body obtains is none that the caller or the library knows of,
\* and no two statements obtain the same.
LEMMA NewDiffers ==
    ASSUME NEW k, NEW how
    PROVE  /\ New(k, how) # NullValue /\ New(k, how) # Literal
           /\ \A p : New(k, how) # Arg(p)
           /\ \A i, h : New(k, how) # Lent(i, h)
           /\ \A p, f : New(k, how) # Initial(p, f)
           /\ \A i, h : New(i, h) = New(k, how) => i = k /\ h = how
BY DEF NullValue, Literal, New, Lent, Arg, Initial

\* Such a statement opens no new way to v.
LEMMA ExecuteConfines ==
    ASSUME NEW fn, NEW owned, NEW st, NEW i, NEW v, NEW X,
           Confined(st, v, X), Contained(fn, owned, st, i, v, X)
    PROVE  Confined(Execute(fn, owned, st, i), v, X)
<1> DEFINE s == fn.body[i]
           got == Value(st, owned, s.from, i, "result")
           end == Execute(fn, owned, st, i)
<1>1. v \notin end.kept
    <2> DEFINE kept == {c \in CallsIn(s.from) : Keeps(st, owned, c, i)}
    <2>1. end.kept = st.kept \cup PassedTo(st, owned, kept, i)
                        \cup (IF WritesElsewhere(fn, st, s) THEN {got} ELSE {})
        BY DEF Execute
    <2>2. v \notin PassedTo(st, owned, kept, i)
        BY DEF Contained, PassedTo
    <2>3. v \notin (IF WritesElsewhere(fn, st, s) THEN {got} ELSE {})
        <3>1. WritesElsewhere(fn, st, s) => Assigns(s) /\ ~ WritesOut(fn, s) /\ s.to.is # "ref"
            BY DEF WritesElsewhere
        <3> QED
            BY <3>1 DEF Contained
    <2>4. v \notin st.kept
        BY DEF Confined
    <2> HIDE DEF end, kept, got, s
    <2> QED
        BY <2>1, <2>2, <2>3, <2>4
<1>2. \A k \in DOMAIN end.fields : end.fields[k] # v
    <2>1. CASE WritesField(st, s)
        <3>1. end.fields = Bind(st.fields, <<Held(st, s.to.name)[2], s.to.path>>, got)
            BY <2>1 DEF Execute
        <3>2. got # v
            BY <2>1 DEF Contained, WritesField, WritesOut
        <3>3. \A k \in DOMAIN st.fields : st.fields[k] # v
            BY DEF Confined
        <3> HIDE DEF end, got, s
        <3> QED
            BY <3>1, <3>2, <3>3 DEF Bind
    <2>2. CASE ~ WritesField(st, s)
        BY <2>2 DEF Execute, Confined
    <2> QED
        BY <2>1, <2>2
<1>3. \A y \in DOMAIN end.env : end.env[y] = v => y \in X
    <2>1. CASE Assigns(s) /\ s.to.is = "ref"
        <3>1. end.env = Bind(st.env, s.to.name, got)
            BY <2>1 DEF Execute
        <3>2. got = v => s.to.name \in X
            BY <2>1 DEF Contained, WritesOut
        <3>3. \A y \in DOMAIN st.env : st.env[y] = v => y \in X
            BY DEF Confined
        <3> HIDE DEF end, got, s
        <3> QED
            BY <3>1, <3>2, <3>3 DEF Bind
    <2>2. CASE ~ (Assigns(s) /\ s.to.is = "ref")
        BY <2>2 DEF Execute, Confined
    <2> QED
        BY <2>1, <2>2
<1> QED
    BY <1>1, <1>2, <1>3 DEF Confined

ConfinedThroughout(fn, owned, taken, v, X) ==
    \A i \in 0 .. Len(fn.body) : Confined(After(fn, owned, taken, i), v, X)

\* A body of such statements never does.
LEMMA StaysConfined ==
    ASSUME NEW fn, Len(fn.body) \in Nat, NEW owned, NEW taken, NEW v, NEW X,
           \A i \in 1 .. Len(fn.body) :
                /\ Runs(fn, owned, taken, i)
                /\ Confined(After(fn, owned, taken, i - 1), v, X)
                => Contained(fn, owned, After(fn, owned, taken, i - 1), i, v, X)
    PROVE  ConfinedThroughout(fn, owned, taken, v, X)
<1> DEFINE S == {i \in 0 .. Len(fn.body) : Confined(After(fn, owned, taken, i), v, X)}
<1>1. 0 \in S
    <2>1. After(fn, owned, taken, 0) = Entered
        BY StepAt
    <2>2. Confined(Entered, v, X)
        BY DEF Confined, Entered
    <2> QED
        BY <2>1, <2>2
<1>2. ASSUME NEW i \in 1 .. Len(fn.body), i - 1 \in S
      PROVE  i \in S
    <2>1. Confined(After(fn, owned, taken, i - 1), v, X)
        BY <1>2
    <2>2. CASE ~ Runs(fn, owned, taken, i)
        BY <2>1, <2>2, StepAt
    <2>3. CASE Runs(fn, owned, taken, i)
        <3>1. Contained(fn, owned, After(fn, owned, taken, i - 1), i, v, X)
            BY <2>1, <2>3
        <3>2. Confined(Execute(fn, owned, After(fn, owned, taken, i - 1), i), v, X)
            BY <2>1, <3>1, ExecuteConfines
        <3>3. After(fn, owned, taken, i) = Execute(fn, owned, After(fn, owned, taken, i - 1), i)
            BY <2>3, StepAt
        <3> QED
            BY <3>2, <3>3
    <2> QED
        BY <2>2, <2>3
<1> HIDE DEF S
<1>3. \A i \in 0 .. Len(fn.body) : i \in S
    BY <1>1, <1>2, UpTo
<1> QED
    BY <1>3 DEF S, ConfinedThroughout

\* A local the expression names, or the call that yields it, is the only way
\* to an object the body obtained.
LEMMA FreshSource ==
    ASSUME NEW st, NEW owned, NEW e, NEW i, NEW h, NEW k, NEW how, NEW X,
           e.is \in Simple \cup {"call"},
           Confined(st, New(k, how), X), Value(st, owned, e, i, h) = New(k, how)
    PROVE  \/ e.is = "ref" /\ e.name \in X
           \/ e.is = "call" /\ i = k /\ h = how /\ e.callee \in Allocators \cup owned
<1>1. CASE e.is = "null"
    <2>1. Value(st, owned, e, i, h) = NullValue
        BY <1>1 DEF Value
    <2> QED
        BY <2>1, NewDiffers
<1>2. CASE e.is = "text"
    <2>1. Value(st, owned, e, i, h) = Literal
        BY <1>2 DEF Value
    <2> QED
        BY <2>1, NewDiffers
<1>3. CASE e.is = "ref"
    <2>1. Held(st, e.name) = New(k, how)
        BY <1>3 DEF Value
    <2>2. e.name \in DOMAIN st.env
        BY <2>1, NewDiffers DEF Held
    <2>3. st.env[e.name] = New(k, how)
        BY <2>1, <2>2 DEF Held
    <2> QED
        BY <1>3, <2>2, <2>3 DEF Confined
<1>4. CASE e.is = "deref"
    <2>1. Value(st, owned, e, i, h) = Lent(i, h)
        BY <1>4 DEF Value
    <2>2. Lent(i, h) # New(k, how)
        BY DEF Lent, New
    <2> QED
        BY <2>1, <2>2
<1>5. CASE e.is = "call"
    <2>1. Value(st, owned, e, i, h)
            = IF e.callee \in Allocators \cup owned THEN New(i, h) ELSE Lent(i, h)
        BY <1>5 DEF Value
    <2>2. e.callee \in Allocators \cup owned
        <3>1. Lent(i, h) # New(k, how)
            BY DEF Lent, New
        <3> QED
            BY <2>1, <3>1
    <2>3. New(i, h) = New(k, how)
        BY <2>1, <2>2
    <2> QED
        BY <1>5, <2>2, <2>3, NewDiffers
<1>6. CASE e.is = "member"
    <2> DEFINE root == Held(st, e.name)
    <2>1. FieldValue(st, root, e.path, i, h) = New(k, how)
        BY <1>6 DEF Value
    <2> HIDE DEF root
    <2>2. \/ New(k, how) = Lent(i, h)
          \/ New(k, how) = Initial(root[2], e.path)
          \/ /\ <<root[2], e.path>> \in DOMAIN st.fields
             /\ New(k, how) = st.fields[<<root[2], e.path>>]
        BY <2>1 DEF FieldValue
    <2>3. New(k, how) # Lent(i, h) /\ New(k, how) # Initial(root[2], e.path)
        BY DEF New, Lent, Initial
    <2> QED
        BY <2>2, <2>3 DEF Confined
<1> QED
    BY <1>1, <1>2, <1>3, <1>4, <1>5, <1>6 DEF Simple

-----------------------------------------------------------------------------
(* Locals that are given one value and read after it.                      *)

\* What the calls of a statement are, and the names their arguments go by.
LEMMA CallShape ==
    ASSUME NEW fn, NEW analysis, WellFormed(fn, analysis),
           NEW i \in 1 .. Len(fn.body), NEW c \in CallsIn(fn.body[i].from)
    PROVE  /\ c \in Calls(fn) /\ c.is = "call"
           /\ \A a \in Range(c.args) : a.is \in Simple \cup {"call"}
           /\ \A a \in Range(c.args) : a.is \in {"ref", "deref", "member"} => a.name \in NamesIn(c)
<1>1. i \in DOMAIN fn.body /\ StatementOfC(fn.body[i])
    BY BodyShape
<1>2. c \in Calls(fn)
    BY <1>1 DEF Calls
<1>3. c.is = "call"
    BY DEF CallsIn
<1>4. \A a \in Range(c.args) : a.is \in Simple \cup {"call"}
    BY <1>1 DEF StatementOfC
<1>5. ASSUME NEW a \in Range(c.args), a.is \in {"ref", "deref", "member"}
      PROVE  a.name \in NamesIn(c)
    <2> DEFINE Plain(b) == IF b.is \in {"ref", "deref", "member"} THEN {b.name} ELSE {}
               Args(d) == UNION {Plain(b) : b \in Range(d.args)}
    <2>1. c \in CallsIn(c)
        BY <1>3 DEF CallsIn
    <2>2. a.name \in Plain(a)
        BY <1>5
    <2>3. a.name \in Args(c)
        BY <2>2
    <2>4. NamesIn(c) = Plain(c) \cup UNION {Args(d) : d \in CallsIn(c)}
        BY DEF NamesIn
    <2> HIDE DEF Args, Plain
    <2> QED
        BY <2>1, <2>3, <2>4
<1> QED
    BY <1>2, <1>3, <1>4, <1>5

\* What a call is passed is the value of one of its arguments.
LEMMA PassedFrom ==
    ASSUME NEW st, NEW owned, NEW c, NEW i, NEW v \in Passed(st, owned, c, i)
    PROVE  \E a \in Range(c.args) : Value(st, owned, a, i, "argument") = v
BY DEF Passed

\* Where no function keeps what it is passed, an object the body obtained stays
\* with the local it was assigned to.
LEMMA FreshStaysOut ==
    ASSUME NEW fn, NEW analysis, WellFormed(fn, analysis),
           AssignedOnce(fn), KeepsNothing(fn), NEW owned, NEW taken,
           NEW k \in 1 .. Len(fn.body), NEW how \in {"result", "filled"},
           NEW X, X \cap Params(fn) = {},
           how = "result" =>
                \/ ~ Assigns(fn.body[k]) \/ WritesOut(fn, fn.body[k])
                \/ fn.body[k].to.is = "ref" /\ fn.body[k].to.name \in X
    PROVE  ConfinedThroughout(fn, owned, taken, New(k, how), X)
<1> DEFINE v == New(k, how)
<1>1. ASSUME NEW i \in 1 .. Len(fn.body), NEW st, Confined(st, v, X)
      PROVE  Contained(fn, owned, st, i, v, X)
    <2> DEFINE s == fn.body[i]
               e == s.from
    <2>1. i \in DOMAIN fn.body /\ StatementOfC(s) /\ s \in Range(fn.body)
        BY BodyShape
    <2>2. e.is \in Simple \cup {"call"}
        BY <2>1 DEF StatementOfC
    <2>3. ASSUME Value(st, owned, e, i, "result") = v, Assigns(s), ~ WritesOut(fn, s)
          PROVE  s.to.is = "ref" /\ s.to.name \in X
        <3>1. \/ e.is = "ref" /\ e.name \in X
              \/ i = k /\ how = "result"
            <4> HIDE DEF e
            <4> QED
                BY <1>1, <2>2, <2>3, FreshSource
        <3>2. e.is = "ref" => FALSE
            <4>1. ASSUME e.is = "ref", s.to.is = "ref" PROVE FALSE
                BY <2>1, <2>3, <4>1 DEF AssignedOnce
            <4>2. ASSUME e.is = "ref", s.to.is # "ref" PROVE FALSE
                BY <2>1, <2>3, <4>2 DEF KeepsNothing
            <4> QED
                BY <4>1, <4>2
        <3> QED
            BY <2>3, <3>1, <3>2
    <2>4. ASSUME NEW c \in CallsIn(e), Keeps(st, owned, c, i), v \in Passed(st, owned, c, i)
          PROVE  FALSE
        <3>1. PICK a \in Range(c.args) : Value(st, owned, a, i, "argument") = v
            BY <2>4, PassedFrom
        <3>2. /\ c \in Calls(fn) /\ a.is \in Simple \cup {"call"}
              /\ a.is \in {"ref", "deref", "member"} => a.name \in NamesIn(c)
            BY CallShape
        <3>3. a.is = "ref" /\ a.name \in X
            BY <1>1, <3>1, <3>2, FreshSource
        <3>4. c.callee \notin Allocators \cup Deallocators
            BY <2>4 DEF Keeps
        <3>5. NamesIn(c) \subseteq Params(fn)
            BY <3>2, <3>4 DEF KeepsNothing
        <3> QED
            BY <3>2, <3>3, <3>5
    <2> QED
        BY <2>3, <2>4 DEF Contained
<1> HIDE DEF v
<1>2. Len(fn.body) \in Nat
    BY BodyShape
<1>3. ConfinedThroughout(fn, owned, taken, v, X)
    BY <1>1, <1>2, StaysConfined
<1> QED
    BY <1>3 DEF v

\* A local that is given one value holds it from then on, or NULL.
HoldsSince(fn, owned, taken, x, k, i) ==
    \/ After(fn, owned, taken, i).env[x] = NullValue
    \/ After(fn, owned, taken, i).env[x] = Got(fn, owned, taken, k) /\ k <= i

\* That is so of every local of a body that assigns each once.
LEMMA LocalHolds ==
    ASSUME NEW fn, NEW analysis, WellFormed(fn, analysis), AssignedOnce(fn),
           NEW owned, NEW taken, NEW i \in 0 .. Len(fn.body), NEW x,
           NEW k \in 1 .. Len(fn.body), AssignsTo(fn.body[k], x), fn.body[k].from.is # "null",
           x \in DOMAIN After(fn, owned, taken, i).env
    PROVE  HoldsSince(fn, owned, taken, x, k, i)
<1>1. LocalsGivenAt(fn, owned, taken, i)
    BY BodyShape, LocalsGiven
<1>2. PICK j \in 1 .. i : /\ AssignsTo(fn.body[j], x)
                          /\ After(fn, owned, taken, i).env[x] = Got(fn, owned, taken, j)
    BY <1>1 DEF LocalsGivenAt
<1>3. DOMAIN fn.body = 1 .. Len(fn.body) /\ Len(fn.body) \in Nat
    BY BodyShape
<1>4. j \in DOMAIN fn.body /\ k \in DOMAIN fn.body
    BY <1>3
<1>5. CASE fn.body[j].from.is = "null"
    BY <1>2, <1>5 DEF Got, Value, HoldsSince
<1>6. CASE fn.body[j].from.is # "null"
    <2>1. j = k
        BY <1>2, <1>4, <1>6 DEF AssignedOnce, AssignsTo
    <2> QED
        BY <1>2, <2>1 DEF HoldsSince
<1> QED
    BY <1>5, <1>6

\* A statement that runs finds the locals it names bound.
BoundAt(fn, owned, taken, i) ==
    ~ After(fn, owned, taken, i).returned =>
        \A x, j : j \in 1 .. i /\ AssignsTo(fn.body[j], x) /\ ~ fn.body[j].branch
                    => x \in DOMAIN After(fn, owned, taken, i).env

\* That is so of every execution.
LEMMA LocalsBound ==
    ASSUME NEW fn, Len(fn.body) \in Nat, NEW owned, NEW taken
    PROVE  \A i \in 0 .. Len(fn.body) : BoundAt(fn, owned, taken, i)
<1> DEFINE S == {i \in 0 .. Len(fn.body) : BoundAt(fn, owned, taken, i)}
<1>1. 0 \in S
    BY DEF BoundAt
<1>2. ASSUME NEW i \in 1 .. Len(fn.body), i - 1 \in S
      PROVE  i \in S
    <2> DEFINE st == After(fn, owned, taken, i - 1)
               end == After(fn, owned, taken, i)
    <2>1. BoundAt(fn, owned, taken, i - 1)
        BY <1>2
    <2>2. ASSUME ~ end.returned, NEW x, NEW j \in 1 .. i,
                 AssignsTo(fn.body[j], x), ~ fn.body[j].branch
          PROVE  x \in DOMAIN end.env
        <3>1. CASE ~ Runs(fn, owned, taken, i)
            <4>1. end = st
                BY <3>1, StepAt
            <4>2. ~ st.returned
                BY <2>2, <4>1
            <4>3. fn.body[i].branch
                BY <3>1, <4>2 DEF Runs
            <4>4. j \in 1 .. i - 1
                BY <2>2, <4>3
            <4> HIDE DEF end, st
            <4>5. x \in DOMAIN st.env
                BY <2>1, <2>2, <4>2, <4>4 DEF BoundAt, st
            <4> QED
                BY <4>1, <4>5
        <3>2. CASE Runs(fn, owned, taken, i)
            <4>1. end = Execute(fn, owned, st, i) /\ ~ st.returned
                BY <3>2, StepAt DEF Runs
            <4>2. DOMAIN st.env \subseteq DOMAIN end.env
                <5> HIDE DEF end, st
                <5> QED
                    BY <4>1 DEF Execute, Bind
            <4>3. CASE j = i
                <5>1. Assigns(fn.body[i]) /\ fn.body[i].to.is = "ref" /\ fn.body[i].to.name = x
                    BY <2>2, <4>3 DEF AssignsTo
                <5>2. end.env = Bind(st.env, x, Value(st, owned, fn.body[i].from, i, "result"))
                    <6> HIDE DEF end, st
                    <6> QED
                        BY <4>1, <5>1 DEF Execute
                <5> QED
                    BY <5>2 DEF Bind
            <4>4. CASE j # i
                <5>1. j \in 1 .. i - 1
                    BY <4>4
                <5>2. x \in DOMAIN st.env
                    BY <2>1, <2>2, <4>1, <5>1 DEF BoundAt
                <5> QED
                    BY <4>2, <5>2
            <4> QED
                BY <4>3, <4>4
        <3> QED
            BY <3>1, <3>2
    <2>3. BoundAt(fn, owned, taken, i)
        BY <2>2 DEF BoundAt
    <2> QED
        BY <2>3
<1> HIDE DEF S
<1>3. \A i \in 0 .. Len(fn.body) : i \in S
    BY <1>1, <1>2, UpTo
<1> QED
    BY <1>3 DEF S

\* So a local that an expression names is bound when it is evaluated.
LEMMA NamedIsBound ==
    ASSUME NEW fn, NEW analysis, WellFormed(fn, analysis), Initialised(fn),
           NEW owned, NEW taken, NEW i \in 1 .. Len(fn.body), Runs(fn, owned, taken, i),
           NEW x, fn.body[i].from.is = "ref", fn.body[i].from.name = x, x \notin Params(fn)
    PROVE  x \in DOMAIN After(fn, owned, taken, i - 1).env
<1>1. i \in DOMAIN fn.body /\ Len(fn.body) \in Nat
    BY BodyShape
<1>2. x \in NamesIn(fn.body[i].from) \ Params(fn)
    BY DEF NamesIn
<1>3. PICK j \in DOMAIN fn.body : j < i /\ AssignsTo(fn.body[j], x) /\ ~ fn.body[j].branch
    BY <1>1, <1>2 DEF Initialised
<1>4. j \in 1 .. i - 1
    BY <1>1, <1>3, BodyShape
<1>5. i - 1 \in 0 .. Len(fn.body)
    BY <1>1
<1>6. BoundAt(fn, owned, taken, i - 1)
    BY <1>1, <1>5, LocalsBound
<1> QED
    BY <1>3, <1>4, <1>6 DEF BoundAt, Runs

-----------------------------------------------------------------------------
(* What the walks know, traced back to the statements it comes from.       *)

\* Every origin the walk knows is that of a statement that assigns the local.
OriginsGivenAt(fn, engine, i) ==
    \A x \in DOMAIN OriginsAfter(fn, engine)[i] : \E j \in 1 .. i :
        /\ AssignsTo(fn.body[j], x)
        /\ OriginsAfter(fn, engine)[i][x]
                = OriginOf(fn, engine, OriginsAfter(fn, engine)[j - 1], fn.body[j].from)

\* That is so after every statement of the walk.
LEMMA OriginsGiven ==
    ASSUME NEW fn, Len(fn.body) \in Nat, NEW engine
    PROVE  \A i \in 0 .. Len(fn.body) : OriginsGivenAt(fn, engine, i)
<1> DEFINE S == {i \in 0 .. Len(fn.body) : OriginsGivenAt(fn, engine, i)}
<1>1. 0 \in S
    <2>1. OriginsAfter(fn, engine)[0] = <<>>
        BY OriginsRecursion
    <2>2. DOMAIN OriginsAfter(fn, engine)[0] = {}
        BY <2>1
    <2> QED
        BY <2>2 DEF OriginsGivenAt
<1>2. ASSUME NEW i \in 1 .. Len(fn.body), i - 1 \in S
      PROVE  i \in S
    <2> DEFINE before == OriginsAfter(fn, engine)[i - 1]
               now == OriginsAfter(fn, engine)[i]
               s == fn.body[i]
               o == OriginOf(fn, engine, before, s.from)
    <2>1. OriginsGivenAt(fn, engine, i - 1)
        BY <1>2
    <2>2. now = Learn(fn, engine, before, s)
        BY OriginsRecursion
    <2>3. CASE now = before
        BY <2>1, <2>3 DEF OriginsGivenAt
    <2>4. CASE now # before
        <3>1. Assigns(s) /\ s.to.is = "ref" /\ now = Bind(before, s.to.name, o)
            <4> HIDE DEF before, now, s
            <4> QED
                BY <2>2, <2>4 DEF Learn
        <3>2. AssignsTo(s, s.to.name)
            BY <3>1 DEF AssignsTo
        <3>3. ASSUME NEW x \in DOMAIN now
              PROVE  \E j \in 1 .. i :
                        /\ AssignsTo(fn.body[j], x)
                        /\ now[x] = OriginOf(fn, engine, OriginsAfter(fn, engine)[j - 1], fn.body[j].from)
            <4>1. CASE x = s.to.name
                <5>1. now[x] = o
                    <6> HIDE DEF before, now, s, o
                    <6> QED
                        BY <3>1, <4>1 DEF Bind
                <5> QED
                    BY <3>2, <4>1, <5>1
            <4>2. CASE x # s.to.name
                <5>1. x \in DOMAIN before /\ now[x] = before[x]
                    <6> HIDE DEF before, now, s, o
                    <6> QED
                        BY <3>1, <3>3, <4>2 DEF Bind
                <5>2. PICK j \in 1 .. i - 1 :
                        /\ AssignsTo(fn.body[j], x)
                        /\ before[x] = OriginOf(fn, engine, OriginsAfter(fn, engine)[j - 1], fn.body[j].from)
                    BY <2>1, <5>1 DEF OriginsGivenAt
                <5>3. j \in 1 .. i
                    BY <5>2
                <5> QED
                    BY <5>1, <5>2, <5>3
            <4> QED
                BY <4>1, <4>2
        <3> QED
            BY <3>3 DEF OriginsGivenAt
    <2> QED
        BY <2>3, <2>4
<1> HIDE DEF S
<1>3. \A i \in 0 .. Len(fn.body) : i \in S
    BY <1>1, <1>2, UpTo
<1> QED
    BY <1>3 DEF S

\* Every local that may be allocated is assigned an allocation.
AllocatedGivenAt(fn, i) ==
    \A x \in AllocatedAfter(fn)[i] : \E j \in 1 .. i :
        AssignsTo(fn.body[j], x) /\ Allocates(AllocatedAfter(fn)[j - 1], fn.body[j].from)

\* That is so after every statement of the walk.
LEMMA AllocatedGiven ==
    ASSUME NEW fn, Len(fn.body) \in Nat
    PROVE  \A i \in 0 .. Len(fn.body) : AllocatedGivenAt(fn, i)
<1> DEFINE S == {i \in 0 .. Len(fn.body) : AllocatedGivenAt(fn, i)}
<1>1. 0 \in S
    BY AllocatedRecursion DEF AllocatedGivenAt
<1>2. ASSUME NEW i \in 1 .. Len(fn.body), i - 1 \in S
      PROVE  i \in S
    <2> DEFINE before == AllocatedAfter(fn)[i - 1]
               now == AllocatedAfter(fn)[i]
               s == fn.body[i]
    <2>1. AllocatedGivenAt(fn, i - 1)
        BY <1>2
    <2>2. now = Gather(before, s)
        BY AllocatedRecursion
    <2>3. ASSUME NEW x \in now
          PROVE  \E j \in 1 .. i :
                    AssignsTo(fn.body[j], x) /\ Allocates(AllocatedAfter(fn)[j - 1], fn.body[j].from)
        <3>1. CASE x \in before
            <4>1. PICK j \in 1 .. i - 1 :
                    AssignsTo(fn.body[j], x) /\ Allocates(AllocatedAfter(fn)[j - 1], fn.body[j].from)
                BY <2>1, <3>1 DEF AllocatedGivenAt
            <4> QED
                BY <4>1
        <3>2. CASE x \notin before
            <4>1. Assigns(s) /\ s.to.is = "ref" /\ Allocates(before, s.from) /\ x = s.to.name
                <5> HIDE DEF before, now, s
                <5> QED
                    BY <2>2, <2>3, <3>2 DEF Gather
            <4>2. AssignsTo(s, x)
                BY <4>1 DEF AssignsTo
            <4> QED
                BY <4>1, <4>2
        <3> QED
            BY <3>1, <3>2
    <2>4. AllocatedGivenAt(fn, i)
        BY <2>3 DEF AllocatedGivenAt
    <2> QED
        BY <2>4
<1> HIDE DEF S
<1>3. \A i \in 0 .. Len(fn.body) : i \in S
    BY <1>1, <1>2, UpTo
<1> QED
    BY <1>3 DEF S

\* The expression is a call of one of G, or a local that is given the result of
\* one.
ComesFrom(fn, e, G) ==
    \/ e.is = "call" /\ e.callee \in G
    \/ /\ e.is = "ref" /\ e.name \notin Params(fn)
       /\ \E k \in 1 .. Len(fn.body) :
            /\ AssignsTo(fn.body[k], e.name)
            /\ fn.body[k].from.is = "call" /\ fn.body[k].from.callee \in G

\* The origin of a call is not mistaken for a tag or a parameter.
LEMMA CalleeOfCall ==
    ASSUME NEW fn, NEW analysis, WellFormed(fn, analysis),
           NEW i \in 1 .. Len(fn.body), fn.body[i].from.is = "call"
    PROVE  fn.body[i].from.callee \notin Tags \cup Params(fn)
<1> DEFINE c == fn.body[i].from
           callees == {d.callee : d \in Calls(fn)}
<1>1. c \in CallsIn(c)
    BY DEF CallsIn
<1>2. i \in DOMAIN fn.body
    BY BodyShape
<1>3. c \in Calls(fn)
    BY <1>1, <1>2 DEF Calls
<1>4. c.callee \in callees
    BY <1>3
<1>5. Params(fn) \cap callees = {} /\ (Params(fn) \cup callees) \cap Tags = {}
    BY DEF WellFormed
<1> QED
    BY <1>4, <1>5

\* What the walks hold for owned comes from a call that gives away its result.
LEMMA OwnedOrigin ==
    ASSUME NEW fn, NEW analysis, WellFormed(fn, analysis), AssignedOnce(fn), NEW engine,
           NEW owned, NEW i \in 1 .. Len(fn.body),
           NEW o, o = OriginOf(fn, engine, Origins(fn, engine), fn.body[i].from),
           o \notin Params(fn), o = "alloc" \/ (o \in owned /\ o \notin Tags)
    PROVE  ComesFrom(fn, fn.body[i].from, Allocators \cup owned)
<1> DEFINE e == fn.body[i].from
           n == Len(fn.body)
<1>1. n \in Nat /\ i \in DOMAIN fn.body /\ StatementOfC(fn.body[i])
    BY BodyShape
<1>2. o \notin {"member", "unknown", "static"}
    BY DEF Tags
<1>3. CASE e.is = "call"
    <2>1. o = IF e.callee \in Allocators THEN "alloc" ELSE e.callee
        BY <1>3 DEF OriginOf
    <2>2. e.callee # "alloc"
        BY <1>3, CalleeOfCall DEF Tags
    <2> QED
        BY <1>3, <2>1, <2>2 DEF ComesFrom
<1>4. CASE e.is = "ref"
    <2> DEFINE x == e.name
    <2>1. x \notin Params(fn) /\ o = Known(Origins(fn, engine), x)
        BY <1>4 DEF OriginOf
    <2>2. x \in DOMAIN OriginsAfter(fn, engine)[n] /\ o = OriginsAfter(fn, engine)[n][x]
        BY <1>2, <2>1 DEF Known, Origins
    <2>3. OriginsGivenAt(fn, engine, n)
        BY <1>1, OriginsGiven
    <2>4. PICK k \in 1 .. n :
            /\ AssignsTo(fn.body[k], x)
            /\ o = OriginOf(fn, engine, OriginsAfter(fn, engine)[k - 1], fn.body[k].from)
        BY <2>2, <2>3 DEF OriginsGivenAt
    <2> DEFINE d == fn.body[k].from
    <2>5. k \in DOMAIN fn.body /\ StatementOfC(fn.body[k])
        BY BodyShape
    <2>6. d.is \in Simple \cup {"call"}
        BY <2>5 DEF StatementOfC
    <2>7. d.is \notin {"null", "text", "deref"}
        BY <1>2, <2>4 DEF OriginOf
    <2>8. d.is # "member"
        BY <1>2, <2>4 DEF OriginOf
    <2>9. d.is # "ref"
        BY <2>4, <2>5 DEF AssignedOnce, AssignsTo
    <2>10. d.is = "call"
        BY <2>6, <2>7, <2>8, <2>9 DEF Simple
    <2>11. o = IF d.callee \in Allocators THEN "alloc" ELSE d.callee
        BY <2>4, <2>10 DEF OriginOf
    <2>12. d.callee # "alloc"
        BY <2>10, CalleeOfCall DEF Tags
    <2>13. d.callee \in Allocators \cup owned
        BY <2>11, <2>12
    <2> QED
        BY <1>4, <2>1, <2>4, <2>10, <2>13 DEF ComesFrom
<1>5. CASE e.is \in {"null", "text", "deref", "member"}
    <2>1. o \in {"member", "unknown", "static"}
        BY <1>5 DEF OriginOf
    <2> QED
        BY <1>2, <2>1
<1>6. e.is \in Simple \cup {"call"}
    BY <1>1 DEF StatementOfC
<1> QED
    BY <1>3, <1>4, <1>5, <1>6 DEF Simple

\* What the out-handle walk takes for an allocation is the result of one.
LEMMA AllocatedSource ==
    ASSUME NEW fn, NEW analysis, WellFormed(fn, analysis), AssignedOnce(fn),
           NEW e, Allocates(MayBeAllocated(fn), e), NEW owned
    PROVE  ComesFrom(fn, e, Allocators \cup owned)
<1> DEFINE n == Len(fn.body)
<1>1. n \in Nat
    BY BodyShape
<1>2. CASE e.is = "call" /\ e.callee \in Allocators
    BY <1>2 DEF ComesFrom
<1>3. CASE e.is = "ref" /\ e.name \in MayBeAllocated(fn)
    <2>1. AllocatedGivenAt(fn, n)
        BY <1>1, AllocatedGiven
    <2>2. PICK k \in 1 .. n :
            AssignsTo(fn.body[k], e.name) /\ Allocates(AllocatedAfter(fn)[k - 1], fn.body[k].from)
        BY <1>3, <2>1 DEF AllocatedGivenAt, MayBeAllocated
    <2>3. k \in DOMAIN fn.body /\ fn.body[k] \in Range(fn.body)
        BY BodyShape
    <2>4. fn.body[k].from.is # "ref" /\ e.name \notin Params(fn)
        BY <2>2, <2>3 DEF AssignedOnce, AssignsTo, Allocates
    <2>5. fn.body[k].from.is = "call" /\ fn.body[k].from.callee \in Allocators
        BY <2>2, <2>4 DEF Allocates
    <2> QED
        BY <1>3, <2>2, <2>4, <2>5 DEF ComesFrom
<1> QED
    BY <1>2, <1>3 DEF Allocates

\* Statement i gets NULL or an object the body obtained: by its own call, or by
\* the one that gave the local it names its value.
FreshAt(fn, owned, taken, i) ==
    \/ Got(fn, owned, taken, i) = NullValue
    \/ fn.body[i].from.is = "call" /\ Got(fn, owned, taken, i) = New(i, "result")
    \/ /\ fn.body[i].from.is = "ref" /\ fn.body[i].from.name \notin Params(fn)
       /\ \E k \in 1 .. Len(fn.body) :
             /\ AssignsTo(fn.body[k], fn.body[i].from.name)
             /\ Got(fn, owned, taken, i) = New(k, "result")

\* That is so of an expression that comes from a call that gives its result away.
LEMMA SourceIsFresh ==
    ASSUME NEW fn, NEW analysis, WellFormed(fn, analysis), Straightforward(fn),
           NEW owned, NEW taken, NEW i \in 1 .. Len(fn.body), Runs(fn, owned, taken, i),
           ComesFrom(fn, fn.body[i].from, Allocators \cup owned)
    PROVE  FreshAt(fn, owned, taken, i)
<1> DEFINE e == fn.body[i].from
           st == After(fn, owned, taken, i - 1)
<1>1. Got(fn, owned, taken, i) = Value(st, owned, e, i, "result")
    BY DEF Got
<1>2. CASE e.is = "call"
    BY <1>1, <1>2 DEF ComesFrom, Value, FreshAt
<1>3. CASE e.is # "call"
    <2> DEFINE x == e.name
    <2>1. /\ e.is = "ref" /\ x \notin Params(fn)
          /\ \E k \in 1 .. Len(fn.body) :
                /\ AssignsTo(fn.body[k], x)
                /\ fn.body[k].from.is = "call" /\ fn.body[k].from.callee \in Allocators \cup owned
        BY <1>3 DEF ComesFrom
    <2>2. PICK k \in 1 .. Len(fn.body) :
                /\ AssignsTo(fn.body[k], x)
                /\ fn.body[k].from.is = "call" /\ fn.body[k].from.callee \in Allocators \cup owned
        BY <2>1
    <2>3. x \in DOMAIN st.env
        BY <2>1, NamedIsBound DEF Straightforward
    <2>4. Got(fn, owned, taken, i) = st.env[x]
        BY <1>1, <2>1, <2>3 DEF Value, Held
    <2>5. i - 1 \in 0 .. Len(fn.body)
        BY BodyShape
    <2>6. st.env[x] = NullValue \/ st.env[x] = Got(fn, owned, taken, k)
        <3>1. AssignedOnce(fn) /\ fn.body[k].from.is # "null"
            BY <2>2 DEF Straightforward
        <3> DEFINE j == i - 1
        <3>2. j \in 0 .. Len(fn.body) /\ x \in DOMAIN After(fn, owned, taken, j).env
            BY <2>3, <2>5
        <3> HIDE DEF j, x
        <3>3. \/ After(fn, owned, taken, j).env[x] = NullValue
              \/ After(fn, owned, taken, j).env[x] = Got(fn, owned, taken, k)
            BY <2>2, <3>1, <3>2, LocalHolds DEF HoldsSince
        <3> QED
            BY <3>3 DEF j
    <2>7. Got(fn, owned, taken, k) = New(k, "result")
        BY <2>2 DEF Got, Value
    <2> QED
        BY <2>1, <2>2, <2>4, <2>6, <2>7 DEF FreshAt
<1> QED
    BY <1>2, <1>3

-----------------------------------------------------------------------------
(* Strings and out-parameters.                                             *)

\* What no structure leads to when the body has run is not kept anywhere.
LEMMA ConfinedAtEnd ==
    ASSUME NEW fn, Len(fn.body) \in Nat, NEW owned, NEW taken, NEW v, NEW X,
           ConfinedThroughout(fn, owned, taken, v, X)
    PROVE  v \notin End(fn, owned, taken).kept \cup Range(End(fn, owned, taken).fields)
<1> DEFINE n == Len(fn.body)
<1>1. Confined(After(fn, owned, taken, n), v, X)
    BY DEF ConfinedThroughout
<1>2. Confined(End(fn, owned, taken), v, X)
    BY <1>1 DEF After, End
<1> DEFINE end == End(fn, owned, taken)
<1> HIDE DEF end
<1>3. Confined(end, v, X) => v \notin end.kept \cup Range(end.fields)
    BY DEF Confined, Range
<1> QED
    BY <1>2, <1>3 DEF end

\* A value that comes from a call that gives it away is handed over when the
\* body keeps nothing.
LEMMA FreshIsHandedOver ==
    ASSUME NEW fn, NEW analysis, WellFormed(fn, analysis), Straightforward(fn), KeepsNothing(fn),
           NEW owned, NEW taken, NEW i \in 1 .. Len(fn.body), Runs(fn, owned, taken, i),
           ComesFrom(fn, fn.body[i].from, Allocators \cup owned),
           ~ Assigns(fn.body[i]) \/ WritesOut(fn, fn.body[i])
    PROVE  HandedOver(End(fn, owned, taken), Got(fn, owned, taken, i))
<1> DEFINE v == Got(fn, owned, taken, i)
           end == End(fn, owned, taken)
<1>1. Len(fn.body) \in Nat /\ AssignedOnce(fn)
    BY BodyShape DEF Straightforward
<1>2. CASE v = NullValue
    BY <1>2 DEF HandedOver
<1>3. ASSUME NEW k \in 1 .. Len(fn.body), v = New(k, "result"),
             NEW X, ConfinedThroughout(fn, owned, taken, New(k, "result"), X)
      PROVE  HandedOver(end, v)
    <2>1. v \notin end.kept \cup Range(end.fields)
        BY <1>1, <1>3, ConfinedAtEnd
    <2>2. New(k, "result")[1] = "new"
        BY DEF New
    <2>3. v[1] = "new"
        BY <1>3, <2>2
    <2> HIDE DEF v, end
    <2> QED
        BY <2>1, <2>3 DEF HandedOver
<1>4. CASE fn.body[i].from.is = "call" /\ v = New(i, "result")
    <2>1. ConfinedThroughout(fn, owned, taken, New(i, "result"), {})
        BY <1>1, FreshStaysOut
    <2> QED
        BY <1>3, <1>4, <2>1
<1>5. ASSUME fn.body[i].from.is = "ref", fn.body[i].from.name \notin Params(fn),
             NEW k \in 1 .. Len(fn.body), AssignsTo(fn.body[k], fn.body[i].from.name),
             v = New(k, "result")
      PROVE  HandedOver(end, v)
    <2> DEFINE X == {fn.body[i].from.name}
    <2>1. fn.body[k].to.is = "ref" /\ fn.body[k].to.name \in X /\ X \cap Params(fn) = {}
        BY <1>5 DEF AssignsTo
    <2> HIDE DEF X
    <2>2. ConfinedThroughout(fn, owned, taken, New(k, "result"), X)
        BY <1>1, <2>1, FreshStaysOut
    <2> QED
        BY <1>3, <1>5, <2>2
<1> QED
    <2>1. FreshAt(fn, owned, taken, i)
        BY SourceIsFresh
    <2>2. CASE fn.body[i].from.is = "call" /\ v = New(i, "result")
        BY <1>4, <2>2
    <2>3. CASE /\ fn.body[i].from.is = "ref" /\ fn.body[i].from.name \notin Params(fn)
               /\ \E k \in 1 .. Len(fn.body) :
                     AssignsTo(fn.body[k], fn.body[i].from.name) /\ v = New(k, "result")
        <3>1. PICK k \in 1 .. Len(fn.body) :
                AssignsTo(fn.body[k], fn.body[i].from.name) /\ v = New(k, "result")
            BY <2>3
        <3> QED
            BY <1>5, <2>3, <3>1
    <2> QED
        BY <1>2, <2>1, <2>2, <2>3 DEF FreshAt

\* The result of a body is what one of its returns got, or NULL.
LEMMA ResultAtEnd ==
    ASSUME NEW fn, Len(fn.body) \in Nat, NEW owned, NEW taken
    PROVE  \/ End(fn, owned, taken).result = NullValue
           \/ \E j \in 1 .. Len(fn.body) :
                /\ Runs(fn, owned, taken, j) /\ fn.body[j].do = "return"
                /\ End(fn, owned, taken).result = Got(fn, owned, taken, j)
<1> DEFINE n == Len(fn.body)
<1>1. ReturnedAt(fn, owned, taken, n)
    BY ResultGiven
<1>2. End(fn, owned, taken) = After(fn, owned, taken, n)
    BY DEF After, End
<1> QED
    BY <1>1, <1>2 DEF ReturnedAt

\* A string whose every return is traced to a call that gives it away.
LEMMA StringHandedOver ==
    ASSUME NEW fn, NEW analysis, WellFormed(fn, analysis), Straightforward(fn), KeepsNothing(fn),
           NEW engine, NEW owned, NEW taken, owned \cap Tags = {},
           \A i \in DOMAIN Returns(fn) :
                /\ ReturnOrigins(fn, engine)[i] \notin Params(fn)
                /\ ReturnOrigins(fn, engine)[i] \in {"alloc"} \cup owned
    PROVE  HandedOver(End(fn, owned, taken), End(fn, owned, taken).result)
<1> DEFINE n == Len(fn.body)
<1>1. n \in Nat /\ DOMAIN fn.body = 1 .. n /\ AssignedOnce(fn)
    BY BodyShape DEF Straightforward
<1>2. CASE End(fn, owned, taken).result = NullValue
    BY <1>2 DEF HandedOver
<1>3. ASSUME NEW j \in 1 .. n, Runs(fn, owned, taken, j), fn.body[j].do = "return",
             End(fn, owned, taken).result = Got(fn, owned, taken, j)
      PROVE  HandedOver(End(fn, owned, taken), Got(fn, owned, taken, j))
    <2>1. j \in DOMAIN Returns(fn) /\ Returns(fn)[j] = fn.body[j].from
        BY <1>1, <1>3 DEF Returns
    <2> DEFINE o == OriginOf(fn, engine, Origins(fn, engine), fn.body[j].from)
    <2>2. ReturnOrigins(fn, engine)[j] = o
        BY <2>1 DEF ReturnOrigins
    <2>3. o \notin Params(fn) /\ o \in {"alloc"} \cup owned
        BY <2>1, <2>2
    <2>4. ComesFrom(fn, fn.body[j].from, Allocators \cup owned)
        BY <1>1, <2>3, OwnedOrigin
    <2>5. ~ Assigns(fn.body[j])
        BY <1>3 DEF Assigns
    <2> QED
        BY <1>3, <2>4, <2>5, FreshIsHandedOver
<1> QED
    BY <1>1, <1>2, <1>3, ResultAtEnd

-----------------------------------------------------------------------------

\* What an out-parameter holds was written through it, or filled in by a call.
GivesOut(fn, owned, taken, j, out) ==
    /\ Runs(fn, owned, taken, j)
    /\ \/ WritesOut(fn, fn.body[j]) /\ out = Got(fn, owned, taken, j)
       \/ /\ FillingCalls(fn, fn.body[j]) # {}
          /\ out = IF \A c \in FillingCalls(fn, fn.body[j]) : c.callee \in owned
                   THEN New(j, "filled") ELSE Lent(j, "filled")

OutGivenAt(fn, owned, taken, i) ==
    \/ After(fn, owned, taken, i).out = NullValue
    \/ \E j \in 1 .. i : GivesOut(fn, owned, taken, j, After(fn, owned, taken, i).out)

\* That is so of every execution.
LEMMA OutGiven ==
    ASSUME NEW fn, Len(fn.body) \in Nat, NEW owned, NEW taken
    PROVE  \A i \in 0 .. Len(fn.body) : OutGivenAt(fn, owned, taken, i)
<1> DEFINE S == {i \in 0 .. Len(fn.body) : OutGivenAt(fn, owned, taken, i)}
<1>1. 0 \in S
    BY StepAt DEF OutGivenAt, Entered
<1>2. ASSUME NEW i \in 1 .. Len(fn.body), i - 1 \in S
      PROVE  i \in S
    <2> DEFINE st == After(fn, owned, taken, i - 1)
               end == After(fn, owned, taken, i)
               s == fn.body[i]
               filled == IF \A c \in FillingCalls(fn, s) : c.callee \in owned
                         THEN New(i, "filled") ELSE Lent(i, "filled")
    <2>1. OutGivenAt(fn, owned, taken, i - 1)
        BY <1>2
    <2>2. CASE end.out = st.out
        <3>1. ASSUME NEW j \in 1 .. i - 1
              PROVE  j \in 1 .. i
            OBVIOUS
        <3> HIDE DEF st, end
        <3>2. st.out = NullValue \/ \E j \in 1 .. i - 1 : GivesOut(fn, owned, taken, j, st.out)
            BY <2>1 DEF OutGivenAt, st
        <3>3. OutGivenAt(fn, owned, taken, i)
            BY <2>2, <3>1, <3>2 DEF OutGivenAt, end
        <3> QED
            BY <3>3
    <2>3. CASE end.out # st.out
        <3>1. Runs(fn, owned, taken, i) /\ end = Execute(fn, owned, st, i)
            BY <2>3, StepAt
        <3>2. Got(fn, owned, taken, i) = Value(st, owned, s.from, i, "result")
            BY DEF Got
        <3>3. \/ WritesOut(fn, s) /\ end.out = Got(fn, owned, taken, i)
              \/ FillingCalls(fn, s) # {} /\ end.out = filled
            <4> HIDE DEF st, end
            <4>1. CASE WritesOut(fn, s)
                BY <3>1, <3>2, <4>1 DEF Execute
            <4>2. CASE ~ WritesOut(fn, s) /\ FillingCalls(fn, s) = {}
                BY <2>3, <3>1, <4>2 DEF Execute
            <4>3. CASE ~ WritesOut(fn, s) /\ FillingCalls(fn, s) # {}
                BY <3>1, <4>3 DEF Execute
            <4> QED
                BY <4>1, <4>2, <4>3
        <3>4. GivesOut(fn, owned, taken, i, end.out)
            BY <3>1, <3>3 DEF GivesOut
        <3> HIDE DEF end
        <3>5. OutGivenAt(fn, owned, taken, i)
            BY <3>4 DEF OutGivenAt, end
        <3> QED
            BY <3>5
    <2> QED
        BY <2>2, <2>3
<1> HIDE DEF S
<1>3. \A i \in 0 .. Len(fn.body) : i \in S
    BY <1>1, <1>2, UpTo
<1> QED
    BY <1>3 DEF S

CalledAt(fn, a) == CallAt(fn, a[1], a[2])
ForwardsTo(fn, engine, o, c) == \E a \in PassedOn(fn, engine, o) : CalledAt(fn, a) = c

\* A call that may fill an out-parameter in is one it is passed on to.
LEMMA FillingIsPassedOn ==
    ASSUME NEW fn, NEW analysis, WellFormed(fn, analysis), NEW o, fn.outs = {o}, NEW engine,
           NEW j \in 1 .. Len(fn.body), NEW c \in FillingCalls(fn, fn.body[j])
    PROVE  ForwardsTo(fn, engine, o, c)
<1> DEFINE e == fn.body[j].from
<1>1. j \in DOMAIN fn.body /\ StatementOfC(fn.body[j])
    BY BodyShape
<1>2. c \in CallsIn(e)
    BY DEF FillingCalls
<1>3. PICK k \in DOMAIN c.args : c.args[k].is = "ref" /\ c.args[k].name = o
    BY DEF FillingCalls, Range
<1>4. IsOut(c.args[k], engine, o)
    BY <1>3 DEF IsOut
<1>5. e.is = "call"
    BY <1>2 DEF CallsIn
<1>6. e \in CallsIn(e)
    BY <1>5 DEF CallsIn
<1>7. e.args \in Seq(Range(e.args))
    BY <1>1, <1>6 DEF StatementOfC
<1>8. \E m \in Sites(fn, j) : CallAt(fn, j, m) = c
    <2>1. CASE c = e
        BY <1>5, <2>1 DEF Sites, CallAt
    <2>2. CASE c # e
        <3>1. c \in Range(e.args) /\ c.is = "call"
            BY <1>2, <2>2 DEF CallsIn
        <3>2. PICK m \in DOMAIN e.args : e.args[m] = c
            BY <3>1 DEF Range
        <3>3. m # 0
            BY <1>7
        <3> QED
            BY <1>5, <3>1, <3>2, <3>3 DEF Sites, CallAt
    <2> QED
        BY <2>1, <2>2
<1>9. PICK m \in Sites(fn, j) : CallAt(fn, j, m) = c
    BY <1>8
<1>10. <<j, m, k>> \in PassedAt(fn, engine, o, j, m)
    BY <1>3, <1>4, <1>9 DEF PassedAt
<1>11. <<j, m, k>> \in PassedOn(fn, engine, o)
    BY <1>1, <1>10 DEF PassedOn
<1>12. CalledAt(fn, <<j, m, k>>) = c
    BY <1>9 DEF CalledAt
<1> QED
    BY <1>11, <1>12 DEF ForwardsTo

\* One that is passed on once, to a function whose own is the caller's.
LEMMA ForwardedCallee ==
    ASSUME NEW fn, NEW file, NEW engine, NEW o, NEW owned, owned \cap Tags = {},
           o = CHOOSE p \in Params(fn) : p \in fn.outs,
           OutRecord(fn, engine, file).forward # {},
           OutRecord(fn, engine, file).forward \subseteq owned,
           \A a, b \in PassedOn(fn, engine, o) : a = b
    PROVE  \A a \in PassedOn(fn, engine, o) : CalledAt(fn, a).callee \in owned
<1> DEFINE Candidate(t) == t[1] \in DOMAIN file /\ t[2] \in file[t[1]].outs
           Named(t) == IF Candidate(t) THEN t[1] ELSE "none"
           Callee(a) == CallAt(fn, a[1], a[2]).callee
<1>1. OutRecord(fn, engine, file).forward = {Named(t) : t \in ForwardedTo(fn, engine, o, file)}
    BY DEF OutRecord
<1> HIDE DEF Named
<1>2. PICK t \in ForwardedTo(fn, engine, o, file) : Named(t) \in owned
    BY <1>1
<1>3. Named(t) # "none"
    BY <1>2 DEF Tags
<1>4. t[1] \in owned
    BY <1>2, <1>3 DEF Named
<1>5. PICK a \in PassedOn(fn, engine, o) : t = <<Callee(a), file[Callee(a)].params[a[3]]>>
    BY <1>2 DEF ForwardedTo
<1>6. CalledAt(fn, a).callee \in owned
    BY <1>4, <1>5 DEF CalledAt
<1> QED
    BY <1>6

\* What is written through an out-parameter, or filled in, is an allocation.
LEMMA OutHandedOver ==
    ASSUME NEW fn, NEW analysis, WellFormed(fn, analysis), Straightforward(fn), KeepsNothing(fn),
           NEW o \in Params(fn), fn.outs = {o}, NEW engine, NEW file, NEW owned, NEW taken,
           owned \cap Tags = {},
           PassedOn(fn, engine, o) = {} \/ Writes(fn, o) = {},
           \A a, b \in PassedOn(fn, engine, o) : a = b,
           \A i, j \in Writes(fn, o) :
                fn.body[i].from.is # "null" /\ fn.body[j].from.is # "null" => i = j,
           \/ Written(fn, o) = "alloc"
           \/ /\ OutRecord(fn, engine, file).forward # {}
              /\ OutRecord(fn, engine, file).forward \subseteq owned
              /\ Written(fn, o) = "nothing"
    PROVE  HandedOver(End(fn, owned, taken), End(fn, owned, taken).out)
<1> DEFINE n == Len(fn.body)
           end == End(fn, owned, taken)
<1>1. n \in Nat /\ DOMAIN fn.body = 1 .. n /\ AssignedOnce(fn)
    BY BodyShape DEF Straightforward
<1>2. OutGivenAt(fn, owned, taken, n)
    BY <1>1, OutGiven
<1>3. end = After(fn, owned, taken, n)
    BY DEF After, End
<1>4. CASE end.out = NullValue
    BY <1>4 DEF HandedOver
<1>5. ASSUME NEW j \in 1 .. n, Runs(fn, owned, taken, j), WritesOut(fn, fn.body[j])
      PROVE  HandedOver(end, Got(fn, owned, taken, j))
    <2>1. j \in Writes(fn, o)
        <3>1. StatementOfC(fn.body[j])
            BY BodyShape
        <3>2. fn.body[j].to.is = "deref" /\ fn.body[j].to.name = o /\ Assigns(fn.body[j])
            BY <1>5 DEF WritesOut
        <3>3. fn.body[j].do = "set"
            BY <3>1, <3>2 DEF StatementOfC, Assigns
        <3> QED
            BY <1>1, <3>2, <3>3 DEF Writes
    <2>2. Written(fn, o) # "nothing"
        BY <2>1 DEF Written
    <2>3. PICK i \in LastWrite(fn, o) : Allocates(MayBeAllocated(fn), fn.body[i].from)
        BY <2>2 DEF Written
    <2>4. CASE fn.body[j].from.is = "null"
        <3>1. Got(fn, owned, taken, j) = NullValue
            BY <2>4 DEF Got, Value
        <3> QED
            BY <3>1 DEF HandedOver
    <2>5. CASE fn.body[j].from.is # "null"
        <3>1. fn.body[i].from.is # "null"
            BY <2>3 DEF Allocates
        <3>2. i \in Writes(fn, o)
            BY <2>3 DEF LastWrite
        <3>3. i = j
            BY <2>1, <2>5, <3>1, <3>2
        <3>4. ComesFrom(fn, fn.body[j].from, Allocators \cup owned)
            BY <1>1, <2>3, <3>3, AllocatedSource
        <3> QED
            BY <1>5, <3>4, FreshIsHandedOver
    <2> QED
        BY <2>4, <2>5
<1>6. ASSUME NEW j \in 1 .. n, FillingCalls(fn, fn.body[j]) # {},
             end.out = IF \A c \in FillingCalls(fn, fn.body[j]) : c.callee \in owned
                       THEN New(j, "filled") ELSE Lent(j, "filled")
      PROVE  HandedOver(end, end.out)
    <2>1. PICK c \in FillingCalls(fn, fn.body[j]) : TRUE
        BY <1>6
    <2>2. PassedOn(fn, engine, o) # {}
        BY <2>1, FillingIsPassedOn DEF ForwardsTo
    <2>3. Writes(fn, o) = {}
        BY <2>2
    <2>4. Written(fn, o) = "nothing"
        BY <2>3 DEF Written
    <2>5. o = CHOOSE p \in Params(fn) : p \in fn.outs
        OBVIOUS
    <2>6. \A a \in PassedOn(fn, engine, o) : CalledAt(fn, a).callee \in owned
        BY <2>4, <2>5, ForwardedCallee
    <2>7. \A d \in FillingCalls(fn, fn.body[j]) : d.callee \in owned
        <3> TAKE d \in FillingCalls(fn, fn.body[j])
        <3>1. ForwardsTo(fn, engine, o, d)
            BY FillingIsPassedOn
        <3> QED
            BY <2>6, <3>1 DEF ForwardsTo
    <2>8. end.out = New(j, "filled")
        BY <1>6, <2>7
    <2>9. ConfinedThroughout(fn, owned, taken, New(j, "filled"), {})
        BY <1>1, FreshStaysOut
    <2>10. New(j, "filled") \notin end.kept \cup Range(end.fields)
        BY <1>1, <2>9, ConfinedAtEnd
    <2>11. New(j, "filled")[1] = "new"
        BY DEF New
    <2> DEFINE v == New(j, "filled")
    <2> HIDE DEF v, end
    <2>12. HandedOver(end, v)
        BY <2>10, <2>11 DEF HandedOver, v
    <2> QED
        BY <2>8, <2>12 DEF v
<1>7. ASSUME NEW j \in 1 .. n, GivesOut(fn, owned, taken, j, end.out)
      PROVE  HandedOver(end, end.out)
    BY <1>5, <1>6, <1>7 DEF GivesOut
<1> HIDE DEF end
<1>8. end.out = NullValue \/ \E j \in 1 .. n : GivesOut(fn, owned, taken, j, end.out)
    BY <1>2, <1>3 DEF OutGivenAt
<1> QED
    BY <1>4, <1>7, <1>8 DEF end

-----------------------------------------------------------------------------
(* Pointers: what is returned, and what escapes.                           *)

\* The origin of a function is that of one of its returns.
LEMMA PointerOriginReturned ==
    ASSUME NEW fn, NEW engine, PointerOrigin(fn, engine) # "unknown"
    PROVE  \E i \in DOMAIN Returns(fn) : ReturnOrigins(fn, engine)[i] = PointerOrigin(fn, engine)
<1> DEFINE origins == ReturnOrigins(fn, engine)
           First(S) == {origins[i] : i \in {j \in DOMAIN origins :
                        /\ origins[j] \in S
                        /\ \A k \in DOMAIN origins : origins[k] \in S => j <= k}}
           callees == {c.callee : c \in Calls(fn)}
           best == IF "member" \in Range(origins) THEN {"member"}
                   ELSE IF "alloc" \in Range(origins) THEN {"alloc"}
                   ELSE IF First(Params(fn)) # {} THEN First(Params(fn))
                   ELSE First(callees)
           o == PointerOrigin(fn, engine)
<1>1. o = IF best = {} THEN "unknown" ELSE CHOOSE b \in best : TRUE
    BY DEF PointerOrigin
<1>2. DOMAIN origins = DOMAIN Returns(fn)
    BY DEF ReturnOrigins
<1>3. \A S : \A b \in First(S) : \E i \in DOMAIN origins : origins[i] = b
    OBVIOUS
<1>4. \A b \in Range(origins) : \E i \in DOMAIN origins : origins[i] = b
    BY DEF Range
<1> HIDE DEF origins, First, callees, o
<1>5. \A b \in best : \E i \in DOMAIN origins : origins[i] = b
    <2>1. CASE "member" \in Range(origins)
        BY <1>4, <2>1
    <2>2. CASE "member" \notin Range(origins) /\ "alloc" \in Range(origins)
        BY <1>4, <2>2
    <2>3. CASE /\ "member" \notin Range(origins) /\ "alloc" \notin Range(origins)
               /\ First(Params(fn)) # {}
        BY <1>3, <2>3
    <2>4. CASE /\ "member" \notin Range(origins) /\ "alloc" \notin Range(origins)
               /\ First(Params(fn)) = {}
        BY <1>3, <2>4
    <2> QED
        BY <2>1, <2>2, <2>3, <2>4
<1> HIDE DEF best
<1>6. o \in best
    BY <1>1 DEF o
<1>7. PICK i \in DOMAIN origins : origins[i] = o
    BY <1>5, <1>6
<1> QED
    BY <1>2, <1>7 DEF origins, o

\* It is that of the last statement, when there is one but NULL.
LEMMA LastReturn ==
    ASSUME NEW fn, NEW engine, ReturnsLast(fn), PointerOrigin(fn, engine) # "unknown"
    PROVE  /\ Len(fn.body) \in DOMAIN fn.body
           /\ fn.body[Len(fn.body)].do = "return" /\ fn.body[Len(fn.body)].from.is # "null"
           /\ PointerOrigin(fn, engine)
                = OriginOf(fn, engine, Origins(fn, engine), fn.body[Len(fn.body)].from)
<1> DEFINE n == Len(fn.body)
<1>1. PICK i \in DOMAIN Returns(fn) : ReturnOrigins(fn, engine)[i] = PointerOrigin(fn, engine)
    BY PointerOriginReturned
<1>2. ReturnOrigins(fn, engine)[i] = OriginOf(fn, engine, Origins(fn, engine), Returns(fn)[i])
    BY <1>1 DEF ReturnOrigins
<1>3. Returns(fn)[i].is # "null"
    BY <1>1, <1>2 DEF OriginOf
<1>4. i = n
    BY <1>3 DEF ReturnsLast
<1>5. i \in DOMAIN fn.body /\ fn.body[i].do = "return" /\ Returns(fn)[i] = fn.body[i].from
    BY DEF Returns
<1> QED
    BY <1>1, <1>2, <1>3, <1>4, <1>5

\* Anything but NULL is returned by it.
LEMMA ResultIsLast ==
    ASSUME NEW fn, NEW analysis, WellFormed(fn, analysis), ReturnsLast(fn), NEW owned, NEW taken
    PROVE  \/ End(fn, owned, taken).result = NullValue
           \/ /\ Len(fn.body) \in 1 .. Len(fn.body) /\ Runs(fn, owned, taken, Len(fn.body))
              /\ fn.body[Len(fn.body)].do = "return"
              /\ End(fn, owned, taken).result = Got(fn, owned, taken, Len(fn.body))
<1> DEFINE n == Len(fn.body)
<1>1. n \in Nat /\ DOMAIN fn.body = 1 .. n
    BY BodyShape
<1>2. ASSUME NEW j \in 1 .. n, Runs(fn, owned, taken, j), fn.body[j].do = "return",
             End(fn, owned, taken).result = Got(fn, owned, taken, j),
             Got(fn, owned, taken, j) # NullValue
      PROVE  j = n
    <2>1. fn.body[j].from.is # "null"
        BY <1>2 DEF Got, Value
    <2>2. j \in DOMAIN Returns(fn) /\ Returns(fn)[j] = fn.body[j].from
        BY <1>1, <1>2 DEF Returns
    <2> QED
        BY <2>1, <2>2 DEF ReturnsLast
<1>3. \/ End(fn, owned, taken).result = NullValue
      \/ \E j \in 1 .. n :
            /\ Runs(fn, owned, taken, j) /\ fn.body[j].do = "return"
            /\ End(fn, owned, taken).result = Got(fn, owned, taken, j)
    BY <1>1, ResultAtEnd
<1> QED
    BY <1>2, <1>3

\* NULL, a literal and a fresh object are in no structure of the caller's.
LEMMA InWorld ==
    /\ ~ InStructure(NullValue) /\ ~ InStructure(Literal)
    /\ \A i, how : ~ InStructure(New(i, how))
BY DEF InStructure, NullValue, Literal, New

\* The walk does not forget a local it has an origin of.
LEMMA LearntStays ==
    ASSUME NEW fn, Len(fn.body) \in Nat, NEW engine, NEW x,
           NEW j \in 1 .. Len(fn.body), AssignsTo(fn.body[j], x), fn.body[j].from.is # "null"
    PROVE  \A i \in j .. Len(fn.body) : x \in DOMAIN OriginsAfter(fn, engine)[i]
<1> DEFINE S == {i \in 0 .. Len(fn.body) : j <= i => x \in DOMAIN OriginsAfter(fn, engine)[i]}
<1>1. 0 \in S
    OBVIOUS
<1>2. ASSUME NEW i \in 1 .. Len(fn.body), i - 1 \in S
      PROVE  i \in S
    <2> DEFINE before == OriginsAfter(fn, engine)[i - 1]
               now == OriginsAfter(fn, engine)[i]
               s == fn.body[i]
               o == OriginOf(fn, engine, before, s.from)
    <2>1. now = Learn(fn, engine, before, s)
        BY OriginsRecursion
    <2>2. now = before \/ (Assigns(s) /\ s.to.is = "ref" /\ now = Bind(before, s.to.name, o))
        <3> HIDE DEF before, now, s
        <3> QED
            BY <2>1 DEF Learn
    <2>3. CASE j = i
        <3>1. Assigns(s) /\ s.to.is = "ref" /\ s.to.name = x /\ ~ Overlooked(fn, engine, s)
            BY <2>3 DEF AssignsTo, Overlooked
        <3>2. now = Bind(before, x, o)
            <4> HIDE DEF before, now, s
            <4> QED
                BY <2>1, <3>1 DEF Learn, o
        <3>3. x \in DOMAIN now
            <4> HIDE DEF before, now, o
            <4> QED
                BY <3>2 DEF Bind
        <3> QED
            BY <3>3
    <2>4. CASE j < i
        <3>1. x \in DOMAIN before
            BY <1>2, <2>4
        <3>2. x \in DOMAIN now
            <4> HIDE DEF before, now, s, o
            <4> QED
                BY <2>2, <3>1 DEF Bind
        <3> QED
            BY <3>2
    <2>5. CASE i < j
        BY <2>5
    <2> QED
        BY <2>3, <2>4, <2>5
<1> HIDE DEF S
<1>3. \A i \in 0 .. Len(fn.body) : i \in S
    BY <1>1, <1>2, UpTo
<1> QED
    BY <1>3 DEF S

\* A local that holds an object the body obtained has an origin.
LEMMA HolderIsKnown ==
    ASSUME NEW fn, Len(fn.body) \in Nat, NEW engine, NEW owned, NEW taken, NEW x, NEW k, NEW how,
           NEW i \in 1 .. Len(fn.body),
           Held(After(fn, owned, taken, i - 1), x) = New(k, how)
    PROVE  x \in DOMAIN OriginsAfter(fn, engine)[i]
<1> DEFINE st == After(fn, owned, taken, i - 1)
<1>1. x \in DOMAIN st.env /\ st.env[x] = New(k, how)
    <2> HIDE DEF st
    <2>1. Held(st, x) = New(k, how)
        BY DEF st
    <2> QED
        BY <2>1, NewDiffers DEF Held
<1>2. LocalsGivenAt(fn, owned, taken, i - 1)
    BY LocalsGiven
<1>3. PICK j \in 1 .. i - 1 : AssignsTo(fn.body[j], x) /\ st.env[x] = Got(fn, owned, taken, j)
    BY <1>1, <1>2 DEF LocalsGivenAt
<1>4. fn.body[j].from.is # "null"
    <2>1. SUFFICES ASSUME fn.body[j].from.is = "null" PROVE FALSE
        OBVIOUS
    <2>2. Got(fn, owned, taken, j) = NullValue
        BY <2>1 DEF Got, Value
    <2> HIDE DEF st
    <2> QED
        BY <1>1, <1>3, <2>2, NewDiffers
<1>5. j \in 1 .. Len(fn.body) /\ i \in j .. Len(fn.body)
    BY <1>3
<1> QED
    BY <1>3, <1>4, <1>5, LearntStays

\* What is returned stays with its local, unless it escapes.
LEMMA ReturnedStaysOut ==
    ASSUME NEW fn, NEW analysis, WellFormed(fn, analysis), AssignedOnce(fn), ReturnsLast(fn),
           KeptByHandles(fn), library.engine = "libclang",
           ~ PassedAlong(fn, "libclang"), ~ Stored(fn),
           PointerOrigin(fn, "libclang") # "unknown",
           NEW n, n = Len(fn.body), NEW x, fn.body[n].from.is = "ref", fn.body[n].from.name = x,
           NEW k \in 1 .. n, AssignsTo(fn.body[k], x), NEW owned, NEW taken
    PROVE  ConfinedThroughout(fn, owned, taken, New(k, "result"), {x})
<1> DEFINE v == New(k, "result")
           X == {x}
<1>1. n \in Nat /\ n \in DOMAIN fn.body /\ fn.body[n].do = "return" /\ DOMAIN fn.body = 1 .. n
    BY BodyShape, LastReturn
<1>2. \A i \in DOMAIN Returns(fn) : Returns(fn)[i].is # "null" => i = n
    BY DEF ReturnsLast
<1>3. x \in ReturnedRoots(fn)
    <2>1. n \in DOMAIN Returns(fn) /\ Returns(fn)[n] = fn.body[n].from
        BY <1>1 DEF Returns
    <2>2. fn.body[n].from \in Range(Returns(fn))
        BY <2>1 DEF Range
    <2> QED
        BY <2>2 DEF ReturnedRoots
<1>4. \A y \in ReturnedRoots(fn) : y = x
    <2> SUFFICES ASSUME NEW r \in Range(Returns(fn)), r.is \in {"ref", "member", "deref"}
                 PROVE  r.name = x
        BY DEF ReturnedRoots
    <2>1. PICK i \in DOMAIN Returns(fn) : Returns(fn)[i] = r
        BY DEF Range
    <2>2. i = n
        BY <1>2, <2>1
    <2>3. Returns(fn)[n] = fn.body[n].from
        BY <2>1, <2>2 DEF Returns
    <2> QED
        BY <2>1, <2>2, <2>3
<1>5. ASSUME NEW i \in 1 .. n, NEW st, st = After(fn, owned, taken, i - 1), Confined(st, v, X)
      PROVE  Contained(fn, owned, st, i, v, X)
    <2> DEFINE s == fn.body[i]
               e == s.from
    <2>1. i \in DOMAIN fn.body /\ StatementOfC(s) /\ s \in Range(fn.body)
        BY <1>1, BodyShape
    <2>2. e.is \in Simple \cup {"call"}
        BY <2>1 DEF StatementOfC
    <2>3. ASSUME Value(st, owned, e, i, "result") = v, Assigns(s), ~ WritesOut(fn, s)
          PROVE  s.to.is = "ref" /\ s.to.name \in X
        <3>1. \/ e.is = "ref" /\ e.name \in X
              \/ i = k
            <4> HIDE DEF e
            <4> QED
                BY <1>5, <2>2, <2>3, FreshSource
        <3>2. CASE i = k
            BY <3>2 DEF AssignsTo
        <3>3. ASSUME e.is = "ref", e.name = x PROVE FALSE
            <4>1. s.to.is # "ref"
                BY <2>1, <2>3, <3>3 DEF AssignedOnce
            <4>2. s.do = "set"
                BY <2>1, <2>3, <4>1 DEF StatementOfC, Assigns
            <4>3. s.to.is = "member" /\ s.to.name \in fn.handles
                BY <1>3, <2>1, <2>3, <3>3, <4>1, <4>2 DEF KeptByHandles
            <4>4. x \in NamesIn(e)
                BY <3>3 DEF NamesIn
            <4>5. Stored(fn)
                BY <1>3, <2>1, <4>2, <4>3, <4>4 DEF Stored
            <4> QED
                BY <4>5
        <3> QED
            BY <3>1, <3>2, <3>3
    <2>4. ASSUME NEW c \in CallsIn(e), Keeps(st, owned, c, i), v \in Passed(st, owned, c, i)
          PROVE  FALSE
        <3>1. PICK a \in Range(c.args) : Value(st, owned, a, i, "argument") = v
            BY <2>4, PassedFrom
        <3>2. /\ c \in Calls(fn)
              /\ \A b \in Range(c.args) : b.is \in Simple \cup {"call"}
            BY CallShape
        <3>3. a.is = "ref" /\ a.name = x
            BY <1>5, <3>1, <3>2, FreshSource
        <3>4. c.callee \notin Allocators \cup Deallocators
            BY <2>4 DEF Keeps
        <3> DEFINE Result(b) == b.is = "ref" /\ b.name \in ReturnedRoots(fn)
                   Handle(b) == b.is = "ref" /\ b.name \in fn.handles
        <3>5. /\ \A b \in Range(c.args) : Result(b) \/ Handle(b) \/ b.is \in {"null", "text"}
              /\ c.callee \notin Range(ReturnOrigins(fn, "libclang"))
            BY <1>3, <3>2, <3>3, <3>4 DEF KeptByHandles
        <3>6. PICK w \in Passed(st, owned, c, i) : InStructure(w)
            BY <2>4 DEF Keeps
        <3>7. PICK b \in Range(c.args) : Value(st, owned, b, i, "argument") = w
            BY <3>6, PassedFrom
        <3>8. b.is \notin {"null", "text"}
            BY <3>6, <3>7, InWorld DEF Value
        <3>9. ~ Result(b)
            <4>1. SUFFICES ASSUME b.is = "ref", b.name = x PROVE FALSE
                BY <1>4
            <4>2. w = Held(st, x)
                BY <3>7, <4>1 DEF Value
            <4>3. v = Held(st, x)
                BY <3>1, <3>3 DEF Value
            <4>4. ~ InStructure(v)
                BY InWorld
            <4> QED
                BY <3>6, <4>2, <4>3, <4>4
        <3>10. b.is = "ref" /\ b.name \in fn.handles
            BY <3>5, <3>8, <3>9
        <3>11. fn.handles \subseteq Params(fn)
            BY DEF WellFormed
        <3>12. /\ x \in PassedRoots(fn, "libclang", i, c)
               /\ b.name \in PassedRoots(fn, "libclang", i, c)
            <4>1. Held(st, x) = New(k, "result")
                BY <3>1, <3>3 DEF Value
            <4>2. Held(After(fn, owned, taken, i - 1), x) = New(k, "result")
                BY <1>5, <4>1
            <4>3. Len(fn.body) \in Nat /\ i \in 1 .. Len(fn.body)
                BY <1>1, <1>5
            <4>4. x \in DOMAIN OriginsAfter(fn, "libclang")[i]
                BY <4>2, <4>3, HolderIsKnown
            <4> QED
                BY <3>3, <3>10, <3>11, <4>4 DEF PassedRoots
        <3>13. PointerOrigin(fn, "libclang") \in Range(ReturnOrigins(fn, "libclang"))
            <4>1. PICK j \in DOMAIN Returns(fn) :
                    ReturnOrigins(fn, "libclang")[j] = PointerOrigin(fn, "libclang")
                BY PointerOriginReturned
            <4>2. j \in DOMAIN ReturnOrigins(fn, "libclang")
                BY DEF ReturnOrigins
            <4> QED
                BY <4>1, <4>2 DEF Range
        <3>14. PassedAlong(fn, "libclang")
            BY <1>3, <2>1, <3>4, <3>5, <3>10, <3>12, <3>13 DEF PassedAlong
        <3> QED
            BY <3>14
    <2> QED
        BY <2>3, <2>4 DEF Contained
<1> HIDE DEF v, X
<1>6. ConfinedThroughout(fn, owned, taken, v, X)
    BY <1>1, <1>5, StaysConfined
<1> QED
    BY <1>6 DEF v, X

\* The result of the call that is returned is held by nothing.
LEMMA CallStaysOut ==
    ASSUME NEW fn, NEW analysis, WellFormed(fn, analysis),
           NEW n \in 1 .. Len(fn.body), fn.body[n].do = "return", NEW owned, NEW taken
    PROVE  ConfinedThroughout(fn, owned, taken, New(n, "result"), {})
<1> DEFINE v == New(n, "result")
<1>1. ASSUME NEW i \in 1 .. Len(fn.body), NEW st, Confined(st, v, {})
      PROVE  Contained(fn, owned, st, i, v, {})
    <2> DEFINE s == fn.body[i]
               e == s.from
    <2>1. StatementOfC(s)
        BY BodyShape
    <2>2. e.is \in Simple \cup {"call"}
        BY <2>1 DEF StatementOfC
    <2>3. ASSUME Value(st, owned, e, i, "result") = v
          PROVE  ~ Assigns(s)
        <3>1. i = n
            <4> HIDE DEF e
            <4> QED
                BY <1>1, <2>2, <2>3, FreshSource
        <3> QED
            BY <3>1 DEF Assigns
    <2>4. ASSUME NEW c \in CallsIn(e), v \in Passed(st, owned, c, i)
          PROVE  FALSE
        <3>1. PICK a \in Range(c.args) : Value(st, owned, a, i, "argument") = v
            BY <2>4, PassedFrom
        <3>2. a.is \in Simple \cup {"call"}
            BY CallShape
        <3> QED
            BY <1>1, <3>1, <3>2, FreshSource
    <2> QED
        BY <2>3, <2>4 DEF Contained
<1> HIDE DEF v
<1>2. ConfinedThroughout(fn, owned, taken, v, {})
    BY <1>1, BodyShape, StaysConfined
<1> QED
    BY <1>2 DEF v

\* A function whose origin is an allocation, or a callee that gives away its
\* result, hands over its own.
LEMMA FreshPointerHandedOver ==
    ASSUME NEW fn, NEW analysis, WellFormed(fn, analysis), Straightforward(fn), Traceable(fn),
           library.engine = "libclang", ~ Escapes(fn, "libclang"), NEW owned, NEW taken,
           PointerOrigin(fn, "libclang") \notin Params(fn),
           \/ PointerOrigin(fn, "libclang") = "alloc"
           \/ /\ PointerOrigin(fn, "libclang") \in owned
              /\ PointerOrigin(fn, "libclang") \notin Tags
    PROVE  HandedOver(End(fn, owned, taken), End(fn, owned, taken).result)
<1> DEFINE n == Len(fn.body)
           o == PointerOrigin(fn, "libclang")
           end == End(fn, owned, taken)
<1>1. o \notin {"member", "unknown", "static"}
    BY DEF Tags
<1>2. ~ PassedAlong(fn, "libclang") /\ ~ Stored(fn)
    BY <1>1 DEF Escapes
<1>3. AssignedOnce(fn) /\ ReturnsLast(fn) /\ KeptByHandles(fn)
    BY DEF Straightforward, Traceable
<1>4. n \in Nat /\ n \in 1 .. n /\ fn.body[n].do = "return"
      /\ o = OriginOf(fn, "libclang", Origins(fn, "libclang"), fn.body[n].from)
    BY <1>1, <1>3, LastReturn, BodyShape
<1>5. ComesFrom(fn, fn.body[n].from, Allocators \cup owned)
    BY <1>3, <1>4, OwnedOrigin
<1>6. CASE end.result = NullValue
    BY <1>6 DEF HandedOver
<1>7. CASE end.result = Got(fn, owned, taken, n) /\ Runs(fn, owned, taken, n)
    <2>1. ASSUME NEW k \in 1 .. n, end.result = New(k, "result"),
                 NEW X, ConfinedThroughout(fn, owned, taken, New(k, "result"), X)
          PROVE  HandedOver(end, end.result)
        <3>1. New(k, "result") \notin end.kept \cup Range(end.fields)
            BY <1>4, <2>1, ConfinedAtEnd
        <3>2. New(k, "result")[1] = "new"
            BY DEF New
        <3> DEFINE v == New(k, "result")
        <3> HIDE DEF v, end
        <3>3. HandedOver(end, v)
            BY <3>1, <3>2 DEF HandedOver, v
        <3> QED
            BY <2>1, <3>3 DEF v
    <2>2. ASSUME end.result = NullValue
          PROVE  HandedOver(end, end.result)
        BY <2>2 DEF HandedOver
    <2>3. ASSUME fn.body[n].from.is = "call" /\ end.result = New(n, "result")
          PROVE  HandedOver(end, end.result)
        <3>1. ConfinedThroughout(fn, owned, taken, New(n, "result"), {})
            BY <1>4, CallStaysOut
        <3> QED
            BY <1>4, <2>1, <2>3, <3>1
    <2>4. ASSUME fn.body[n].from.is = "ref", NEW x, x = fn.body[n].from.name, x \notin Params(fn),
                 NEW k \in 1 .. n, AssignsTo(fn.body[k], x), end.result = New(k, "result")
          PROVE  HandedOver(end, end.result)
        <3>1. ConfinedThroughout(fn, owned, taken, New(k, "result"), {x})
            BY <1>1, <1>2, <1>3, <2>4, ReturnedStaysOut
        <3> QED
            BY <2>1, <2>4, <3>1
    <2>5. \/ Got(fn, owned, taken, n) = NullValue
          \/ fn.body[n].from.is = "call" /\ Got(fn, owned, taken, n) = New(n, "result")
          \/ /\ fn.body[n].from.is = "ref" /\ fn.body[n].from.name \notin Params(fn)
             /\ \E k \in 1 .. n :
                    /\ AssignsTo(fn.body[k], fn.body[n].from.name)
                    /\ Got(fn, owned, taken, n) = New(k, "result")
        <3>1. FreshAt(fn, owned, taken, n)
            BY <1>4, <1>5, <1>7, SourceIsFresh
        <3> QED
            BY <3>1 DEF FreshAt
    <2>6. HandedOver(end, end.result)
        <3> HIDE DEF n, end
        <3> QED
            BY <1>7, <2>2, <2>3, <2>4, <2>5
    <2> QED
        BY <2>6
<1> QED
    BY <1>3, <1>6, <1>7, ResultIsLast

-----------------------------------------------------------------------------
(* Pointers: the fields of the arguments.                                  *)

\* A parameter that is not reassigned is its argument throughout.
LEMMA ParamIsArgument ==
    ASSUME NEW fn, NEW analysis, WellFormed(fn, analysis), AssignedOnce(fn),
           NEW owned, NEW taken, NEW i \in 0 .. Len(fn.body), NEW p \in Params(fn)
    PROVE  Held(After(fn, owned, taken, i), p) = Arg(p)
<1> DEFINE st == After(fn, owned, taken, i)
<1>1. LocalsGivenAt(fn, owned, taken, i)
    BY BodyShape, LocalsGiven
<1>2. ASSUME p \in DOMAIN st.env PROVE FALSE
    <2>1. PICK j \in 1 .. i : AssignsTo(fn.body[j], p)
        BY <1>1, <1>2 DEF LocalsGivenAt
    <2>2. j \in 1 .. Len(fn.body)
        BY <2>1, BodyShape
    <2>3. fn.body[j] \in Range(fn.body)
        BY <2>2, BodyShape
    <2> QED
        BY <2>1, <2>3 DEF AssignedOnce, AssignsTo
<1> QED
    BY <1>2 DEF Held

\* A field of an argument that has a value of its own was assigned one.
FieldsGivenAt(fn, owned, taken, i) ==
    \A k \in DOMAIN After(fn, owned, taken, i).fields : \E j \in 1 .. i :
        /\ Assigns(fn.body[j]) /\ fn.body[j].to.is = "member"
        /\ k[2] = fn.body[j].to.path

\* That is so of every execution.
LEMMA FieldsGiven ==
    ASSUME NEW fn, Len(fn.body) \in Nat, NEW owned, NEW taken
    PROVE  \A i \in 0 .. Len(fn.body) : FieldsGivenAt(fn, owned, taken, i)
<1> DEFINE S == {i \in 0 .. Len(fn.body) : FieldsGivenAt(fn, owned, taken, i)}
<1>1. 0 \in S
    <2>1. DOMAIN After(fn, owned, taken, 0).fields = {}
        BY StepAt DEF Entered
    <2> QED
        BY <2>1 DEF FieldsGivenAt
<1>2. ASSUME NEW i \in 1 .. Len(fn.body), i - 1 \in S
      PROVE  i \in S
    <2> DEFINE st == After(fn, owned, taken, i - 1)
               end == After(fn, owned, taken, i)
               s == fn.body[i]
    <2>1. FieldsGivenAt(fn, owned, taken, i - 1)
        BY <1>2
    <2>2. \A k \in DOMAIN st.fields : \E j \in 1 .. i :
            Assigns(fn.body[j]) /\ fn.body[j].to.is = "member" /\ k[2] = fn.body[j].to.path
        <3> TAKE k \in DOMAIN st.fields
        <3>1. PICK j \in 1 .. i - 1 :
                Assigns(fn.body[j]) /\ fn.body[j].to.is = "member" /\ k[2] = fn.body[j].to.path
            BY <2>1 DEF FieldsGivenAt
        <3>2. j \in 1 .. i
            OBVIOUS
        <3> QED
            BY <3>1, <3>2
    <2>3. CASE end.fields = st.fields
        BY <2>2, <2>3 DEF FieldsGivenAt
    <2>4. CASE end.fields # st.fields
        <3> DEFINE key == <<Held(st, s.to.name)[2], s.to.path>>
        <3>1. Runs(fn, owned, taken, i) /\ end = Execute(fn, owned, st, i)
            BY <2>4, StepAt
        <3>2. /\ WritesField(st, s)
              /\ end.fields = Bind(st.fields, key, Value(st, owned, s.from, i, "result"))
            <4> HIDE DEF st, end
            <4> QED
                BY <2>4, <3>1 DEF Execute
        <3>3. DOMAIN end.fields = DOMAIN st.fields \cup {key}
            <4> HIDE DEF st, end, key
            <4> QED
                BY <3>2 DEF Bind
        <3>4. Assigns(s) /\ s.to.is = "member" /\ key[2] = s.to.path
            BY <3>2 DEF WritesField
        <3>5. \A k \in DOMAIN end.fields : \E j \in 1 .. i :
                Assigns(fn.body[j]) /\ fn.body[j].to.is = "member" /\ k[2] = fn.body[j].to.path
            <4> HIDE DEF st, end, key
            <4> QED
                BY <2>2, <3>3, <3>4
        <3> QED
            BY <3>5 DEF FieldsGivenAt
    <2> QED
        BY <2>3, <2>4
<1> HIDE DEF S
<1>3. \A i \in 0 .. Len(fn.body) : i \in S
    BY <1>1, <1>2, UpTo
<1> QED
    BY <1>3 DEF S

\* One that is assigned on every path has one while the body runs.
SetsField(fn, j, p, f) ==
    /\ Assigns(fn.body[j]) /\ ~ fn.body[j].branch
    /\ fn.body[j].to.is = "member" /\ fn.body[j].to.name = p /\ fn.body[j].to.path = f

FieldBoundAt(fn, owned, taken, j, p, f, i) ==
    i >= j /\ ~ After(fn, owned, taken, i).returned =>
        <<p, f>> \in DOMAIN After(fn, owned, taken, i).fields

\* That is so of every execution.
LEMMA FieldBound ==
    ASSUME NEW fn, NEW analysis, WellFormed(fn, analysis), AssignedOnce(fn), NEW owned, NEW taken,
           NEW j \in 1 .. Len(fn.body), NEW p \in Params(fn), NEW f, SetsField(fn, j, p, f)
    PROVE  \A i \in 0 .. Len(fn.body) : FieldBoundAt(fn, owned, taken, j, p, f, i)
<1> DEFINE S == {i \in 0 .. Len(fn.body) : FieldBoundAt(fn, owned, taken, j, p, f, i)}
<1>1. 0 \in S /\ Len(fn.body) \in Nat
    BY BodyShape DEF FieldBoundAt
<1>2. ASSUME NEW i \in 1 .. Len(fn.body), i - 1 \in S
      PROVE  i \in S
    <2> DEFINE st == After(fn, owned, taken, i - 1)
               end == After(fn, owned, taken, i)
    <2>1. FieldBoundAt(fn, owned, taken, j, p, f, i - 1)
        BY <1>2
    <2>2. ASSUME i >= j, ~ end.returned
          PROVE  <<p, f>> \in DOMAIN end.fields
        <3>1. CASE ~ Runs(fn, owned, taken, i)
            <4>1. end = st
                BY <1>1, <3>1, StepAt
            <4>2. ~ st.returned /\ fn.body[i].branch
                BY <2>2, <3>1, <4>1 DEF Runs
            <4>3. i - 1 >= j
                BY <1>1, <2>2, <4>2 DEF SetsField
            <4>4. <<p, f>> \in DOMAIN st.fields
                BY <2>1, <4>2, <4>3 DEF FieldBoundAt
            <4> QED
                BY <4>1, <4>4
        <3>2. CASE Runs(fn, owned, taken, i)
            <4>1. end = Execute(fn, owned, st, i) /\ ~ st.returned
                BY <1>1, <3>2, StepAt DEF Runs
            <4>2. DOMAIN st.fields \subseteq DOMAIN end.fields
                <5> HIDE DEF end, st
                <5> QED
                    BY <4>1 DEF Execute, Bind
            <4>3. CASE i = j
                <5>1. i - 1 \in 0 .. Len(fn.body)
                    BY <1>1
                <5>2. Held(st, p) = Arg(p)
                    BY <5>1, ParamIsArgument
                <5>3. Arg(p)[1] = "arg" /\ Arg(p)[2] = p
                    BY DEF Arg
                <5>4. /\ Held(st, fn.body[i].to.name)[1] = "arg"
                      /\ Held(st, fn.body[i].to.name)[2] = p
                    BY <4>3, <5>2, <5>3 DEF SetsField
                <5>5. WritesField(st, fn.body[i])
                    BY <4>3, <5>4 DEF WritesField, SetsField
                <5>6. fn.body[i].to.path = f
                    BY <4>3 DEF SetsField
                <5>7. end.fields = Bind(st.fields, <<p, f>>, Value(st, owned, fn.body[i].from, i, "result"))
                    <6> HIDE DEF end, st
                    <6> QED
                        BY <4>1, <5>4, <5>5, <5>6 DEF Execute
                <5> QED
                    BY <5>7 DEF Bind
            <4>4. CASE i # j
                <5>1. i - 1 >= j
                    BY <1>1, <2>2, <4>4
                <5>2. <<p, f>> \in DOMAIN st.fields
                    BY <2>1, <4>1, <5>1 DEF FieldBoundAt
                <5> QED
                    BY <4>2, <5>2
            <4> QED
                BY <4>3, <4>4
        <3> QED
            BY <3>1, <3>2
    <2>3. FieldBoundAt(fn, owned, taken, j, p, f, i)
        BY <2>2 DEF FieldBoundAt
    <2> QED
        BY <2>3
<1> HIDE DEF S
<1>3. \A i \in 0 .. Len(fn.body) : i \in S
    BY <1>1, <1>2, UpTo
<1> QED
    BY <1>3 DEF S

\* A local of X, or a read of the field, is the only way to what a field held
\* first.
LEMMA InitialSource ==
    ASSUME NEW st, NEW owned, NEW e, NEW i, NEW h, NEW p, NEW f, NEW X,
           e.is \in Simple \cup {"call"},
           Confined(st, Initial(p, f), X), Value(st, owned, e, i, h) = Initial(p, f)
    PROVE  \/ /\ e.is = "ref" /\ e.name \in X
              /\ e.name \in DOMAIN st.env /\ st.env[e.name] = Initial(p, f)
           \/ e.is = "member" /\ e.path = f
<1>1. /\ Initial(p, f) # NullValue /\ Initial(p, f) # Literal
      /\ Initial(p, f) # Lent(i, h) /\ Initial(p, f) # New(i, h)
      /\ \A q : Initial(p, f) # Arg(q)
      /\ \A q, g : Initial(q, g) = Initial(p, f) => g = f
    BY DEF Initial, NullValue, Literal, Lent, New, Arg
<1>2. CASE e.is \in {"null", "text", "deref"}
    <2>1. Value(st, owned, e, i, h) \in {NullValue, Literal, Lent(i, h)}
        BY <1>2 DEF Value
    <2> QED
        BY <1>1, <2>1
<1>3. CASE e.is = "ref"
    <2>1. Held(st, e.name) = Initial(p, f)
        BY <1>3 DEF Value
    <2>2. e.name \in DOMAIN st.env
        BY <1>1, <2>1 DEF Held
    <2>3. st.env[e.name] = Initial(p, f)
        BY <2>1, <2>2 DEF Held
    <2> QED
        BY <1>3, <2>2, <2>3 DEF Confined
<1>4. CASE e.is = "call"
    <2>1. Value(st, owned, e, i, h) \in {New(i, h), Lent(i, h)}
        BY <1>4 DEF Value
    <2> QED
        BY <1>1, <2>1
<1>5. CASE e.is = "member"
    <2> DEFINE root == Held(st, e.name)
    <2>1. FieldValue(st, root, e.path, i, h) = Initial(p, f)
        BY <1>5 DEF Value
    <2> HIDE DEF root
    <2>2. \/ Initial(p, f) = Lent(i, h)
          \/ Initial(p, f) = Initial(root[2], e.path)
          \/ /\ <<root[2], e.path>> \in DOMAIN st.fields
             /\ Initial(p, f) = st.fields[<<root[2], e.path>>]
        BY <2>1 DEF FieldValue
    <2>3. Initial(p, f) = Initial(root[2], e.path)
        BY <1>1, <2>2 DEF Confined
    <2>4. e.path = f
        BY <2>3 DEF Initial
    <2> QED
        BY <1>5, <2>4
<1> QED
    BY <1>2, <1>3, <1>4, <1>5 DEF Simple

-----------------------------------------------------------------------------
(* Pointers: what is detached.                                             *)

\* Statement i reads field f of parameter p into x, which is returned; j clears
\* the field; and x is not handed on in between.
Detaching(fn, x, i, j, p, f) ==
    LET n == Len(fn.body) IN
    /\ i \in 1 .. n /\ j \in 1 .. n /\ p \in Params(fn) /\ x \notin Params(fn)
    /\ fn.body[n].from.is = "ref" /\ fn.body[n].from.name = x
    /\ AssignsTo(fn.body[i], x) /\ fn.body[i].from.is = "member"
    /\ fn.body[i].from.name = p /\ fn.body[i].from.path = f
    /\ fn.body[j].do = "set" /\ fn.body[j].to = fn.body[i].from
    /\ \A m \in 1 .. n : m > i => x \notin Uses(fn.body[m])

\* A body that libclang takes for a detach has those statements.
LEMMA DetachesShape ==
    ASSUME NEW fn, NEW analysis, WellFormed(fn, analysis), AssignedOnce(fn), Detaches(fn),
           NEW n, n = Len(fn.body), n \in DOMAIN fn.body, fn.body[n].do = "return",
           fn.body[n].from.is # "null"
    PROVE  \E x, i, j, p, f : Detaching(fn, x, i, j, p, f)
<1> DEFINE kept == {e \in Range(Returns(fn)) : e.is # "null"}
<1>1. PICK s \in Range(fn.body) :
        /\ Assigns(s) /\ s.to.is = "ref" /\ kept = {s.to}
        /\ \E i \in LastAssigned(fn, s.to.name) :
             LET held == fn.body[i].from IN
             /\ held.is = "member" /\ held.name \in Params(fn)
             /\ \E c \in Calls(fn) : c.callee \in Deallocators /\ held \in Range(c.args)
             /\ \E j \in DOMAIN fn.body :
                  j > i /\ fn.body[j].do = "set" /\ fn.body[j].to = held
                        /\ fn.body[j].from.is = "null"
             /\ \A j \in DOMAIN fn.body : j > i => s.to.name \notin Uses(fn.body[j])
    BY DEF Detaches
<1> DEFINE x == s.to.name
<1>2. PICK i \in LastAssigned(fn, x) :
             /\ fn.body[i].from.is = "member" /\ fn.body[i].from.name \in Params(fn)
             /\ \E j \in DOMAIN fn.body :
                  j > i /\ fn.body[j].do = "set" /\ fn.body[j].to = fn.body[i].from
             /\ \A j \in DOMAIN fn.body : j > i => x \notin Uses(fn.body[j])
    BY <1>1
<1>3. PICK j \in DOMAIN fn.body : fn.body[j].do = "set" /\ fn.body[j].to = fn.body[i].from
    BY <1>2
<1>4. DOMAIN fn.body = 1 .. n
    BY BodyShape
<1>5. i \in DOMAIN fn.body /\ AssignsTo(fn.body[i], x)
    BY <1>2 DEF LastAssigned
<1>6. x \notin Params(fn)
    BY <1>1 DEF AssignedOnce
<1>7. fn.body[n].from = s.to
    <2>1. n \in DOMAIN Returns(fn) /\ Returns(fn)[n] = fn.body[n].from
        BY DEF Returns
    <2>2. fn.body[n].from \in kept
        BY <2>1 DEF Range
    <2> QED
        BY <1>1, <2>2
<1>8. fn.body[n].from.is = "ref" /\ fn.body[n].from.name = x
    BY <1>1, <1>7
<1> HIDE DEF x
<1>9. Detaching(fn, x, i, j, fn.body[i].from.name, fn.body[i].from.path)
    BY <1>2, <1>3, <1>4, <1>5, <1>6, <1>8 DEF Detaching
<1> QED
    BY <1>9

\* What libclang takes for a detach is one: what is returned is what the field
\* held first, the field is given another value, and nothing else leads there.
LEMMA DetachedHandedOver ==
    ASSUME NEW fn, NEW analysis, WellFormed(fn, analysis), Straightforward(fn), Traceable(fn),
           Detaches(fn), PointerOrigin(fn, "libclang") # "unknown", NEW owned, NEW taken
    PROVE  HandedOver(End(fn, owned, taken), End(fn, owned, taken).result)
<1> DEFINE n == Len(fn.body)
           end == End(fn, owned, taken)
           st(m) == After(fn, owned, taken, m)
<1>1. AssignedOnce(fn) /\ Initialised(fn) /\ ReturnsLast(fn) /\ TakenOnce(fn)
    BY DEF Straightforward, Traceable
<1>2. n \in Nat /\ DOMAIN fn.body = 1 .. n
    BY BodyShape
<1>3. n \in DOMAIN fn.body /\ fn.body[n].do = "return" /\ fn.body[n].from.is # "null"
    BY <1>1, LastReturn
<1>4. PICK x, i, j, p, f : Detaching(fn, x, i, j, p, f)
    BY <1>1, <1>3, DetachesShape
<1>5. i \in 1 .. n /\ j \in 1 .. n /\ p \in Params(fn) /\ x \notin Params(fn)
    BY <1>4 DEF Detaching
<1>6. fn.body[n].from.is = "ref" /\ fn.body[n].from.name = x
    BY <1>4 DEF Detaching
<1>7. /\ AssignsTo(fn.body[i], x) /\ fn.body[i].from.is = "member"
      /\ fn.body[i].from.name = p /\ fn.body[i].from.path = f
    BY <1>4 DEF Detaching
<1>8. /\ \A m \in 1 .. n : fn.body[m].from.is = "member" /\ fn.body[m].from.path = f => m = i
      /\ \A m \in 1 .. n :
            Assigns(fn.body[m]) /\ fn.body[m].to.is = "member" /\ fn.body[m].to.path = f
                => m > i /\ ~ fn.body[m].branch
      /\ \A c \in Calls(fn) : c.callee \notin Allocators \cup Deallocators =>
            \A a \in Range(c.args) : ~ (a.is = "member" /\ a.path = f)
    <2>1. n \in DOMAIN Returns(fn) /\ Returns(fn)[n] = fn.body[n].from
        BY <1>3 DEF Returns
    <2>2. x \in ReturnedRoots(fn)
        BY <1>6, <2>1 DEF ReturnedRoots, Range
    <2>3. Assigns(fn.body[i]) /\ fn.body[i].to.is = "ref" /\ fn.body[i].to.name = x
        BY <1>7 DEF AssignsTo
    <2> QED
        BY <1>1, <1>2, <1>5, <1>7, <2>2, <2>3 DEF TakenOnce
<1> DEFINE v == Initial(p, f)
<1>9. Got(fn, owned, taken, i) = v
    <2>1. i - 1 \in 0 .. n
        BY <1>2, <1>5
    <2>2. Held(st(i - 1), p) = Arg(p)
        BY <1>1, <1>5, <2>1, ParamIsArgument
    <2>3. <<p, f>> \notin DOMAIN st(i - 1).fields
        <3>1. FieldsGivenAt(fn, owned, taken, i - 1)
            BY <1>2, <2>1, FieldsGiven
        <3>2. ASSUME <<p, f>> \in DOMAIN st(i - 1).fields PROVE FALSE
            <4>1. PICK m \in 1 .. i - 1 : /\ Assigns(fn.body[m]) /\ fn.body[m].to.is = "member"
                                          /\ <<p, f>>[2] = fn.body[m].to.path
                BY <3>1, <3>2 DEF FieldsGivenAt
            <4>2. m \in 1 .. n /\ ~ (m > i) /\ fn.body[m].to.path = f
                BY <1>2, <1>5, <4>1
            <4> QED
                BY <1>8, <4>1, <4>2
        <3> QED
            BY <3>2
    <2>4. Got(fn, owned, taken, i) = FieldValue(st(i - 1), Held(st(i - 1), p), f, i, "result")
        BY <1>7 DEF Got, Value
    <2>5. Arg(p)[1] = "arg" /\ Arg(p)[2] = p
        BY DEF Arg
    <2>6. FieldValue(st(i - 1), Arg(p), f, i, "result") = Initial(p, f)
        BY <2>3, <2>5 DEF FieldValue
    <2> QED
        BY <2>2, <2>4, <2>6
<1>10. v # NullValue
    BY DEF Initial, NullValue
\* x holds it only after i.
<1>11. ASSUME NEW m \in 1 .. n, x \in DOMAIN st(m - 1).env, st(m - 1).env[x] = v
       PROVE  m > i
    <2> DEFINE h == m - 1
    <2>1. h \in 0 .. n /\ m = h + 1 /\ fn.body[i].from.is # "null"
        BY <1>2, <1>7
    <2>2. x \in DOMAIN After(fn, owned, taken, h).env /\ After(fn, owned, taken, h).env[x] = v
        BY <1>11
    <2> HIDE DEF h, v
    <2>3. After(fn, owned, taken, h).env[x] = NullValue \/ i <= h
        <3>1. i \in 1 .. Len(fn.body) /\ AssignsTo(fn.body[i], x) /\ AssignedOnce(fn)
            BY <1>1, <1>5, <1>7
        <3>2. fn.body[i].from.is # "null" /\ h \in 0 .. Len(fn.body)
            BY <2>1
        <3>3. x \in DOMAIN After(fn, owned, taken, h).env
            BY <2>2
        <3>4. HoldsSince(fn, owned, taken, x, i, h)
            BY <3>1, <3>2, <3>3, LocalHolds
        <3> QED
            BY <3>4 DEF HoldsSince
    <2> QED
        BY <1>2, <1>5, <1>10, <2>1, <2>2, <2>3
<1>12. ConfinedThroughout(fn, owned, taken, v, {x})
    <2>1. ASSUME NEW m \in 1 .. n, Confined(st(m - 1), v, {x})
          PROVE  Contained(fn, owned, st(m - 1), m, v, {x})
        <3> DEFINE s == fn.body[m]
                   e == s.from
        <3>1. m \in DOMAIN fn.body /\ StatementOfC(s) /\ s \in Range(fn.body)
            BY BodyShape
        <3>2. e.is \in Simple \cup {"call"}
            BY <3>1 DEF StatementOfC
        <3>3. ASSUME Value(st(m - 1), owned, e, m, "result") = v, Assigns(s)
              PROVE  s.to.is = "ref" /\ s.to.name \in {x}
            <4> HIDE DEF e
            <4>1. \/ /\ e.is = "ref" /\ e.name = x
                     /\ x \in DOMAIN st(m - 1).env /\ st(m - 1).env[x] = v
                  \/ e.is = "member" /\ e.path = f
                BY <2>1, <3>2, <3>3, InitialSource
            <4>2. ASSUME e.is = "ref", e.name = x, m > i PROVE FALSE
                <5>1. s.to.is # "ref"
                    BY <1>1, <3>1, <3>3, <4>2 DEF AssignedOnce, e
                <5>2. s.do = "set"
                    BY <3>1, <3>3, <5>1 DEF StatementOfC, Assigns
                <5>3. x \in NamesIn(e)
                    BY <4>2 DEF NamesIn
                <5>4. x \in Uses(s)
                    BY <5>2, <5>3 DEF Uses, e
                <5> QED
                    BY <1>4, <4>2, <5>4 DEF Detaching
            <4>3. CASE e.is = "member" /\ e.path = f
                <5>1. m = i
                    BY <1>8, <4>3 DEF e
                <5> QED
                    BY <1>7, <5>1 DEF AssignsTo
            <4> QED
                BY <1>11, <4>1, <4>2, <4>3
        <3>4. ASSUME NEW c \in CallsIn(e), Keeps(st(m - 1), owned, c, m),
                     v \in Passed(st(m - 1), owned, c, m)
              PROVE  FALSE
            <4>1. PICK a \in Range(c.args) : Value(st(m - 1), owned, a, m, "argument") = v
                BY <3>4, PassedFrom
            <4>2. /\ c \in Calls(fn) /\ a.is \in Simple \cup {"call"}
                  /\ a.is \in {"ref", "deref", "member"} => a.name \in NamesIn(c)
                BY CallShape
            <4>3. \/ /\ a.is = "ref" /\ a.name = x
                     /\ x \in DOMAIN st(m - 1).env /\ st(m - 1).env[x] = v
                  \/ a.is = "member" /\ a.path = f
                BY <2>1, <4>1, <4>2, InitialSource
            <4>4. c.callee \notin Allocators \cup Deallocators
                BY <3>4 DEF Keeps
            <4>5. a.is = "ref" /\ a.name = x /\ m > i
                BY <1>8, <1>11, <4>2, <4>3, <4>4
            <4>6. x \in Uses(s)
                BY <4>2, <4>5 DEF Uses
            <4> QED
                BY <1>4, <4>5, <4>6 DEF Detaching
        <3> QED
            BY <3>3, <3>4 DEF Contained
    <2> HIDE DEF v
    <2> QED
        BY <1>2, <2>1, StaysConfined
<1>13. ASSUME Runs(fn, owned, taken, n)
       PROVE  <<p, f>> \in DOMAIN end.fields
    <2>1. fn.body[j].do = "set" /\ fn.body[j].to = fn.body[i].from
        BY <1>4 DEF Detaching
    <2>2. Assigns(fn.body[j]) /\ fn.body[j].to.is = "member"
          /\ fn.body[j].to.name = p /\ fn.body[j].to.path = f
        BY <1>7, <2>1 DEF Assigns
    <2>3. SetsField(fn, j, p, f)
        BY <1>5, <1>8, <2>2 DEF SetsField
    <2>4. j # n
        BY <1>3, <2>1
    <2> DEFINE h == n - 1
    <2>5. h \in 0 .. n /\ h >= j /\ ~ After(fn, owned, taken, h).returned
        BY <1>2, <1>3, <1>5, <1>13, <2>4 DEF Runs
    <2> HIDE DEF h
    <2>6. FieldBoundAt(fn, owned, taken, j, p, f, h)
        BY <1>1, <1>5, <2>3, <2>5, FieldBound
    <2>7. <<p, f>> \in DOMAIN After(fn, owned, taken, h).fields
        BY <2>5, <2>6 DEF FieldBoundAt
    <2>8. end = Execute(fn, owned, After(fn, owned, taken, h), n)
        BY <1>2, <1>3, <1>13, StepAt DEF h, End, After
    <2> HIDE DEF end
    <2> QED
        BY <2>7, <2>8 DEF Execute, Bind
<1>14. CASE end.result = NullValue
    BY <1>14 DEF HandedOver
<1>15. CASE Runs(fn, owned, taken, n) /\ end.result = Got(fn, owned, taken, n)
    <2> DEFINE h == n - 1
    <2>1. x \in DOMAIN After(fn, owned, taken, h).env
        BY <1>1, <1>2, <1>3, <1>5, <1>6, <1>15, NamedIsBound
    <2>2. Got(fn, owned, taken, n) = After(fn, owned, taken, h).env[x]
        BY <1>6, <2>1 DEF Got, Value, Held
    <2>3. h \in 0 .. n /\ fn.body[i].from.is # "null"
        BY <1>2, <1>3, <1>7
    <2> HIDE DEF h
    <2>4. \/ After(fn, owned, taken, h).env[x] = NullValue
          \/ After(fn, owned, taken, h).env[x] = Got(fn, owned, taken, i)
        <3>1. i \in 1 .. Len(fn.body) /\ AssignsTo(fn.body[i], x) /\ AssignedOnce(fn)
            BY <1>1, <1>5, <1>7
        <3>2. fn.body[i].from.is # "null" /\ h \in 0 .. Len(fn.body)
            BY <2>3
        <3> QED
            BY <2>1, <3>1, <3>2, LocalHolds DEF HoldsSince
    <2>5. end.result \in {NullValue, v}
        BY <1>9, <1>15, <2>2, <2>4
    <2>6. v \notin end.kept \cup Range(end.fields)
        BY <1>2, <1>12, ConfinedAtEnd
    <2>7. v[1] = "initially in" /\ v[2] = p /\ v[3] = f
        BY DEF Initial
    <2>8. HandedOver(end, v)
        <3> HIDE DEF v, end
        <3> QED
            BY <1>13, <1>15, <2>6, <2>7 DEF HandedOver
    <2>9. HandedOver(end, NullValue)
        BY DEF HandedOver
    <2> HIDE DEF end
    <2>10. HandedOver(end, end.result)
        BY <2>5, <2>8, <2>9
    <2> QED
        BY <2>10 DEF end
<1> QED
    BY <1>1, <1>14, <1>15, ResultIsLast

-----------------------------------------------------------------------------
(* The theorems: what is called owned is handed over.                      *)

\* The functions with a record are C functions, whose names are no tags.
LEMMA RecordedIsC ==
    ASSUME TypeOK, Extracted
    PROVE  /\ library.analysis \in {"pointer", "string", "out"}
           /\ Recorded \cap Tags = {}
           /\ \A f \in Recorded : WellFormed(Function(f), library.analysis)
<1>1. PICK family \in DOMAIN Libraries : library \in Libraries[family]
    BY DEF TypeOK
<1>2. Range(order) = Recorded /\ order = Analysed(library.files, library.analysis)
    BY DEF TypeOK, Extracted
<1> QED
    BY <1>1, <1>2, LibrariesAssumption DEF Function

\* The functions whose results are the caller's are those with that verdict.
LEMMA OwnedIsVerdict ==
    ASSUME VerdictsInv, phase = "done"
    PROVE  /\ TypeOK /\ Extracted /\ InputRead
           /\ DOMAIN facts = Reported \cup DOMAIN Annotated
           /\ \A f \in Owned : f \in Recorded => f \in Callers
           /\ Callers \subseteq Owned \cap Recorded
           /\ \A f \in Callers : Seed(f) = "caller" \/ HandsOnFrom(f, Callers)
<1>1. /\ TypeOK /\ Extracted /\ InputRead /\ facts = Outcome
      /\ \A f \in Recorded : CallerGrounded(f)
    BY DEF VerdictsInv
<1>2. DOMAIN facts = Reported \cup DOMAIN Annotated
    BY <1>1 DEF Outcome
<1>3. \A f \in DOMAIN facts : f \in Recorded =>
        facts[f] = IF verdict[f] = "open" THEN "library" ELSE verdict[f]
    BY <1>1, <1>2 DEF Outcome
<1>4. \A f \in Owned : f \in Recorded => f \in Callers
    BY <1>3 DEF Owned, Callers
<1>5. ASSUME NEW f \in Callers
      PROVE  f \in Owned
    <2>1. f \in Recorded /\ verdict[f] = "caller" /\ CallerGrounded(f)
        BY <1>1, <1>5 DEF Callers
    <2>2. f \in Reported \cup DOMAIN Annotated
        <3>1. CASE library.analysis # "pointer"
            BY <2>1, <3>1 DEF Reported
        <3>2. CASE library.analysis = "pointer" /\ f \notin DOMAIN Annotated
            <4>1. CASE Seed(f) = "caller"
                <5>1. PointerSeed(f) = "caller"
                    BY <3>2, <4>1 DEF Seed
                <5>2. records[f].returns
                    BY <5>1 DEF PointerSeed
                <5> QED
                    BY <2>1, <5>2 DEF Reported
            <4>2. CASE HandsOnFrom(f, Callers)
                <5>1. DependsOn(f) # {}
                    BY <4>2 DEF HandsOnFrom
                <5>2. records[f].returns
                    BY <3>2, <5>1 DEF DependsOn
                <5> QED
                    BY <2>1, <5>2 DEF Reported
            <4> QED
                BY <2>1, <4>1, <4>2 DEF CallerGrounded
        <3> QED
            BY <3>1, <3>2
    <2> QED
        BY <1>2, <1>3, <2>1, <2>2 DEF Owned
<1>6. \A f \in Callers : Seed(f) = "caller" \/ HandsOnFrom(f, Callers)
    BY <1>1 DEF CallerGrounded, Callers
<1> QED
    BY <1>1, <1>2, <1>4, <1>5, <1>6 DEF Callers

\* An owned string is freed after it is copied: on every execution of a body
\* that keeps nothing it is one the body obtained and nothing else holds, or
\* NULL, and never a literal (classify_string_ownership).
THEOREM OwnedStringsHandedOver == Spec => []StringOwnedIsHandedOver
<1>1. VerdictsInv => StringOwnedIsHandedOver
    <2> SUFFICES ASSUME VerdictsInv, phase = "done", library.analysis = "string",
                        NEW f \in Owned, Straightforward(Function(f)), KeepsNothing(Function(f)),
                        NEW end \in Executions(Function(f), Owned)
                 PROVE  HandedOver(end, end.result)
        BY DEF StringOwnedIsHandedOver
    <2> DEFINE fn == Function(f)
    <2>1. /\ TypeOK /\ Extracted /\ DOMAIN facts = Reported \cup DOMAIN Annotated
          /\ \A g \in Owned : g \in Recorded => g \in Callers
          /\ Callers \subseteq Owned \cap Recorded
          /\ \A g \in Callers : Seed(g) = "caller" \/ HandsOnFrom(g, Callers)
        BY OwnedIsVerdict
    <2>2. Annotated = <<>>
        BY DEF Annotated
    <2>3. DOMAIN facts \subseteq Recorded
        BY <2>1, <2>2 DEF Reported
    <2>4. Owned \subseteq Recorded
        BY <2>3 DEF Owned
    <2>5. Owned \cap Tags = {} /\ WellFormed(fn, "string")
        BY <2>1, <2>4, RecordedIsC
    <2>6. records[f] = StringRecord(fn, library.engine)
        BY <2>1, <2>4 DEF Extracted, Record, Function
    <2> DEFINE origins == StringOrigins(fn, library.engine)
    <2>7. records[f].origins # {} /\ records[f].origins \subseteq {"alloc"} \cup Owned
        <3>1. Seed(f) = StringSeed(f) /\ DependsOn(f) = records[f].origins \ {"alloc"}
            BY DEF Seed, DependsOn
        <3>2. CASE Seed(f) = "caller"
            <4>1. records[f].origins = {"alloc"}
                BY <3>1, <3>2 DEF StringSeed
            <4> QED
                BY <4>1
        <3>3. CASE HandsOnFrom(f, Callers)
            BY <2>1, <3>1, <3>3 DEF HandsOnFrom
        <3> QED
            BY <2>1, <2>4, <3>2, <3>3
    <2>8. /\ records[f].origins = origins
          /\ origins \cap (Params(fn) \cup {"member", "unknown", "static"}) = {}
        <3>1. records[f].origins
                = IF origins \cap (Params(fn) \cup {"member", "unknown", "static"}) # {}
                  THEN {} ELSE origins
            BY <2>6 DEF StringRecord
        <3> HIDE DEF origins, fn
        <3> QED
            BY <2>7, <3>1
    <2>9. \A i \in DOMAIN Returns(fn) :
            /\ ReturnOrigins(fn, library.engine)[i] \notin Params(fn)
            /\ ReturnOrigins(fn, library.engine)[i] \in {"alloc"} \cup Owned
        <3> TAKE i \in DOMAIN Returns(fn)
        <3>1. i \in DOMAIN ReturnOrigins(fn, library.engine)
            BY DEF ReturnOrigins
        <3>2. ReturnOrigins(fn, library.engine)[i] \in origins
            BY <3>1 DEF StringOrigins, Range
        <3> HIDE DEF fn, origins
        <3> QED
            BY <2>7, <2>8, <3>2
    <2>10. PICK taken : end = End(fn, Owned, taken)
        BY DEF Executions
    <2> HIDE DEF fn
    <2>11. HandedOver(End(fn, Owned, taken), End(fn, Owned, taken).result)
        BY <2>5, <2>9, StringHandedOver DEF fn
    <2> QED
        BY <2>10, <2>11
<1> QED
    BY <1>1, VerdictsInvariant, PTL

\* What a confirmed out-parameter is given becomes an owned handle: on every
\* execution of a body that keeps nothing it is an object the body allocated,
\* or had filled in by a function that does, or NULL (classify_out_handles).
THEOREM ConfirmedOutsAllocated == Spec => []ConfirmedIsAllocated
<1>1. VerdictsInv => ConfirmedIsAllocated
    <2> SUFFICES ASSUME VerdictsInv, phase = "done", library.analysis = "out",
                        NEW f \in Owned, Straightforward(Function(f)), KeepsNothing(Function(f)),
                        FilledOnce(Function(f)), NEW end \in Executions(Function(f), Owned)
                 PROVE  HandedOver(end, end.out)
        BY DEF ConfirmedIsAllocated
    <2> DEFINE fn == Function(f)
               file == FileOf(library.files, f)
               engine == library.engine
    <2>1. /\ TypeOK /\ Extracted /\ InputRead /\ DOMAIN facts = Reported \cup DOMAIN Annotated
          /\ \A g \in Owned : g \in Recorded => g \in Callers
          /\ Callers \subseteq Owned \cap Recorded
          /\ \A g \in Callers : Seed(g) = "caller" \/ HandsOnFrom(g, Callers)
        BY OwnedIsVerdict
    <2>2. Annotated = <<>>
        BY DEF Annotated
    <2>3. DOMAIN facts \subseteq Recorded
        BY <2>1, <2>2 DEF Reported
    <2>4. Owned \subseteq Recorded
        BY <2>3 DEF Owned
    <2>5. Owned \cap Tags = {} /\ WellFormed(fn, "out")
        BY <2>1, <2>4, RecordedIsC
    <2>6. records[f] = OutRecord(fn, engine, file)
        BY <2>1, <2>4 DEF Extracted, Record, Function
    <2>7. PICK o \in Params(fn) : fn.outs = {o}
        BY <2>5 DEF WellFormed
    <2>8. o = CHOOSE p \in Params(fn) : p \in fn.outs
        BY <2>7
    <2>9. OutRecord(fn, engine, file).written = Written(fn, o)
        BY <2>8 DEF OutRecord
    <2>10. \/ Written(fn, o) = "alloc"
           \/ /\ OutRecord(fn, engine, file).forward # {}
              /\ OutRecord(fn, engine, file).forward \subseteq Owned
              /\ Written(fn, o) = "nothing"
        <3>1. Seed(f) = OutSeed(f) /\ DependsOn(f) = records[f].forward
            BY DEF Seed, DependsOn
        <3>2. records[f].written \in {"alloc", "other", "nothing"}
            BY <2>1, <2>4 DEF InputRead
        <3>3. CASE Seed(f) = "caller"
            <4>1. records[f].written = "alloc"
                BY <3>1, <3>2, <3>3 DEF OutSeed
            <4> QED
                BY <2>6, <2>9, <4>1
        <3>4. CASE HandsOnFrom(f, Callers)
            <4>1. Seed(f) = "open" /\ DependsOn(f) # {} /\ DependsOn(f) \subseteq Callers
                BY <3>4 DEF HandsOnFrom
            <4>2. records[f].written = "nothing"
                BY <3>1, <3>2, <4>1 DEF OutSeed
            <4> QED
                BY <2>1, <2>6, <2>9, <3>1, <4>1, <4>2
        <3> QED
            BY <2>1, <2>4, <3>3, <3>4
    <2>11. /\ PassedOn(fn, engine, o) = {} \/ Writes(fn, o) = {}
           /\ \A a, b \in PassedOn(fn, engine, o) : a = b
           /\ \A i, j \in Writes(fn, o) :
                fn.body[i].from.is # "null" /\ fn.body[j].from.is # "null" => i = j
        BY <2>7 DEF FilledOnce
    <2>12. PICK taken : end = End(fn, Owned, taken)
        BY DEF Executions
    <2> HIDE DEF fn, file, engine
    <2>13. HandedOver(End(fn, Owned, taken), End(fn, Owned, taken).out)
        BY <2>5, <2>7, <2>10, <2>11, OutHandedOver DEF fn
    <2> QED
        BY <2>12, <2>13
<1> QED
    BY <1>1, VerdictsInvariant, PTL

\* What libclang calls the caller's is the caller's on every execution of a body
\* it can trace: fresh, or taken out of the structure it was in, and held by
\* nothing else (classify_ownership, rules 1, 3 and 4 and the detach rule).
THEOREM OwnedPointersHandedOver == Spec => []PointerOwnedIsHandedOver
<1>1. VerdictsInv => PointerOwnedIsHandedOver
    <2> SUFFICES ASSUME VerdictsInv, phase = "done",
                        library.analysis = "pointer", library.engine = "libclang",
                        NEW f \in (Owned \cap Reported) \ DOMAIN Annotated,
                        Straightforward(Function(f)), Traceable(Function(f)),
                        records[f].origin # "param",
                        NEW end \in Executions(Function(f), Owned)
                 PROVE  HandedOver(end, end.result)
        BY DEF PointerOwnedIsHandedOver
    <2> DEFINE fn == Function(f)
               o == PointerOrigin(fn, "libclang")
    <2>1. /\ TypeOK /\ Extracted
          /\ \A g \in Owned : g \in Recorded => g \in Callers
          /\ Callers \subseteq Owned \cap Recorded
          /\ \A g \in Callers : Seed(g) = "caller" \/ HandsOnFrom(g, Callers)
        BY OwnedIsVerdict
    <2>2. f \in Recorded
        BY DEF Reported
    <2>3. Recorded \cap Tags = {} /\ WellFormed(fn, "pointer")
        BY <2>1, <2>2, RecordedIsC
    <2>4. records[f] = PointerRecord(fn, "libclang")
        BY <2>1, <2>2 DEF Extracted, Record, Function
    <2>5. /\ records[f].origin = IF o \in Params(fn) THEN "param" ELSE o
          /\ records[f].escaped <=> Escapes(fn, "libclang")
          /\ records[f].detaches => Detaches(fn)
          /\ records[f].returns
        <3>1. records[f].returns
            BY <2>2 DEF Reported
        <3>2. PointerRecord(fn, "libclang").origin = IF o \in Params(fn) THEN "param" ELSE o
            BY DEF PointerRecord
        <3>3. PointerRecord(fn, "libclang").escaped = Escapes(fn, "libclang")
            BY DEF PointerRecord
        <3>4. PointerRecord(fn, "libclang").detaches => Detaches(fn)
            BY DEF PointerRecord
        <3> HIDE DEF fn, o
        <3> QED
            BY <2>4, <3>1, <3>2, <3>3, <3>4
    <2>6. o \notin Params(fn) /\ records[f].origin = o
        BY <2>5
    <2>7. Seed(f) = PointerSeed(f)
        BY DEF Seed
    <2>8. \/ ~ Escapes(fn, "libclang") /\ o = "alloc"
          \/ o = "member" /\ Detaches(fn)
          \/ ~ Escapes(fn, "libclang") /\ o \in Owned /\ o \notin Tags
        <3>1. CASE Seed(f) = "caller"
            <4>1. PointerSeed(f) = "caller"
                BY <2>7, <3>1
            <4>2. \/ ~ records[f].escaped /\ records[f].origin = "alloc"
                  \/ records[f].origin = "member" /\ records[f].detaches
                  \/ records[f].origin = "param"
                BY <4>1 DEF PointerSeed
            <4> HIDE DEF fn, o
            <4> QED
                BY <2>5, <2>6, <4>2
        <3>2. CASE HandsOnFrom(f, Callers)
            <4>1. Seed(f) = "open" /\ DependsOn(f) # {} /\ DependsOn(f) \subseteq Callers
                BY <3>2 DEF HandsOnFrom
            <4>2. ~ records[f].escaped
                BY <2>5, <2>7, <4>1 DEF PointerSeed
            <4>3. DependsOn(f) = {o}
                <5> HIDE DEF fn, o
                <5> QED
                    BY <2>6, <4>1 DEF DependsOn
            <4> HIDE DEF fn, o
            <4> QED
                BY <2>1, <2>3, <2>5, <4>1, <4>2, <4>3
        <3> QED
            BY <2>1, <2>2, <3>1, <3>2
    <2>9. PICK taken : end = End(fn, Owned, taken)
        BY DEF Executions
    <2>10. HandedOver(End(fn, Owned, taken), End(fn, Owned, taken).result)
        <3>1. CASE o = "member" /\ Detaches(fn)
            BY <2>3, <3>1, DetachedHandedOver
        <3>2. CASE ~ Escapes(fn, "libclang") /\ (o = "alloc" \/ (o \in Owned /\ o \notin Tags))
            BY <2>3, <2>6, <3>2, FreshPointerHandedOver
        <3> QED
            BY <2>8, <3>1, <3>2
    <2> QED
        BY <2>9, <2>10
<1> QED
    BY <1>1, VerdictsInvariant, PTL

==============================================================================
