--------------------------- MODULE LifecycleProofs ---------------------------
(***************************************************************************)
(* Theorems about Lifecycle, for every library of any size, either parser  *)
(* and any cap on the rounds of the fixed point.                           *)
(***************************************************************************)
EXTENDS Lifecycle, NumberLemmas, FiniteSetTheorems, TLAPS

Evidences == {"direct", "conditional", "forwarded", "forwarded+conditional"}

TypeOK ==
    /\ program \in Programs
    /\ engine \in Engines
    /\ \A f \in Functions : scan[f] \in ScanOrders(Candidates(f))
    /\ facts \in [Functions ->
            [role : Destroying \cup {"creates", "uses", "none"},
             evidence : Evidences, param : Nat]]
    /\ next \in 1 .. Len(Order) + 1
    /\ changed \in BOOLEAN
    /\ phase \in {"classify", "returned", "raised"}

\* A use or a destruction is of a parameter of a function that returns no
\* handle, and such a function, with a parameter, is a use or a destruction.
RoleFits(f) ==
    /\ facts[f].role \in Destroying \cup {"uses"}
            => program[f].returns = NoType /\ facts[f].param \in StructParams(f)
    /\ program[f].returns = NoType /\ StructParams(f) # {}
            => facts[f].role \in Destroying \cup {"uses"}
    /\ program[f].returns = NoType /\ Freed(f) # {}
            => facts[f].role \in Destroying

\* What each kind of evidence for a destruction stands for: a free of that
\* parameter on every path, one on a branch of a function named for it, or a
\* call that hands on a parameter the function does not free itself.
EvidenceFits(f) ==
    /\ facts[f].evidence \in {"forwarded", "forwarded+conditional"}
            => facts[f].role \in Destroying /\ facts[f].param \in Candidates(f)
    /\ facts[f].role = "destroys"
            => facts[f].evidence \in {"direct", "conditional", "forwarded"}
    /\ facts[f].role = "destroys" /\ facts[f].evidence = "direct"
            => facts[f].param \in Freed(f) \ FreedConditional(f)
    /\ facts[f].role = "destroys" /\ facts[f].evidence = "conditional"
            => program[f].destructorName

\* A chain of calls leads from every parameter said to be destroyed to a free.
ChainsToFree(f) ==
    /\ facts[f].role \in Destroying => <<f, facts[f].param>> \in ReachesFree(FALSE)
    /\ engine = "pycparser" /\ facts[f].evidence = "forwarded"
            => <<f, facts[f].param>> \in ReachesFree(TRUE)

\* No pass over the facts as they are would upgrade f.
Settled(f) == Skipped(f) \/ Evidence(f) = {}

\* A pass that has changed nothing so far has left every function before the
\* next one settled: what makes one such pass enough to return.
PassSettles ==
    /\ phase = "classify" /\ ~ changed => \A j \in 1 .. next - 1 : Settled(Order[j])
    /\ phase = "returned" => \A f \in Functions : Settled(f)

\* The inductive invariant.
FactsInv ==
    /\ TypeOK
    /\ \A f \in Functions : RoleFits(f) /\ EvidenceFits(f)
    /\ engine = "pycparser" \/ PassesWhole => \A f \in Functions : ChainsToFree(f)
    /\ PassSettles

-----------------------------------------------------------------------------
(* What the definitions yield of a library that is well formed.            *)

\* A function's parameters and their calls have the same positions.
LEMMA BodyShape ==
    ASSUME program \in Programs, NEW f \in Functions
    PROVE  /\ DOMAIN program[f].params \subseteq Nat
           /\ DOMAIN program[f].calls = DOMAIN program[f].params
           /\ IsFiniteSet(DOMAIN program[f].params)
           /\ \A p \in DOMAIN program[f].calls : DOMAIN program[f].calls[p] \subseteq Nat
<1>1. program[f] \in Extractable /\ Len(program[f].calls) = Len(program[f].params)
    BY ProgramsAssumption
<1>2. /\ program[f].params \in Seq(Types \cup {NoType})
      /\ program[f].calls \in Seq(Seq([callee : STRING, arg : Nat, whole : BOOLEAN]))
    BY <1>1 DEF Extractable
<1>3. DOMAIN program[f].params = 1 .. Len(program[f].params)
    BY <1>2
<1>4. DOMAIN program[f].calls = 1 .. Len(program[f].params)
    BY <1>1, <1>2
<1>5. \A p \in DOMAIN program[f].calls :
            program[f].calls[p] \in Seq([callee : STRING, arg : Nat, whole : BOOLEAN])
    BY <1>2
<1>6. Len(program[f].params) \in Nat
    BY <1>2
<1>7. IsFiniteSet(1 .. Len(program[f].params))
    BY <1>6, FS_Interval
<1>8. \A p \in DOMAIN program[f].calls :
            DOMAIN program[f].calls[p] = 1 .. Len(program[f].calls[p])
    BY <1>5
<1>9. \A p \in DOMAIN program[f].calls : Len(program[f].calls[p]) \in Nat
    BY <1>5
<1> QED
    BY <1>3, <1>4, <1>6, <1>7, <1>8, <1>9

\* The first place of a non-empty set of places is one of them.
LEMMA FirstIsPlace ==
    ASSUME NEW places \in SUBSET (Nat \X Nat), places # {}
    PROVE  First(places) \in places
<1> DEFINE firsts == {a[1] : a \in places}
<1>1. firsts \in SUBSET Nat /\ firsts # {}
    OBVIOUS
<1>2. PICK k \in firsts : \A l \in firsts : ~ (l < k)
    BY <1>1, LeastElement
<1> DEFINE seconds == {i \in Nat : <<k, i>> \in places}
<1>3. seconds \in SUBSET Nat /\ seconds # {}
    OBVIOUS
<1>4. PICK i \in seconds : \A j \in seconds : ~ (j < i)
    BY <1>3, LeastElement
<1>5. \A b \in places : k < b[1] \/ (k = b[1] /\ i <= b[2])
    <2> TAKE b \in places
    <2>1. b[1] \in firsts /\ b = <<b[1], b[2]>> /\ b[1] \in Nat /\ b[2] \in Nat
        OBVIOUS
    <2>2. k \in Nat /\ ~ (b[1] < k)
        BY <1>1, <1>2, <2>1
    <2>3. CASE b[1] = k
        <3>1. b[2] \in seconds
            BY <2>1, <2>3
        <3> QED
            BY <1>4, <2>3, <3>1, <2>1
    <2>4. CASE b[1] # k
        BY <2>1, <2>2, <2>4
    <2> QED
        BY <2>3, <2>4
<1>6. <<k, i>> \in places
    BY <1>4
<1>7. \E a \in places : \A b \in places : a[1] < b[1] \/ (a[1] = b[1] /\ a[2] <= b[2])
    BY <1>5, <1>6
<1> QED
    BY <1>7, Zenon DEF First

\* A free of a parameter in the body itself is one that is reached.
LEMMA FreesReach ==
    ASSUME NEW f \in Functions, program[f].returns = NoType, NEW p \in Freed(f),
           NEW always \in BOOLEAN, always => p \notin program[f].guarded
    PROVE  <<f, p>> \in ReachesFree(always)
<1>1. p \in StructParams(f)
    BY DEF Freed
<1>2. <<f, p>> \in Pairs
    BY <1>1 DEF Pairs
<1>3. <<f, p>> \in FreesHere(always)
    BY <1>2 DEF FreesHere
<1> QED
    BY <1>2, <1>3 DEF ReachesFree

\* And so is one reached by the function a parameter is passed on to.
LEMMA PassingReaches ==
    ASSUME NEW f \in Functions, NEW p \in StructParams(f), NEW always \in BOOLEAN,
           \A known \in SUBSET Pairs :
                ReachesFree(always) \subseteq known => PassesOn(f, p, known)
    PROVE  <<f, p>> \in ReachesFree(always)
<1>1. <<f, p>> \in Pairs
    BY DEF Pairs
<1>2. ASSUME NEW S \in SUBSET Pairs, FreesHere(always) \subseteq S, Closed(S)
      PROVE  <<f, p>> \in S
    <2>1. ReachesFree(always) \subseteq S
        BY <1>2 DEF ReachesFree
    <2>2. PassesOn(f, p, S)
        BY <2>1
    <2> QED
        BY <1>2, <2>2 DEF Closed
<1> QED
    BY <1>1, <1>2 DEF ReachesFree

-----------------------------------------------------------------------------
(* The upgrade of one function.                                            *)

\* An upgrade is due to a call that hands a parameter which f does not free
\* itself to a function that is believed to destroy it.
LEMMA UpgradeHasCall ==
    ASSUME TypeOK, NEW f \in Functions, Evidence(f) # {}
    PROVE  \E p \in Candidates(f) : \E i \in DOMAIN program[f].calls[p] :
              LET call == program[f].calls[p][i] IN
              /\ Forwards(f, p, call)
              /\ Upgrades(facts[f].role, Forwarded(call.callee).role)
              /\ Upgrade(f) = [Forwarded(call.callee) EXCEPT !.param = p]
<1>1. scan[f] \in ScanOrders(Candidates(f))
    BY DEF TypeOK
<1>2. Candidates(f) \subseteq DOMAIN program[f].params
    BY DEF Candidates, StructParams
<1>3. program \in Programs
    BY DEF TypeOK
<1>4. Cardinality(Candidates(f)) \in Nat
    BY <1>2, <1>3, BodyShape, FS_Subset, FS_CardinalityType
<1>5. DOMAIN scan[f] \subseteq Nat /\ \A k \in DOMAIN scan[f] : scan[f][k] \in Candidates(f)
    BY <1>1, <1>4 DEF ScanOrders
<1>6. Considered(f) \subseteq DOMAIN scan[f]
    BY DEF Considered
<1>7. Evidence(f) \in SUBSET (Nat \X Nat)
    <2> SUFFICES ASSUME NEW place \in Evidence(f)
                 PROVE  place \in Nat \X Nat
        OBVIOUS
    <2>0. PICK k \in Considered(f) : \E i \in DOMAIN program[f].calls[scan[f][k]] :
                place = <<k, i>>
        BY DEF Evidence
    <2>1. k \in Nat /\ scan[f][k] \in Candidates(f)
        BY <1>5, <1>6
    <2>2. Candidates(f) \subseteq DOMAIN program[f].calls
        BY <1>2, <1>3, BodyShape
    <2>3. DOMAIN program[f].calls[scan[f][k]] \subseteq Nat
        BY <1>3, <2>1, <2>2, BodyShape
    <2> QED
        BY <2>0, <2>1, <2>3
<1>8. First(Evidence(f)) \in Evidence(f)
    BY <1>7, FirstIsPlace
<1>9. PICK k \in Considered(f) : \E i \in DOMAIN program[f].calls[scan[f][k]] :
            /\ First(Evidence(f)) = <<k, i>>
            /\ Forwards(f, scan[f][k], program[f].calls[scan[f][k]][i])
            /\ Upgrades(facts[f].role,
                        Forwarded(program[f].calls[scan[f][k]][i].callee).role)
    BY <1>8 DEF Evidence
<1>10. scan[f][k] \in Candidates(f)
    BY <1>5, <1>6
<1>11. PICK i \in DOMAIN program[f].calls[scan[f][k]] :
            /\ First(Evidence(f)) = <<k, i>>
            /\ Forwards(f, scan[f][k], program[f].calls[scan[f][k]][i])
            /\ Upgrades(facts[f].role,
                        Forwarded(program[f].calls[scan[f][k]][i].callee).role)
    BY <1>9
<1>12. Upgrade(f)
        = [Forwarded(program[f].calls[scan[f][k]][i].callee) EXCEPT !.param = scan[f][k]]
    <2>1. First(Evidence(f)) = <<k, i>>
        BY <1>11
    <2> DEFINE place == First(Evidence(f))
    <2>2. place[1] = k /\ place[2] = i
        BY <2>1
    <2>3. Upgrade(f) = [Forwarded(program[f].calls[scan[f][place[1]]][place[2]].callee)
                            EXCEPT !.param = scan[f][place[1]]]
        BY DEF Upgrade
    <2> HIDE DEF place
    <2> QED
        BY <2>2, <2>3
<1> QED
    BY <1>10, <1>11, <1>12

\* A call of a scanned parameter that would upgrade f is a place of its evidence.
LEMMA CallIsEvidence ==
    ASSUME NEW f \in Functions, NEW k \in Considered(f),
           NEW i \in DOMAIN program[f].calls[scan[f][k]],
           Forwards(f, scan[f][k], program[f].calls[scan[f][k]][i]),
           Upgrades(facts[f].role, Forwarded(program[f].calls[scan[f][k]][i].callee).role)
    PROVE  <<k, i>> \in Evidence(f)
<1> DEFINE Places(l) ==
        {<<l, m>> : m \in
            {j \in DOMAIN program[f].calls[scan[f][l]] :
                LET call == program[f].calls[scan[f][l]][j] IN
                /\ Forwards(f, scan[f][l], call)
                /\ Upgrades(facts[f].role, Forwarded(call.callee).role)}}
<1>1. <<k, i>> \in Places(k)
    OBVIOUS
<1>2. Places(k) \in {Places(l) : l \in Considered(f)}
    OBVIOUS
<1>3. Evidence(f) = UNION {Places(l) : l \in Considered(f)}
    BY DEF Evidence
<1> HIDE DEF Places
<1> QED
    BY <1>1, <1>2, <1>3

\* What is believed of f once it is upgraded, against what was believed of the
\* function it hands its parameter to.
LEMMA UpgradeShape ==
    ASSUME TypeOK, NEW f \in Functions, Evidence(f) # {}
    PROVE  \E p \in Candidates(f) : \E i \in DOMAIN program[f].calls[p] :
              LET call == program[f].calls[p][i] IN
              /\ Forwards(f, p, call)
              /\ facts[f].role \in {"uses", "uncertain_destroys"}
              /\ \/ /\ Upgrade(f) = Fact("uncertain_destroys", "forwarded+conditional", p)
                 \/ /\ Upgrade(f) = Fact("destroys", "forwarded", p)
                    /\ facts[call.callee].role = "destroys"
                    /\ facts[call.callee].evidence \in {"direct", "forwarded"}
<1>1. PICK p \in Candidates(f) : \E i \in DOMAIN program[f].calls[p] :
            LET call == program[f].calls[p][i] IN
            /\ Forwards(f, p, call)
            /\ Upgrades(facts[f].role, Forwarded(call.callee).role)
            /\ Upgrade(f) = [Forwarded(call.callee) EXCEPT !.param = p]
    BY UpgradeHasCall
<1>2. PICK i \in DOMAIN program[f].calls[p] :
            LET call == program[f].calls[p][i] IN
            /\ Forwards(f, p, call)
            /\ Upgrades(facts[f].role, Forwarded(call.callee).role)
            /\ Upgrade(f) = [Forwarded(call.callee) EXCEPT !.param = p]
    BY <1>1
<1> DEFINE g == program[f].calls[p][i].callee
<1>3. g \in Functions /\ facts[g].role \in Destroying /\ facts[g].evidence \in Evidences
    BY <1>2 DEF Forwards, TypeOK
<1>4. facts[f].role \in {"uses", "uncertain_destroys"}
    BY <1>2 DEF Upgrades
<1>5. Upgrade(f) = [Forwarded(g) EXCEPT !.param = p]
    BY <1>2
<1>6. CASE \/ facts[g].role = "uncertain_destroys"
           \/ facts[g].evidence \in {"conditional", "forwarded+conditional"}
    <2>1. Forwarded(g) = Fact("uncertain_destroys", "forwarded+conditional", 0)
        BY <1>6 DEF Forwarded
    <2>2. Upgrade(f) = Fact("uncertain_destroys", "forwarded+conditional", p)
        BY <1>5, <2>1 DEF Fact
    <2> QED
        BY <1>2, <1>4, <2>2
<1>7. CASE ~ (\/ facts[g].role = "uncertain_destroys"
              \/ facts[g].evidence \in {"conditional", "forwarded+conditional"})
    <2>1. Forwarded(g) = Fact("destroys", "forwarded", 0)
        BY <1>7 DEF Forwarded
    <2>2. Upgrade(f) = Fact("destroys", "forwarded", p)
        BY <1>5, <2>1 DEF Fact
    <2>3. facts[g].role = "destroys" /\ facts[g].evidence \in {"direct", "forwarded"}
        BY <1>3, <1>7 DEF Destroying, Evidences
    <2> QED
        BY <1>2, <1>4, <2>2, <2>3
<1> QED
    BY <1>6, <1>7

\* A parameter is destroyed, by some chain of calls, where the function it is
\* handed to destroys it; on every path where that one does on every path.
LEMMA HandingOnReaches ==
    ASSUME TypeOK, NEW f \in Functions, NEW p \in Candidates(f),
           NEW i \in DOMAIN program[f].calls[p], NEW always \in BOOLEAN,
           program[f].returns = NoType, engine = "pycparser" \/ PassesWhole,
           Forwards(f, p, program[f].calls[p][i]),
           LET g == program[f].calls[p][i].callee
           IN  <<g, facts[g].param>> \in ReachesFree(always)
    PROVE  <<f, p>> \in ReachesFree(always)
<1> DEFINE call == program[f].calls[p][i]
<1>1. p \in StructParams(f) /\ p \notin Freed(f) /\ p \in DOMAIN program[f].params
    BY DEF Candidates, StructParams
<1>2. p \in DOMAIN program[f].calls
    BY <1>1, BodyShape DEF TypeOK
<1>3. call \in Range(program[f].calls[p])
    BY DEF Range
<1>4. call.whole
    BY <1>2, <1>3 DEF Forwards, Seen, PassesWhole
<1>5. ASSUME NEW known \in SUBSET Pairs, ReachesFree(always) \subseteq known
      PROVE  PassesOn(f, p, known)
    <2>1. facts[call.callee].param = call.arg
          /\ TypeOfParam(call.callee, call.arg) = TypeOfParam(f, p)
        BY DEF Forwards
    <2>2. <<call.callee, call.arg>> \in known
        BY <1>5, <2>1
    <2> QED
        BY <1>1, <1>4, <2>1, <2>2 DEF PassesOn
<1> QED
    BY <1>1, <1>5, PassingReaches

-----------------------------------------------------------------------------
(* The classification from the body alone.                                 *)

\* What a function is first believed to be, by what its body frees.
LEMMA OwnFactShape ==
    ASSUME program \in Programs, NEW f \in Functions
    PROVE  \/ /\ program[f].returns # NoType
              /\ OwnFact(f) = Fact("creates", "direct", 0)
           \/ /\ program[f].returns = NoType
              /\ \E p \in Freed(f) \ FreedConditional(f) :
                    OwnFact(f) = Fact("destroys", "direct", p)
           \/ /\ program[f].returns = NoType
              /\ \E p \in Freed(f) :
                    \/ /\ program[f].destructorName
                       /\ OwnFact(f) = Fact("destroys", "conditional", p)
                    \/ OwnFact(f) = Fact("uncertain_destroys", "conditional", p)
           \/ /\ program[f].returns = NoType /\ Freed(f) = {}
              /\ \E p \in StructParams(f) : OwnFact(f) = Fact("uses", "direct", p)
           \/ /\ program[f].returns = NoType /\ StructParams(f) = {}
              /\ OwnFact(f) = Fact("none", "direct", 0)
<1>1. StructParams(f) \in SUBSET Nat /\ Freed(f) \in SUBSET Nat
    BY BodyShape DEF StructParams, Freed
<1>2. CASE program[f].returns # NoType
    BY <1>2 DEF OwnFact
<1>3. CASE program[f].returns = NoType /\ Freed(f) # {}
    <2> DEFINE p == Min(Freed(f))
    <2>1. p \in Freed(f)
        BY <1>1, <1>3, MinIsLeast
    <2>2. OwnFact(f) =
            IF p \notin FreedConditional(f) THEN Fact("destroys", "direct", p)
            ELSE Fact(IF program[f].destructorName THEN "destroys"
                                                   ELSE "uncertain_destroys",
                      "conditional", p)
        BY <1>3 DEF OwnFact
    <2> HIDE DEF p
    <2>3. CASE p \notin FreedConditional(f)
        <3>1. OwnFact(f) = Fact("destroys", "direct", p)
            BY <2>2, <2>3
        <3> QED
            BY <1>3, <2>1, <2>3, <3>1
    <2>4. CASE p \in FreedConditional(f) /\ program[f].destructorName
        <3>1. OwnFact(f) = Fact("destroys", "conditional", p)
            BY <2>2, <2>4
        <3> QED
            BY <1>3, <2>1, <2>4, <3>1
    <2>5. CASE p \in FreedConditional(f) /\ ~ program[f].destructorName
        <3>1. OwnFact(f) = Fact("uncertain_destroys", "conditional", p)
            BY <2>2, <2>5
        <3> QED
            BY <1>3, <2>1, <3>1
    <2> QED
        BY <2>3, <2>4, <2>5
<1>4. CASE program[f].returns = NoType /\ Freed(f) = {} /\ StructParams(f) # {}
    <2>1. OwnFact(f) = Fact("uses", "direct", Min(StructParams(f)))
        BY <1>4 DEF OwnFact
    <2>2. Min(StructParams(f)) \in StructParams(f)
        BY <1>1, <1>4, MinIsLeast
    <2> QED
        BY <1>4, <2>1, <2>2
<1>5. CASE program[f].returns = NoType /\ Freed(f) = {} /\ StructParams(f) = {}
    <2>1. OwnFact(f) = Fact("none", "direct", 0)
        BY <1>5 DEF OwnFact
    <2> QED
        BY <1>5, <2>1
<1> QED
    BY <1>2, <1>3, <1>4, <1>5

\* The first classification satisfies the invariant.
LEMMA InitFacts == Init => FactsInv
<1> SUFFICES ASSUME Init PROVE FactsInv
    OBVIOUS
<1>1. program \in Programs /\ engine \in Engines /\ facts = [f \in Functions |-> OwnFact(f)]
    BY DEF Init
<1>2. \A f \in Functions : scan[f] \in ScanOrders(Candidates(f))
    BY DEF Init
<1>3. \A f \in Functions : StructParams(f) \subseteq Nat /\ Freed(f) \subseteq StructParams(f)
    BY <1>1, BodyShape DEF StructParams, Freed
<1>4. \A f \in Functions :
        OwnFact(f) \in [role : Destroying \cup {"creates", "uses", "none"},
                        evidence : Evidences, param : Nat]
    <2> TAKE f \in Functions
    <2> QED
        BY <1>1, <1>3, OwnFactShape DEF Fact, Destroying, Evidences
<1>5. facts \in [Functions -> [role : Destroying \cup {"creates", "uses", "none"},
                               evidence : Evidences, param : Nat]]
    BY <1>1, <1>4
<1>6. Len(Order) \in Nat
    BY OrderAssumption
<1>7. TypeOK
    <2>1. next = 1 /\ changed = FALSE /\ phase = "classify"
        BY DEF Init
    <2>2. next \in 1 .. Len(Order) + 1
        BY <1>6, <2>1
    <2> QED
        BY <1>1, <1>2, <1>5, <2>1, <2>2, Zenon DEF TypeOK
<1>8. ASSUME NEW f \in Functions
      PROVE  RoleFits(f) /\ EvidenceFits(f) /\ ChainsToFree(f)
    <2>1. facts[f] = OwnFact(f)
        BY <1>1
    <2>2. Freed(f) \subseteq StructParams(f)
        BY <1>3
    <2>3. RoleFits(f)
        BY <1>1, <2>1, <2>2, OwnFactShape DEF RoleFits, Fact, Destroying
    <2>4. EvidenceFits(f)
        BY <1>1, <2>1, OwnFactShape DEF EvidenceFits, Fact, Destroying
    <2>5. facts[f].evidence # "forwarded"
        BY <1>1, <2>1, OwnFactShape DEF Fact
    <2>6. facts[f].role \in Destroying
            => program[f].returns = NoType /\ facts[f].param \in Freed(f)
        BY <1>1, <2>1, OwnFactShape DEF Fact, Destroying
    <2>7. facts[f].role \in Destroying => <<f, facts[f].param>> \in ReachesFree(FALSE)
        BY <2>6, FreesReach
    <2> QED
        BY <2>3, <2>4, <2>5, <2>7 DEF ChainsToFree
<1>9. PassSettles
    <2>1. next = 1 /\ phase = "classify"
        BY DEF Init
    <2>2. 1 .. next - 1 = {}
        BY <2>1
    <2> QED
        BY <2>1, <2>2 DEF PassSettles
<1> QED
    BY <1>7, <1>8, <1>9 DEF FactsInv

-----------------------------------------------------------------------------
(* The passes of the fixed point.                                          *)

\* The library and what is asked of it never change.
LEMMA InputFixed ==
    ASSUME UNCHANGED input
    PROVE  /\ \A f \in Functions :
                /\ StructParams(f)' = StructParams(f)
                /\ Freed(f)' = Freed(f)
                /\ FreedConditional(f)' = FreedConditional(f)
                /\ Candidates(f)' = Candidates(f)
                /\ \A p : TypeOfParam(f, p)' = TypeOfParam(f, p)
           /\ \A always \in BOOLEAN : ReachesFree(always)' = ReachesFree(always)
           /\ PassesWhole' = PassesWhole
<1>1. program' = program /\ engine' = engine
    BY DEF input
<1>2. \A f \in Functions :
        /\ StructParams(f)' = StructParams(f)
        /\ Freed(f)' = Freed(f)
        /\ FreedConditional(f)' = FreedConditional(f)
        /\ Candidates(f)' = Candidates(f)
        /\ \A p : TypeOfParam(f, p)' = TypeOfParam(f, p)
    BY <1>1, Zenon DEF StructParams, Freed, FreedConditional, Candidates, TypeOfParam
<1>3. \A always \in BOOLEAN : ReachesFree(always)' = ReachesFree(always)
    <2>1. Pairs' = Pairs
        BY <1>1 DEF Pairs, StructParams
    <2>2. \A always : FreesHere(always)' = FreesHere(always)
        BY <1>1, <2>1 DEF FreesHere, Freed, StructParams
    <2>3. \A S : Closed(S)' <=> Closed(S)
        BY <1>1 DEF Closed, PassesOn, StructParams, TypeOfParam, Freed
    <2> QED
        BY <2>1, <2>2, <2>3, Zenon DEF ReachesFree
<1>4. PassesWhole' = PassesWhole
    BY <1>1 DEF PassesWhole
<1> QED
    BY <1>2, <1>3, <1>4

\* An upgrade keeps what is known of every function.
LEMMA UpgradeKeeps ==
    ASSUME TypeOK, \A g \in Functions : RoleFits(g) /\ EvidenceFits(g),
           engine = "pycparser" \/ PassesWhole => \A g \in Functions : ChainsToFree(g),
           NEW f \in Functions, Evidence(f) # {}, UNCHANGED input,
           facts' = [facts EXCEPT ![f] = Upgrade(f)]
    PROVE  /\ facts' \in [Functions -> [role : Destroying \cup {"creates", "uses", "none"},
                                        evidence : Evidences, param : Nat]]
           /\ \A g \in Functions : RoleFits(g)' /\ EvidenceFits(g)'
           /\ engine = "pycparser" \/ PassesWhole => \A g \in Functions : ChainsToFree(g)'
<1>1. PICK p \in Candidates(f) : \E i \in DOMAIN program[f].calls[p] :
        LET call == program[f].calls[p][i] IN
        /\ Forwards(f, p, call)
        /\ facts[f].role \in {"uses", "uncertain_destroys"}
        /\ \/ /\ Upgrade(f) = Fact("uncertain_destroys", "forwarded+conditional", p)
           \/ /\ Upgrade(f) = Fact("destroys", "forwarded", p)
              /\ facts[call.callee].role = "destroys"
              /\ facts[call.callee].evidence \in {"direct", "forwarded"}
    BY UpgradeShape
<1>2. PICK i \in DOMAIN program[f].calls[p] :
        LET call == program[f].calls[p][i] IN
        /\ Forwards(f, p, call)
        /\ facts[f].role \in {"uses", "uncertain_destroys"}
        /\ \/ /\ Upgrade(f) = Fact("uncertain_destroys", "forwarded+conditional", p)
           \/ /\ Upgrade(f) = Fact("destroys", "forwarded", p)
              /\ facts[call.callee].role = "destroys"
              /\ facts[call.callee].evidence \in {"direct", "forwarded"}
    BY <1>1
<1> DEFINE to == program[f].calls[p][i].callee
<1>3. facts'[f] = Upgrade(f) /\ \A g \in Functions \ {f} : facts'[g] = facts[g]
    BY DEF TypeOK
<1>4. p \in StructParams(f) /\ p \in Nat
    BY BodyShape DEF Candidates, StructParams, TypeOK
<1>5. \/ facts'[f] = Fact("uncertain_destroys", "forwarded+conditional", p)
      \/ /\ facts'[f] = Fact("destroys", "forwarded", p)
         /\ facts[to].role = "destroys"
         /\ facts[to].evidence \in {"direct", "forwarded"}
    BY <1>2, <1>3
<1>6. program[f].returns = NoType
    BY <1>2 DEF RoleFits, Destroying
<1>7. to \in Functions /\ facts[to].role \in Destroying
    BY <1>2 DEF Forwards
<1>8. program' = program /\ engine' = engine
    BY DEF input
<1>9. facts' \in [Functions -> [role : Destroying \cup {"creates", "uses", "none"},
                                evidence : Evidences, param : Nat]]
    <2>1. Upgrade(f) \in [role : Destroying \cup {"creates", "uses", "none"},
                          evidence : Evidences, param : Nat]
        BY <1>3, <1>4, <1>5 DEF Fact, Destroying, Evidences
    <2> QED
        BY <2>1 DEF TypeOK
<1>10. ASSUME NEW g \in Functions
       PROVE  RoleFits(g)' /\ EvidenceFits(g)'
    <2>1. /\ StructParams(g)' = StructParams(g)
          /\ Freed(g)' = Freed(g)
          /\ FreedConditional(g)' = FreedConditional(g)
          /\ Candidates(g)' = Candidates(g)
        BY InputFixed
    <2>2. CASE g = f
        <3>1. RoleFits(f)'
            BY <1>4, <1>5, <1>6, <1>8, <2>1, <2>2 DEF RoleFits, Fact, Destroying
        <3>2. EvidenceFits(f)'
            BY <1>5, <1>8, <2>1, <2>2 DEF EvidenceFits, Fact, Destroying
        <3> QED
            BY <2>2, <3>1, <3>2
    <2>3. CASE g # f
        <3>1. facts'[g] = facts[g]
            BY <1>3, <2>3
        <3>2. RoleFits(g)'
            BY <1>8, <2>1, <3>1 DEF RoleFits
        <3>3. EvidenceFits(g)'
            BY <1>8, <2>1, <3>1 DEF EvidenceFits
        <3> QED
            BY <3>2, <3>3
    <2> QED
        BY <2>2, <2>3
<1>11. ASSUME engine = "pycparser" \/ PassesWhole, NEW g \in Functions
       PROVE  ChainsToFree(g)'
    <2>1. ChainsToFree(g) /\ ChainsToFree(to)
        BY <1>7, <1>11
    <2>2. \A always \in BOOLEAN : ReachesFree(always)' = ReachesFree(always)
        BY InputFixed
    <2>3. CASE g = f
        <3>1. <<f, p>> \in ReachesFree(FALSE)
            <4>1. <<to, facts[to].param>> \in ReachesFree(FALSE)
                BY <1>7, <2>1 DEF ChainsToFree
            <4> QED
                BY <1>2, <1>6, <1>11, <4>1, HandingOnReaches
        <3>2. ASSUME engine = "pycparser", facts'[f].evidence = "forwarded"
              PROVE  <<f, p>> \in ReachesFree(TRUE)
            <4>1. facts[to].role = "destroys" /\ facts[to].evidence \in {"direct", "forwarded"}
                BY <1>5, <3>2 DEF Fact
            <4>2. <<to, facts[to].param>> \in ReachesFree(TRUE)
                <5>1. CASE facts[to].evidence = "forwarded"
                    BY <2>1, <3>2, <5>1 DEF ChainsToFree
                <5>2. CASE facts[to].evidence = "direct"
                    <6>1. facts[to].param \in Freed(to) \ FreedConditional(to)
                        BY <1>7, <4>1, <5>2 DEF EvidenceFits
                    <6>2. facts[to].param \notin program[to].guarded
                        BY <3>2, <6>1 DEF FreedConditional
                    <6>3. program[to].returns = NoType
                        BY <1>7 DEF RoleFits
                    <6> QED
                        BY <1>7, <6>1, <6>2, <6>3, FreesReach
                <5> QED
                    BY <4>1, <5>1, <5>2
            <4> QED
                BY <1>2, <1>6, <1>11, <4>2, HandingOnReaches
        <3>3. facts'[f].param = p
            BY <1>5 DEF Fact
        <3> QED
            BY <1>8, <2>2, <2>3, <3>1, <3>2, <3>3 DEF ChainsToFree
    <2>4. CASE g # f
        <3>1. facts'[g] = facts[g]
            BY <1>3, <2>4
        <3> QED
            BY <1>8, <2>1, <2>2, <3>1 DEF ChainsToFree
    <2> QED
        BY <2>3, <2>4
<1> QED
    BY <1>9, <1>10, <1>11

\* What a pass knows of a function depends on the facts and the input alone.
LEMMA SameFactsSameEvidence ==
    ASSUME UNCHANGED <<input, facts>>
    PROVE  /\ \A f \in Functions : RoleFits(f)' <=> RoleFits(f)
           /\ \A f \in Functions : EvidenceFits(f)' <=> EvidenceFits(f)
           /\ \A f \in Functions : ChainsToFree(f)' <=> ChainsToFree(f)
           /\ \A f \in Functions : Settled(f)' <=> Settled(f)
<1>1. /\ program' = program /\ engine' = engine /\ scan' = scan
      /\ facts' = facts
    BY DEF input
<1>2. \A f \in Functions : RoleFits(f)' <=> RoleFits(f)
    BY <1>1 DEF RoleFits, StructParams, Freed
<1>3. \A f \in Functions : EvidenceFits(f)' <=> EvidenceFits(f)
    BY <1>1 DEF EvidenceFits, Candidates, FreedConditional, StructParams, Freed
<1>4. \A f \in Functions : ChainsToFree(f)' <=> ChainsToFree(f)
    BY <1>1, InputFixed DEF ChainsToFree
<1>5. \A f \in Functions : Evidence(f)' = Evidence(f)
    BY <1>1 DEF Evidence, Considered, Forwards, Forwarded, Seen, TypeOfParam
<1>6. \A f \in Functions : Settled(f)' <=> Settled(f)
    BY <1>1, <1>5 DEF Settled, Skipped
<1> QED
    BY <1>2, <1>3, <1>4, <1>6

\* One visit, and the end of one pass, keep the invariant.
LEMMA NextKeepsFacts == FactsInv /\ [Next]_vars => FactsInv'
<1> SUFFICES ASSUME FactsInv, [Next]_vars PROVE FactsInv'
    OBVIOUS
<1> USE DEF FactsInv
<1>1. UNCHANGED input
    BY DEF Next, Visit, EndRound, NextRound, Return, Raise, vars
<1>2. program' = program /\ engine' = engine /\ scan' = scan
    BY <1>1 DEF input
<1>3. \A f \in Functions : scan'[f] \in ScanOrders(Candidates(f))'
    BY <1>1, <1>2, InputFixed, Zenon DEF TypeOK, ScanOrders
<1>4. PassesWhole' = PassesWhole
    BY <1>1, InputFixed
<1>5. Len(Order) \in Nat
    BY OrderAssumption
<1>6. CASE UNCHANGED facts
    <2>1. /\ \A f \in Functions : RoleFits(f)' /\ EvidenceFits(f)'
          /\ \A f \in Functions : ChainsToFree(f)' <=> ChainsToFree(f)
          /\ \A f \in Functions : Settled(f)' <=> Settled(f)
        BY <1>1, <1>6, SameFactsSameEvidence
    <2>2. engine' = "pycparser" \/ PassesWhole' => \A f \in Functions : ChainsToFree(f)'
        BY <1>2, <1>4, <2>1
    <2>3. CASE Visit
        <3>1. /\ phase = "classify" /\ next \in DOMAIN Order /\ next' = next + 1
              /\ phase' = phase
            BY <2>3 DEF Visit
        <3>2. next \in 1 .. Len(Order)
            BY <3>1, OrderAssumption
        <3>3. ~ changed' => ~ changed /\ Settled(Order[next])
            BY <2>3, <1>6 DEF Visit, Settled
        <3>4. changed' \in BOOLEAN
            BY <2>3 DEF Visit, TypeOK
        <3>5. TypeOK'
            BY <1>2, <1>3, <1>5, <1>6, <3>1, <3>2, <3>4 DEF TypeOK
        <3>6. \A j \in 1 .. next : Order[j] \in Functions
            BY <3>2, OrderAssumption
        <3>7. ~ changed' => \A j \in 1 .. next : Settled(Order[j])'
            BY <2>1, <3>1, <3>2, <3>3, <3>6 DEF PassSettles
        <3>8. PassSettles'
            BY <3>1, <3>2, <3>7 DEF PassSettles
        <3> QED
            BY <2>1, <2>2, <3>5, <3>8
    <2>4. CASE EndRound /\ NextRound
        <3>1. next' = 1 /\ changed' = FALSE /\ phase' = phase /\ phase = "classify"
            BY <2>4 DEF EndRound, NextRound
        <3>2. next' \in 1 .. Len(Order) + 1
            BY <1>5, <3>1
        <3>3. TypeOK'
            BY <1>2, <1>3, <1>6, <3>1, <3>2 DEF TypeOK
        <3>4. 1 .. next' - 1 = {}
            BY <3>1
        <3>5. PassSettles'
            BY <3>1, <3>4 DEF PassSettles
        <3> QED
            BY <2>1, <2>2, <3>3, <3>5
    <2>5. CASE EndRound /\ (Return \/ Raise)
        <3>1. /\ next = Len(Order) + 1 /\ phase = "classify"
              /\ next' = next /\ changed' = changed
              /\ phase' \in {"returned", "raised"}
              /\ phase' = "returned" => ~ changed
            BY <2>5 DEF EndRound, Return, Raise
        <3>2. TypeOK'
            BY <1>2, <1>3, <1>6, <3>1 DEF TypeOK
        <3>3. \A f \in Functions : \E j \in 1 .. Len(Order) : f = Order[j]
            BY OrderAssumption DEF Functions
        <3>4. phase' = "returned" => \A f \in Functions : Settled(f)'
            BY <1>5, <2>1, <3>1, <3>3 DEF PassSettles
        <3>5. PassSettles'
            BY <3>1, <3>4 DEF PassSettles
        <3> QED
            BY <2>1, <2>2, <3>2, <3>5
    <2>6. CASE UNCHANGED vars
        <3>1. next' = next /\ changed' = changed /\ phase' = phase
            BY <2>6 DEF vars
        <3>2. TypeOK'
            BY <1>2, <1>3, <1>6, <3>1 DEF TypeOK
        <3>3. \A j \in 1 .. Len(Order) : Order[j] \in Functions
            BY OrderAssumption
        <3>4. PassSettles'
            BY <1>5, <2>1, <3>1, <3>3 DEF PassSettles, TypeOK
        <3> QED
            BY <2>1, <2>2, <3>2, <3>4
    <2> QED
        BY <2>3, <2>4, <2>5, <2>6 DEF Next, EndRound
<1>7. CASE ~ UNCHANGED facts
    <2>1. Visit
        BY <1>7 DEF Next, EndRound, NextRound, Return, Raise, vars
    <2> DEFINE f == Order[next]
    <2>2. /\ Evidence(f) # {}
          /\ facts' = [facts EXCEPT ![f] = Upgrade(f)]
          /\ changed' = TRUE
        BY <1>7, <2>1 DEF Visit
    <2>3. next \in DOMAIN Order /\ next' = next + 1 /\ phase = "classify" /\ phase' = phase
        BY <2>1 DEF Visit
    <2>4. f \in Functions /\ next \in 1 .. Len(Order)
        BY <2>3, OrderAssumption DEF Functions
    <2> HIDE DEF f
    <2>5. /\ facts' \in [Functions -> [role : Destroying \cup {"creates", "uses", "none"},
                                       evidence : Evidences, param : Nat]]
          /\ \A g \in Functions : RoleFits(g)' /\ EvidenceFits(g)'
          /\ engine = "pycparser" \/ PassesWhole => \A g \in Functions : ChainsToFree(g)'
        BY <1>1, <2>2, <2>4, UpgradeKeeps
    <2>6. TypeOK'
        BY <1>2, <1>3, <1>5, <2>2, <2>3, <2>4, <2>5 DEF TypeOK
    <2>7. PassSettles'
        BY <2>2, <2>3 DEF PassSettles
    <2> QED
        BY <1>2, <1>4, <2>5, <2>6, <2>7
<1> QED
    BY <1>6, <1>7

-----------------------------------------------------------------------------
(* Theorems.                                                               *)

\* The invariant of every classification: types, what each role and each kind
\* of evidence stands for, and what a pass without a change has settled.
THEOREM ClassificationInvariant == Spec => []FactsInv
<1> QED
    BY InitFacts, NextKeepsFacts, PTL DEF Spec

\* A function is called a destructor only where a chain of calls leads from its
\* parameter to a free, on every path where it is called a certain one, and a
\* conditional free is never asserted unless the name says so (OwnFact,
\* Forwarded).
THEOREM DestructorsAreGrounded == Spec => []DestroysGrounded
<1>1. FactsInv => DestroysGrounded
    <2> SUFFICES ASSUME FactsInv, engine = "pycparser" \/ PassesWhole, NEW f \in Functions
                 PROVE  /\ facts[f].role \in Destroying
                                => <<f, facts[f].param>> \in ReachesFree(FALSE)
                        /\ engine = "pycparser" /\ facts[f].evidence = "forwarded"
                                => <<f, facts[f].param>> \in ReachesFree(TRUE)
                        /\ engine = "pycparser" => ~ AssertsConditional(f)
        BY DEF DestroysGrounded
    <2>1. ChainsToFree(f)
        BY DEF FactsInv
    <2>2. ASSUME engine = "pycparser", NEW g \in Functions, facts[g].role = "destroys",
                 facts[g].param \in program[g].guarded
          PROVE  program[g].destructorName
        <3>1. EvidenceFits(g) /\ RoleFits(g)
            BY DEF FactsInv
        <3>2. facts[g].param \in StructParams(g)
            BY <2>2, <3>1 DEF RoleFits, Destroying
        <3>3. facts[g].param \in Freed(g) /\ facts[g].param \in FreedConditional(g)
            BY <2>2, <3>2 DEF Freed, FreedConditional
        <3>4. facts[g].evidence \notin {"direct", "forwarded"}
            BY <2>2, <3>1, <3>3 DEF EvidenceFits, Candidates
        <3> QED
            BY <2>2, <3>1, <3>4 DEF EvidenceFits
    <2> QED
        BY <2>1, <2>2 DEF ChainsToFree, AssertsConditional
<1> QED
    BY <1>1, ClassificationInvariant, PTL

\* What is returned is a fixed point: a classification that the cap on the
\* rounds cut off is raised, never returned (classify_records).
THEOREM PartialResultsRaised == Spec => []PartialNeverReturned
<1>1. FactsInv => PartialNeverReturned
    BY DEF FactsInv, PassSettles, PartialNeverReturned, Settled
<1> QED
    BY <1>1, ClassificationInvariant, PTL

\* In a library whose functions take one struct each, no function that reaches a
\* free of its parameter is left a harmless use when the result is returned.
THEOREM FreesAreFound == Spec => []NoFreeOverlooked
<1>1. FactsInv => NoFreeOverlooked
    <2> SUFFICES ASSUME FactsInv, phase = "returned",
                        \A g \in Functions : Cardinality(StructParams(g)) <= 1,
                        NEW h \in Functions, facts[h].role = "uses",
                        <<h, facts[h].param>> \in ReachesFree(FALSE)
                 PROVE  FALSE
        BY DEF NoFreeOverlooked
    <2> DEFINE S == {fp \in Pairs : /\ facts[fp[1]].role \in Destroying
                                    /\ facts[fp[1]].param = fp[2]}
    <2>1. program \in Programs /\ \A g \in Functions : RoleFits(g)
        BY DEF FactsInv, TypeOK
    <2>2. ASSUME NEW g \in Functions, NEW p \in StructParams(g)
          PROVE  StructParams(g) = {p}
        <3>1. IsFiniteSet(StructParams(g))
            BY <2>1, BodyShape, FS_Subset DEF StructParams
        <3>2. ASSUME NEW q \in StructParams(g), q # p
              PROVE  FALSE
            <4>1. Cardinality({p, q}) = 2
                <5>1. IsFiniteSet({p}) /\ Cardinality({p}) = 1
                    BY FS_Singleton
                <5>2. Cardinality({p} \cup {q}) = Cardinality({p}) + 1
                    BY <3>2, <5>1, FS_AddElement
                <5>3. {p} \cup {q} = {p, q}
                    OBVIOUS
                <5> QED
                    BY <5>1, <5>2, <5>3
            <4>2. Cardinality({p, q}) <= Cardinality(StructParams(g))
                BY <3>1, FS_Subset
            <4>3. Cardinality(StructParams(g)) \in Nat
                BY <3>1, FS_CardinalityType
            <4> QED
                BY <4>1, <4>2, <4>3
        <3> QED
            BY <3>2
    <2>3. \A g \in Functions : \A p, q \in StructParams(g) : p = q
        BY <2>2
    <2>4. \A g \in Functions : \A p : <<g, p>> \in S
            <=> p \in StructParams(g) /\ facts[g].role \in Destroying /\ facts[g].param = p
        BY DEF Pairs
    <2>5. FreesHere(FALSE) \subseteq S
        <3> SUFFICES ASSUME NEW fp \in FreesHere(FALSE) PROVE fp \in S
            OBVIOUS
        <3>1. PICK g \in Functions : \E q \in StructParams(g) : fp = <<g, q>>
            BY DEF FreesHere, Pairs
        <3>2. PICK p \in StructParams(g) : fp = <<g, p>>
            BY <3>1
        <3>3. program[g].returns = NoType /\ p \in Freed(g)
            BY <3>2 DEF FreesHere
        <3>4. facts[g].role \in Destroying
            BY <2>1, <3>3 DEF RoleFits
        <3>5. facts[g].param \in StructParams(g)
            BY <2>1, <3>4 DEF RoleFits
        <3> QED
            BY <2>3, <2>4, <3>2, <3>4, <3>5
    <2>6. Closed(S)
        <3> SUFFICES ASSUME NEW g \in Functions, NEW p \in StructParams(g), PassesOn(g, p, S)
                     PROVE  <<g, p>> \in S
            BY DEF Closed
        <3>1. /\ program[g].returns = NoType /\ p \notin Freed(g)
              /\ \E i \in DOMAIN program[g].calls[p] :
                    LET call == program[g].calls[p][i] IN
                    /\ call.whole
                    /\ <<call.callee, call.arg>> \in S
                    /\ TypeOfParam(call.callee, call.arg) = TypeOfParam(g, p)
            BY DEF PassesOn
        <3>2. PICK i \in DOMAIN program[g].calls[p] :
                    LET call == program[g].calls[p][i] IN
                    /\ call.whole
                    /\ <<call.callee, call.arg>> \in S
                    /\ TypeOfParam(call.callee, call.arg) = TypeOfParam(g, p)
            BY <3>1
        <3> DEFINE call == program[g].calls[p][i]
        <3>3. call.callee \in Functions
            BY <3>2 DEF Pairs
        <3>4. Forwards(g, p, call)
            <4>1. /\ call.arg \in StructParams(call.callee)
                  /\ facts[call.callee].role \in Destroying /\ facts[call.callee].param = call.arg
                BY <2>4, <3>2, <3>3
            <4> QED
                BY <3>2, <3>3, <4>1 DEF Forwards, Seen, StructParams
        <3>5. facts[g].role \in Destroying \cup {"uses"} /\ facts[g].param = p
            BY <2>1, <2>3, <3>1 DEF RoleFits
        <3>6. ASSUME facts[g].role = "uses"
              PROVE  FALSE
            <4>1. Evidence(g) = {}
                <5>1. Settled(g)
                    BY DEF FactsInv, PassSettles
                <5> QED
                    BY <3>6, <5>1 DEF Settled, Skipped
            <4>2. Candidates(g) = {p}
                BY <2>2, <3>1 DEF Candidates
            <4>3. Cardinality({p}) = 1
                BY FS_Singleton
            <4>4. scan[g] \in ScanOrders({p})
                BY <4>2 DEF FactsInv, TypeOK
            <4>5. 1 \in DOMAIN scan[g] /\ scan[g][1] = p
                <5>1. scan[g] \in [1 .. Cardinality({p}) -> {p}]
                    BY <4>4 DEF ScanOrders
                <5>2. scan[g] \in [1 .. 1 -> {p}]
                    BY <4>3, <5>1
                <5> QED
                    BY <5>2
            <4>6. 1 \in Considered(g)
                BY <3>6, <4>5 DEF Considered, Destroying
            <4>7. Upgrades(facts[g].role, Forwarded(call.callee).role)
                BY <3>6 DEF Upgrades
            <4>8. <<1, i>> \in Evidence(g)
                BY <3>4, <4>5, <4>6, <4>7, CallIsEvidence
            <4> QED
                BY <4>1, <4>8
        <3> QED
            BY <2>4, <3>5, <3>6
    <2>7. S \in SUBSET Pairs
        OBVIOUS
    <2> HIDE DEF S
    <2>8. <<h, facts[h].param>> \in S
        BY <2>5, <2>6, <2>7 DEF ReachesFree
    <2> QED
        BY <2>4, <2>8 DEF Destroying
<1> QED
    BY <1>1, ClassificationInvariant, PTL
=============================================================================
