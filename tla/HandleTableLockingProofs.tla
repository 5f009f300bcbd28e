---------------------- MODULE HandleTableLockingProofs ----------------------
(***************************************************************************)
(* Proofs about HandleTableLocking: whatever the interleaving, the         *)
(* statements under the lock amount to the atomic put and pop_cascade, and *)
(* a reader that takes no lock is granted only what the table granted      *)
(* while it ran.                                                           *)
(***************************************************************************)
EXTENDS HandleTableLocking, NumberLemmas, SequenceTheorems, TLAPS

\* What is proved of the table, of the table as last committed.
Tab == INSTANCE HandleTableProofs WITH
    items <- committed.items, owned <- committed.owned,
    parent <- committed.parent, children <- committed.children,
    invalidated <- committed.invalidated,
    invalidatedOrder <- committed.invalidatedOrder,
    nextId <- committed.nextId, lineage <- committed.lineage,
    freed <- committed.freed

-----------------------------------------------------------------------------
(* Forgetting one id at a time.                                            *)

Excess(n) == IF n > InvalidatedMemory THEN n - InvalidatedMemory ELSE 0

\* The first n members of a sequence.
Firsts(s, n) == {s[i] : i \in 1 .. n}

\* r is what is left of s without its first m members; r is s and one more.
Suffixed(s, m, p, r) ==
    /\ s \in Seq(Nat) /\ m \in Nat /\ p \in Nat
    /\ Len(s) = m + p
    /\ r = SubSeq(s, m + 1, m + p)
Extended(s, n, x, r) ==
    /\ s \in Seq(Nat) /\ n \in Nat /\ x \in Nat
    /\ Len(s) = n
    /\ r = s \o <<x>>

\* The members of a suffix.
LEMMA Suffix ==
    ASSUME NEW m \in Nat, NEW p \in Nat, NEW s, NEW r, Suffixed(s, m, p, r)
    PROVE  /\ r \in Seq(Nat)
           /\ Len(r) = p
           /\ \A i \in 1 .. p : r[i] = s[m + i]
<1>0. /\ s \in Seq(Nat) /\ m \in Nat /\ p \in Nat /\ Len(s) = m + p
      /\ r = SubSeq(s, m + 1, m + p)
    BY DEF Suffixed
<1>1. m + 1 \in Int /\ m + p \in Int
    BY <1>0
<1>2. \A i \in (m + 1) .. (m + p) : s[i] \in Nat
    BY <1>0
<1>3. /\ r \in Seq(Nat)
      /\ Len(r) = IF m + 1 <= m + p THEN m + p - (m + 1) + 1 ELSE 0
      /\ \A i \in 1 .. (m + p - (m + 1) + 1) : r[i] = s[(m + 1) + i - 1]
    BY <1>0, <1>1, <1>2, SubSeqProperties
<1>4. Len(r) = p /\ m + p - (m + 1) + 1 = p
    BY <1>0, <1>1, <1>3
<1>5. \A i \in 1 .. p : (m + 1) + i - 1 = m + i
    BY <1>0, <1>1
<1> QED
    BY <1>3, <1>4, <1>5

\* The members of a sequence with one more.
LEMMA OneMore ==
    ASSUME NEW s, NEW n, NEW x, NEW r, Extended(s, n, x, r)
    PROVE  /\ r \in Seq(Nat)
           /\ Len(r) = n + 1
           /\ \A i \in 1 .. n : r[i] = s[i]
           /\ r[n + 1] = x
<1>1. s \in Seq(Nat) /\ n \in Nat /\ x \in Nat /\ Len(s) = n /\ r = Append(s, x)
    BY AppendIsConcat DEF Extended
<1> QED
    BY <1>1, AppendProperties

\* How much the capacity makes a memory of n ids forget, and one id later.
LEMMA ExcessGrows ==
    ASSUME NEW n \in Nat
    PROVE  \E e \in Nat, p \in Nat, d \in Nat, q \in Nat :
              /\ e = Excess(n) /\ n = e + p
              /\ d = Excess(p + 1) /\ p + 1 = d + q
              /\ Excess(n + 1) = e + d
<1>1. InvalidatedMemory \in Nat
    BY InvalidatedMemoryAssumption
<1>2. CASE n > InvalidatedMemory
    <2>1. /\ Excess(n) = n - InvalidatedMemory
          /\ Excess(InvalidatedMemory + 1) = 1
          /\ Excess(n + 1) = n + 1 - InvalidatedMemory
        BY <1>1, <1>2 DEF Excess
    <2>2. n - InvalidatedMemory \in Nat
        BY <1>1, <1>2
    <2> WITNESS n - InvalidatedMemory \in Nat, InvalidatedMemory \in Nat,
                1 \in Nat, InvalidatedMemory \in Nat
    <2> QED
        BY <1>1, <1>2, <2>1
<1>3. CASE n < InvalidatedMemory
    <2>1. Excess(n) = 0 /\ Excess(n + 1) = 0
        BY <1>1, <1>3 DEF Excess
    <2> WITNESS 0 \in Nat, n \in Nat, 0 \in Nat, n + 1 \in Nat
    <2> QED
        BY <1>1, <1>3, <2>1
<1>4. CASE n = InvalidatedMemory
    <2>1. Excess(n) = 0 /\ Excess(n + 1) = 1
        BY <1>1, <1>4 DEF Excess
    <2> WITNESS 0 \in Nat, n \in Nat, 1 \in Nat, n \in Nat
    <2> QED
        BY <1>1, <1>4, <2>1
<1> QED
    BY <1>1, <1>2, <1>3, <1>4

\* a loses its first e members to give k, which is extended with x and loses d
\* more to give s; or a is extended with x and loses f to give t.
Forgettings(e, p, d, q, n, f, x, a, k, b, c, s, t) ==
    /\ e \in Nat /\ p \in Nat /\ d \in Nat /\ q \in Nat /\ n \in Nat /\ f \in Nat
    /\ n = e + p /\ f = e + d /\ p + 1 = d + q
    /\ Suffixed(a, e, p, k) /\ Extended(k, p, x, b) /\ Suffixed(b, d, q, s)
    /\ Extended(a, n, x, c) /\ Suffixed(c, f, q, t)

\* Appending an id to what a first forgetting, of e ids, has left, and then
\* forgetting d more, is to append first and forget e + d at once.
LEMMA TwoForgettings ==
    ASSUME NEW e, NEW p, NEW d, NEW q, NEW n, NEW f, NEW x, NEW a, NEW k, NEW b, NEW c,
           NEW s, NEW t, Forgettings(e, p, d, q, n, f, x, a, k, b, c, s, t)
    PROVE  /\ s = t
           /\ Firsts(c, f) = Firsts(a, e) \cup Firsts(b, d)
<1>1. /\ e \in Nat /\ p \in Nat /\ d \in Nat /\ q \in Nat /\ n \in Nat /\ f \in Nat
      /\ n = e + p /\ f = e + d /\ p + 1 = d + q
    BY DEF Forgettings
<1>2. /\ Suffixed(a, e, p, k) /\ Extended(k, p, x, b) /\ Suffixed(b, d, q, s)
      /\ Extended(a, n, x, c) /\ Suffixed(c, f, q, t)
    BY DEF Forgettings
<1>3. /\ k \in Seq(Nat) /\ Len(k) = p
      /\ \A i \in 1 .. p : k[i] = a[e + i]
    BY <1>1, <1>2, Suffix
<1>4. /\ b \in Seq(Nat) /\ Len(b) = p + 1
      /\ \A i \in 1 .. p : b[i] = k[i]
      /\ b[p + 1] = x
    BY <1>2, OneMore
<1>5. /\ c \in Seq(Nat) /\ Len(c) = n + 1
      /\ \A i \in 1 .. n : c[i] = a[i]
      /\ c[n + 1] = x
    BY <1>2, OneMore
<1>6. ASSUME NEW i \in 1 .. (p + 1)
      PROVE  b[i] = c[e + i]
    <2>1. CASE i \in 1 .. p
        <3>1. e + i \in 1 .. n
            BY <1>1, <2>1
        <3> QED
            BY <1>3, <1>4, <1>5, <2>1, <3>1
    <2>0. i \in 1 .. p \/ i = p + 1
        BY <1>1
    <2>2. CASE i = p + 1
        <3>1. e + i = n + 1
            BY <1>1, <2>2
        <3> QED
            BY <1>4, <1>5, <2>2, <3>1
    <2> QED
        BY <2>0, <2>1, <2>2
<1>8. s = t
    <2>3. /\ s \in Seq(Nat) /\ Len(s) = q
          /\ \A i \in 1 .. q : s[i] = b[d + i]
        BY <1>1, <1>2, Suffix
    <2>4. /\ t \in Seq(Nat) /\ Len(t) = q
          /\ \A i \in 1 .. q : t[i] = c[f + i]
        BY <1>1, <1>2, Suffix
    <2>5. ASSUME NEW i \in 1 .. q
          PROVE  s[i] = t[i]
        <3>1. e + (d + i) = f + i /\ d + i \in 1 .. (p + 1)
            BY <1>1
        <3>2. s[i] = c[e + (d + i)]
            BY <1>6, <2>3, <3>1
        <3> QED
            BY <2>4, <3>1, <3>2
    <2> QED
        BY <2>3, <2>4, <2>5, SeqEqual
<1>9. {c[i] : i \in 1 .. f} = {a[i] : i \in 1 .. e} \cup {b[i] : i \in 1 .. d}
    <2>1. \A i \in 1 .. e : i \in 1 .. f /\ i \in 1 .. n /\ a[i] = c[i]
        BY <1>1, <1>5
    <2>2. ASSUME NEW i \in 1 .. d
          PROVE  e + i \in 1 .. f /\ b[i] = c[e + i]
        <3>1. e + i \in 1 .. f /\ i \in 1 .. (p + 1)
            BY <1>1
        <3> QED
            BY <1>6, <3>1
    <2>3. ASSUME NEW i \in 1 .. f
          PROVE  c[i] \in {a[j] : j \in 1 .. e} \cup {b[j] : j \in 1 .. d}
        <3>1. CASE i \in 1 .. e
            BY <2>1, <3>1
        <3>2. CASE i \notin 1 .. e
            <4>1. PICK j \in 1 .. d : e + j = i
                <5>1. i - e \in 1 .. d /\ e + (i - e) = i
                    BY <1>1, <3>2
                <5> QED
                    BY <5>1
            <4> QED
                BY <2>2, <4>1
        <3> QED
            BY <3>1, <3>2
    <2>4. {c[i] : i \in 1 .. f}
            \subseteq {a[i] : i \in 1 .. e} \cup {b[i] : i \in 1 .. d}
        BY <2>3
    <2>5. {a[i] : i \in 1 .. e} \cup {b[i] : i \in 1 .. d}
            \subseteq {c[i] : i \in 1 .. f}
        <3>1. \A i \in 1 .. e : a[i] \in {c[j] : j \in 1 .. f}
            BY <2>1
        <3>2. \A i \in 1 .. d : b[i] \in {c[j] : j \in 1 .. f}
            BY <2>2
        <3> QED
            BY <3>1, <3>2
    <2> QED
        BY <2>4, <2>5
<1> QED
    BY <1>8, <1>9 DEF Firsts

\* What is remembered once done, part of a worklist, has been invalidated.
Remembered(done, owner) ==
    LET all == committed.invalidatedOrder \o done
        excess == Excess(Len(all))
    IN  /\ invalidatedOrder = SubSeq(all, excess + 1, Len(all))
        /\ DOMAIN invalidated =
              (DOMAIN committed.invalidated \cup Range(done))
                  \ {all[i] : i \in 1 .. excess}
        /\ invalidated = [x \in DOMAIN invalidated |->
                            IF x \in Range(done) THEN owner
                                                 ELSE committed.invalidated[x]]

\* The range of a sequence with one more member.
LEMMA RangeAppend ==
    ASSUME NEW s \in Seq(Nat), NEW x \in Nat
    PROVE  Range(Append(s, x)) = Range(s) \cup {x} /\ Range(<<x>>) = {x}
<1>1. /\ Len(s) \in Nat
      /\ DOMAIN s = 1 .. Len(s)
      /\ DOMAIN Append(s, x) = 1 .. (Len(s) + 1)
      /\ \A i \in 1 .. Len(s) : Append(s, x)[i] = s[i]
      /\ Append(s, x)[Len(s) + 1] = x
    BY AppendProperties
<1>2. Range(Append(s, x)) \subseteq Range(s) \cup {x}
    <2> SUFFICES ASSUME NEW i \in 1 .. (Len(s) + 1)
                 PROVE  Append(s, x)[i] \in Range(s) \cup {x}
        BY <1>1 DEF Range
    <2>1. i \in 1 .. Len(s) \/ i = Len(s) + 1
        BY <1>1
    <2> QED
        BY <1>1, <2>1 DEF Range
<1>3. Range(s) \subseteq Range(Append(s, x))
    <2>1. \A i \in 1 .. Len(s) : i \in 1 .. (Len(s) + 1)
        BY <1>1
    <2> QED
        BY <1>1, <2>1 DEF Range
<1>4. x \in Range(Append(s, x))
    <2>1. Len(s) + 1 \in 1 .. (Len(s) + 1)
        BY <1>1
    <2> QED
        BY <1>1, <2>1 DEF Range
<1>5. DOMAIN <<x>> = {1} /\ <<x>>[1] = x
    OBVIOUS
<1> QED
    BY <1>2, <1>3, <1>4, <1>5 DEF Range

\* The loop over the doomed has done some of them and does x next.
OneForgotten(done, x, h) ==
    /\ done \in Seq(Nat) /\ x \in Nat
    /\ committed.invalidatedOrder \in Seq(Nat)
    /\ Range(committed.invalidatedOrder) \subseteq DOMAIN committed.invalidated
    /\ x \notin DOMAIN committed.invalidated \cup Range(done)
    /\ Remembered(done, h)
    /\ Remember(<<x>>, h)
    /\ committed'.invalidatedOrder = committed.invalidatedOrder
    /\ committed'.invalidated = committed.invalidated

\* Invalidating one id more, and forgetting what is then in excess, leaves what
\* invalidating the whole list at once would have left.
LEMMA RememberNext ==
    ASSUME NEW done, NEW x, NEW h, OneForgotten(done, x, h)
    PROVE  Remembered(Append(done, x), h)'
<1>h. /\ Remembered(done, h)
      /\ Remember(<<x>>, h)
    BY DEF OneForgotten
<1>c. /\ Range(committed.invalidatedOrder) \subseteq DOMAIN committed.invalidated
      /\ x \notin DOMAIN committed.invalidated \cup Range(done)
      /\ committed'.invalidatedOrder = committed.invalidatedOrder
      /\ committed'.invalidated = committed.invalidated
    BY DEF OneForgotten
<1>0. PICK old : old = committed.invalidatedOrder
    OBVIOUS
<1>t. done \in Seq(Nat) /\ x \in Nat /\ old \in Seq(Nat)
    BY <1>0 DEF OneForgotten
<1>1. PICK a : a = old \o done
    OBVIOUS
<1>2. a \in Seq(Nat) /\ Len(a) \in Nat
    BY <1>t, <1>1, ConcatProperties
<1>3. PICK n \in Nat : n = Len(a)
    BY <1>2
<1>4. PICK e \in Nat, p \in Nat, d \in Nat, q \in Nat :
              /\ e = Excess(n) /\ n = e + p
              /\ d = Excess(p + 1) /\ p + 1 = d + q
              /\ Excess(n + 1) = e + d
    BY ExcessGrows
<1>5. n = e + p /\ p + 1 = d + q
    BY <1>4
<1>6. PICK k : k = invalidatedOrder
    OBVIOUS
<1>7. /\ k = SubSeq(a, Excess(Len(a)) + 1, Len(a))
      /\ DOMAIN invalidated = (DOMAIN committed.invalidated \cup Range(done))
                                  \ {a[i] : i \in 1 .. Excess(Len(a))}
      /\ \A y \in DOMAIN invalidated : invalidated[y] =
            IF y \in Range(done) THEN h ELSE committed.invalidated[y]
    <2>1. \A y \in DOMAIN invalidated : invalidated[y] =
            IF y \in Range(done) THEN h ELSE committed.invalidated[y]
        BY <1>h DEF Remembered
    <2>2. /\ invalidatedOrder = SubSeq(a, Excess(Len(a)) + 1, Len(a))
          /\ DOMAIN invalidated = (DOMAIN committed.invalidated \cup Range(done))
                                  \ {a[i] : i \in 1 .. Excess(Len(a))}
        BY <1>h, <1>0, <1>1 DEF Remembered
    <2> QED
        BY <1>6, <2>1, <2>2
<1>8. Suffixed(a, e, p, k)
    <2>1. k = SubSeq(a, e + 1, e + p)
        BY <1>3, <1>4, <1>7
    <2> QED
        BY <1>2, <1>3, <1>5, <2>1 DEF Suffixed
<1>9. k \in Seq(Nat) /\ Len(k) = p
    BY <1>8, Suffix
<1>10. PICK b : b = k \o <<x>>
    OBVIOUS
<1>11. Extended(k, p, x, b)
    BY <1>t, <1>9, <1>10 DEF Extended
<1>12. Len(b) = p + 1
    BY <1>11, OneMore
<1>13. PICK s : s = invalidatedOrder'
    OBVIOUS
<1>14. /\ s = SubSeq(b, Excess(Len(b)) + 1, Len(b))
       /\ DOMAIN invalidated' = (DOMAIN invalidated \cup Range(<<x>>))
                                   \ {b[i] : i \in 1 .. Excess(Len(b))}
       /\ \A y \in DOMAIN invalidated' : invalidated'[y] =
              IF y \in Range(<<x>>) THEN h ELSE invalidated[y]
       /\ invalidated' = [y \in DOMAIN invalidated' |-> invalidated'[y]]
    BY <1>h, <1>6, <1>10, <1>13 DEF Remember, Without, Excess
<1>15. Suffixed(b, d, q, s)
    <2>1. s = SubSeq(b, d + 1, d + q)
        BY <1>4, <1>12, <1>14
    <2>2. b \in Seq(Nat)
        BY <1>11, OneMore
    <2> QED
        BY <1>5, <1>12, <2>1, <2>2 DEF Suffixed
<1>16. PICK c : c = old \o Append(done, x)
    OBVIOUS
<1>17. c = a \o <<x>>
    <2>1. Append(done, x) = done \o <<x>> /\ <<x>> \in Seq(Nat)
        BY <1>t, AppendIsConcat
    <2> QED
        BY <1>t, <1>1, <1>16, <2>1, ConcatAssociative
<1>18. Extended(a, n, x, c)
    BY <1>t, <1>2, <1>3, <1>17 DEF Extended
<1>19. c \in Seq(Nat) /\ Len(c) = n + 1
    BY <1>18, OneMore
<1>20. PICK f \in Nat : f = e + d
    OBVIOUS
<1>21. PICK t : t = SubSeq(c, f + 1, f + q)
    OBVIOUS
<1>22. Suffixed(c, f, q, t)
    BY <1>5, <1>19, <1>20, <1>21 DEF Suffixed
<1>23. s = t /\ Firsts(c, f) = Firsts(a, e) \cup Firsts(b, d)
    <2>1. Forgettings(e, p, d, q, n, f, x, a, k, b, c, s, t)
        BY <1>5, <1>8, <1>11, <1>15, <1>18, <1>20, <1>22 DEF Forgettings
    <2> QED
        BY <2>1, TwoForgettings
<1>24. Excess(Len(c)) = f /\ Len(c) = f + q
    <2>1. Len(c) = f + q
        BY <1>5, <1>19, <1>20
    <2> QED
        BY <1>4, <1>19, <1>20, <2>1
<1>25. Range(Append(done, x)) = Range(done) \cup {x} /\ Range(<<x>>) = {x}
    BY <1>t, RangeAppend
<1>26. {a[i] : i \in 1 .. e} \subseteq DOMAIN committed.invalidated \cup Range(done)
    <2> SUFFICES ASSUME NEW i \in 1 .. e
                 PROVE  a[i] \in Range(old) \cup Range(done)
        BY <1>0, <1>c
    <2>1. /\ Len(old) \in Nat /\ Len(done) \in Nat
          /\ n = Len(old) + Len(done)
          /\ \A j \in 1 .. Len(old) + Len(done) :
                a[j] = IF j <= Len(old) THEN old[j] ELSE done[j - Len(old)]
        BY <1>t, <1>1, <1>3, ConcatProperties
    <2>2. i \in 1 .. Len(old) + Len(done)
        BY <1>5, <2>1
    <2>3. CASE i <= Len(old)
        <3>1. i \in DOMAIN old /\ a[i] = old[i]
            BY <1>t, <2>1, <2>2, <2>3
        <3> QED
            BY <3>1 DEF Range
    <2>4. CASE ~(i <= Len(old))
        <3>1. i - Len(old) \in DOMAIN done /\ a[i] = done[i - Len(old)]
            BY <1>t, <2>1, <2>2, <2>4
        <3> QED
            BY <3>1 DEF Range
    <2> QED
        BY <2>3, <2>4
<1>27. invalidatedOrder' = SubSeq(c, Excess(Len(c)) + 1, Len(c))
    BY <1>13, <1>21, <1>23, <1>24
<1>28. DOMAIN invalidated' =
          (DOMAIN committed.invalidated \cup Range(Append(done, x)))
              \ {c[i] : i \in 1 .. Excess(Len(c))}
    <2>1. {a[i] : i \in 1 .. Excess(Len(a))} = {a[i] : i \in 1 .. e}
        BY <1>3, <1>4
    <2>2. {b[i] : i \in 1 .. Excess(Len(b))} = {b[i] : i \in 1 .. d}
        BY <1>4, <1>12
    <2>3. {c[i] : i \in 1 .. Excess(Len(c))} = {c[i] : i \in 1 .. f}
        BY <1>24
    <2>4. DOMAIN invalidated = (DOMAIN committed.invalidated \cup Range(done)) \ Firsts(a, e)
        BY <1>7, <2>1 DEF Firsts
    <2>5. DOMAIN invalidated' = (DOMAIN invalidated \cup {x}) \ Firsts(b, d)
        BY <1>14, <1>25, <2>2 DEF Firsts
    <2>6. {c[i] : i \in 1 .. Excess(Len(c))} = Firsts(a, e) \cup Firsts(b, d)
        BY <1>23, <2>3 DEF Firsts
    <2>7. x \notin Firsts(a, e)
        BY <1>c, <1>26 DEF Firsts
    <2> QED
        BY <1>25, <2>4, <2>5, <2>6, <2>7
<1>29. \A y \in DOMAIN invalidated' : invalidated'[y] =
          IF y \in Range(Append(done, x)) THEN h ELSE committed.invalidated[y]
    BY <1>7, <1>14, <1>25
<1>30. invalidated' = [y \in DOMAIN invalidated' |->
          IF y \in Range(Append(done, x)) THEN h ELSE committed.invalidated[y]]
    BY <1>14, <1>29
<1>31. PICK new : new = Append(done, x)
    OBVIOUS
<1>32. c = committed'.invalidatedOrder \o new
    BY <1>0, <1>c, <1>16, <1>31
<1>33. /\ invalidatedOrder' = SubSeq(c, Excess(Len(c)) + 1, Len(c))
       /\ DOMAIN invalidated' = (DOMAIN committed'.invalidated \cup Range(new))
                                   \ {c[i] : i \in 1 .. Excess(Len(c))}
       /\ invalidated' = [y \in DOMAIN invalidated' |->
                IF y \in Range(new) THEN h ELSE committed'.invalidated[y]]
    BY <1>c, <1>27, <1>28, <1>30, <1>31
<1>34. Remembered(new, h)'
    <2>1. /\ invalidatedOrder' = SubSeq(committed'.invalidatedOrder \o new,
                Excess(Len(committed'.invalidatedOrder \o new)) + 1,
                Len(committed'.invalidatedOrder \o new))
          /\ DOMAIN invalidated' = (DOMAIN committed'.invalidated \cup Range(new))
                \ {(committed'.invalidatedOrder \o new)[i] :
                    i \in 1 .. Excess(Len(committed'.invalidatedOrder \o new))}
        <3>1. invalidatedOrder' = SubSeq(committed'.invalidatedOrder \o new,
                Excess(Len(committed'.invalidatedOrder \o new)) + 1,
                Len(committed'.invalidatedOrder \o new))
            BY <1>32, <1>33
        <3>2. DOMAIN invalidated' = (DOMAIN committed'.invalidated \cup Range(new))
                \ {(committed'.invalidatedOrder \o new)[i] :
                    i \in 1 .. Excess(Len(committed'.invalidatedOrder \o new))}
            BY <1>32, <1>33
        <3> QED
            BY <3>1, <3>2
    <2>2. invalidated' = [y \in DOMAIN invalidated' |->
                   IF y \in Range(new) THEN h ELSE committed'.invalidated[y]]
        BY <1>33
    <2> QED
        BY <2>1, <2>2, Zenon DEF Remembered, Excess
<1> QED
    BY <1>31, <1>34

-----------------------------------------------------------------------------
(* The inductive invariant.                                                *)

Putting == {"putOwned", "putBorrowed"}
Popping == {"popCheck", "worklist", "dropItem", "unlink", "remember", "dropRoot"}
Readings == GetSteps \cup OwnedSteps \cup {"answered"}
Results == {"none", "live", "unknown", "stale", "owned", "borrowed"}

\* Only the thread that holds the lock is inside put or pop_cascade, and what a
\* thread was called with is an id that a finished put returned.
Scheduled ==
    /\ lock \in Threads \cup {Nobody}
    /\ pc \in [Threads -> {"idle"} \cup Putting \cup Popping \cup Readings]
    /\ arg \in [Threads -> Nat]
    /\ result \in [Threads -> Results]
    /\ \A t \in Threads : pc[t] \in Putting \cup Popping <=> lock = t
    /\ \A t \in Threads : pc[t] \in Popping \cup Readings => arg[t] \in Returned
    /\ \A t \in Threads : pc[t] \in Putting => arg[t] \in Returned \cup {None}

SameAsCommitted ==
    /\ items = committed.items /\ owned = committed.owned
    /\ parent = committed.parent /\ children = committed.children
    /\ invalidated = committed.invalidated
    /\ invalidatedOrder = committed.invalidatedOrder
    /\ nextId = committed.nextId /\ lineage = committed.lineage
    /\ freed = committed.freed

\* put has issued the id and stored the object, and no more.
HalfPut ==
    /\ committed.nextId <= MaxHandles
    /\ nextId = committed.nextId + 1
    /\ \E obj \in Objects : items = Assign(committed.items, committed.nextId, obj)
    /\ owned = committed.owned
    /\ parent = committed.parent /\ children = committed.children
    /\ invalidated = committed.invalidated
    /\ invalidatedOrder = committed.invalidatedOrder
    /\ lineage = committed.lineage /\ freed = committed.freed

\* The worklist of pop_cascade: what has been reached is doomed, the children of
\* whatever has been visited have been reached, and each after its parent.
Collecting(h) ==
    /\ Tab!PopVerdict(h) = "freed"
    /\ doomed \in Seq(Tab!Doomed(h)) /\ pending \subseteq Tab!Doomed(h)
    /\ \A i, j \in 1 .. Len(doomed) : doomed[i] = doomed[j] => i = j
    /\ Tab!ChildrenOf(h) \subseteq Range(doomed) \cup pending
    /\ \A x \in Range(doomed) : Tab!ChildrenOf(x) \subseteq Range(doomed) \cup pending
    /\ \A i \in 1 .. Len(doomed) :
          \/ doomed[i] \in Tab!ChildrenOf(h)
          \/ \E j \in 1 .. Len(doomed) : j < i /\ doomed[i] \in Tab!ChildrenOf(doomed[j])
    /\ \A x \in pending :
          \/ x \in Tab!ChildrenOf(h)
          \/ \E j \in 1 .. Len(doomed) : x \in Tab!ChildrenOf(doomed[j])

Unlinks(gone) ==
    /\ owned = Without(committed.owned, gone)
    /\ parent = Without(committed.parent, gone)
    /\ children = [x \in DOMAIN committed.children \ gone |->
                      committed.children[x] \ gone]

\* pop_cascade has dealt with done and has doomed to go: the items dropped so far,
\* the links cut so far and the memory are those of the committed table without
\* what has been dealt with.
HalfPopped(h, done, dropped, unlinked) ==
    /\ Tab!PopVerdict(h) = "freed"
    /\ done \in Seq(Nat) /\ doomed \in Seq(Nat)
    /\ done \o doomed \in Tab!WorklistOrders(h)
    /\ items = Without(committed.items, dropped)
    /\ Unlinks(unlinked)
    /\ Remembered(done, h)
    /\ nextId = committed.nextId /\ lineage = committed.lineage
    /\ freed = committed.freed

Dropping(h) == \E done \in Seq(Nat) : HalfPopped(h, done, Range(done), Range(done))
Unlinking(h) ==
    /\ doomed # <<>>
    /\ \E done \in Seq(Nat) :
          HalfPopped(h, done, Range(done) \cup {Head(doomed)}, Range(done))
Remembering(h) ==
    /\ doomed # <<>>
    /\ \E done \in Seq(Nat) :
          HalfPopped(h, done, Range(done) \cup {Head(doomed)},
                              Range(done) \cup {Head(doomed)})
DroppingRoot(h) ==
    /\ doomed = <<>>
    /\ \E done \in Seq(Nat) :
          HalfPopped(h, done, Range(done), Range(done) \cup {h})

Midway(t) ==
    /\ pc[t] \in Putting => HalfPut
    /\ pc[t] = "popCheck" => SameAsCommitted
    /\ pc[t] = "worklist" => SameAsCommitted /\ Collecting(arg[t])
    /\ pc[t] = "dropItem" => Dropping(arg[t])
    /\ pc[t] = "unlink" => Unlinking(arg[t])
    /\ pc[t] = "remember" => Remembering(arg[t])
    /\ pc[t] = "dropRoot" => DroppingRoot(arg[t])

\* While nobody holds the lock the table is the committed one; otherwise it is
\* where the holder has got to.
Shared ==
    /\ lock = Nobody => SameAsCommitted
    /\ \A t \in Threads : lock = t => Midway(t)

\* An answer that grants something was right at some point of the read.
Granted ==
    \A t \in Threads : result[t] \in {"live", "owned"} =>
        pc[t] = "answered" /\ result[t] \in seen[t]

LockInv ==
    /\ Scheduled
    /\ Tab!TableInv
    /\ Shared
    /\ Granted

-----------------------------------------------------------------------------
(* What the invariant says of the committed table.                         *)

\* The committed table is typed, its edges form a forest, and its memory holds
\* dead ids only.
LEMMA CommittedFacts ==
    ASSUME Tab!TableInv
    PROVE  /\ committed.nextId \in Nat \ {0}
           /\ Returned = 1 .. (committed.nextId - 1)
           /\ DOMAIN committed.items \subseteq Returned
           /\ DOMAIN committed.owned = DOMAIN committed.items
           /\ \A x \in DOMAIN committed.items : committed.owned[x] \in BOOLEAN
           /\ DOMAIN committed.parent \subseteq DOMAIN committed.items
           /\ DOMAIN committed.children \subseteq DOMAIN committed.items
           /\ \A p \in DOMAIN committed.children : \A x \in committed.children[p] :
                 x \in DOMAIN committed.parent /\ committed.parent[x] = p
           /\ committed.invalidatedOrder \in Seq(Nat)
           /\ Len(committed.invalidatedOrder) <= InvalidatedMemory
           /\ Range(committed.invalidatedOrder) = DOMAIN committed.invalidated
           /\ DOMAIN committed.invalidated \cap DOMAIN committed.items = {}
<1>1. /\ Tab!TypeOK /\ Tab!ForestConsistent
      /\ Tab!StaleNamesKiller /\ Tab!StaleUntilForgotten
    BY DEF Tab!TableInv, Tab!TreeInv
<1>2. /\ committed.nextId \in Nat \ {0}
      /\ Returned = 1 .. (committed.nextId - 1)
      /\ DOMAIN committed.items \subseteq Returned
      /\ DOMAIN committed.owned = DOMAIN committed.items
      /\ \A x \in DOMAIN committed.items : committed.owned[x] \in BOOLEAN
      /\ DOMAIN committed.parent \subseteq DOMAIN committed.items
      /\ DOMAIN committed.children \subseteq DOMAIN committed.items
    BY <1>1 DEF Tab!TypeOK, Tab!Live, Tab!Issued, Returned
<1>3. \A p \in DOMAIN committed.children : \A x \in committed.children[p] :
          x \in DOMAIN committed.parent /\ committed.parent[x] = p
    <2>1. \A p \in DOMAIN committed.children : p # Tab!None
        BY <1>2 DEF Tab!None
    <2> QED
        BY <1>1, <2>1 DEF Tab!ForestConsistent, Tab!ParentOf
<1>4. committed.invalidatedOrder \in Seq(Nat)
    <2>1. committed.invalidatedOrder \in Seq(Tab!Issued) /\ Tab!Issued \subseteq Nat
        BY <1>1 DEF Tab!TypeOK, Tab!Issued
    <2> QED
        BY <2>1, SeqMonotonic
<1>5. /\ Len(committed.invalidatedOrder) <= InvalidatedMemory
      /\ Range(committed.invalidatedOrder) = DOMAIN committed.invalidated
    BY <1>1 DEF Tab!StaleUntilForgotten, Tab!Range, Range
<1>6. DOMAIN committed.invalidated \cap DOMAIN committed.items = {}
    BY <1>1 DEF Tab!StaleNamesKiller, Tab!Live
<1> QED
    BY <1>2, <1>3, <1>4, <1>5, <1>6

\* While anything is under way the committed table stays as it is; when the lock
\* is free it is the table.
LEMMA Observed ==
    ASSUME Observe
    PROVE  /\ lock' # Nobody => committed' = committed
           /\ lock' = Nobody => SameAsCommitted'
BY DEF Observe, Table, SameAsCommitted

\* Only the end of a put and of a pop_cascade change the lineage or what is freed.
LEMMA HistoryCommitted ==
    ASSUME LockInv
    PROVE  lineage = committed.lineage /\ freed = committed.freed
<1>1. CASE lock = Nobody
    BY <1>1 DEF LockInv, Shared, SameAsCommitted
<1>2. CASE lock # Nobody
    <2>1. Midway(lock) /\ lock \in Threads /\ pc[lock] \in Putting \cup Popping
        BY <1>2 DEF LockInv, Shared, Scheduled
    <2>2. CASE pc[lock] \in Putting
        BY <2>1, <2>2 DEF Midway, HalfPut
    <2>3. CASE pc[lock] = "popCheck"
        BY <2>1, <2>3 DEF Midway, SameAsCommitted
    <2>4. CASE pc[lock] = "worklist"
        BY <2>1, <2>4 DEF Midway, SameAsCommitted
    <2>5. CASE pc[lock] = "dropItem"
        BY <2>1, <2>5 DEF Midway, Dropping, HalfPopped
    <2>6. CASE pc[lock] = "unlink"
        BY <2>1, <2>6 DEF Midway, Unlinking, HalfPopped
    <2>7. CASE pc[lock] = "remember"
        BY <2>1, <2>7 DEF Midway, Remembering, HalfPopped
    <2>8. CASE pc[lock] = "dropRoot"
        BY <2>1, <2>8 DEF Midway, DroppingRoot, HalfPopped
    <2> QED
        BY <2>1, <2>2, <2>3, <2>4, <2>5, <2>6, <2>7, <2>8 DEF Popping
<1> QED
    BY <1>1, <1>2

\* An id, once returned, stays one that was returned.
LEMMA ReturnedGrows ==
    ASSUME LockInv, NEW t \in Threads, Call(t) \/ Write(t) \/ Read(t), Observe
    PROVE  Returned \subseteq Returned'
<1>1. lock' # Nobody => Returned' = Returned
    BY Observed DEF Returned
<1>2. lock' = Nobody => Returned' = DOMAIN lineage'
    BY Observed DEF Returned, SameAsCommitted
<1>3. DOMAIN lineage = Returned
    BY HistoryCommitted DEF Returned
<1>4. DOMAIN lineage \subseteq DOMAIN lineage' \/ lock' # Nobody
    <2>1. CASE PutRest(t)
        BY <2>1 DEF PutRest, Adopt, Assign
    <2>2. CASE \E obj \in Objects, own \in BOOLEAN, par \in Returned \cup {None} :
                    PutItem(t, obj, own, par)
        BY <2>2 DEF PutItem, historyVars
    <2> QED
        BY <2>1, <2>2 DEF Call, Write, Read, PopBegin, ReadBegin, PopRaise,
            PopCollect, WorklistStep, WorklistDone, DropItem, Unlink, RememberOne,
            UnlinkRoot, DropRoot, TestItem, GetItem, GetStale, OwnedItem, OwnedFlag,
            ReadEnd, Answer, vars, historyVars
<1> QED
    BY <1>1, <1>2, <1>3, <1>4

\* What a step that commits nothing leaves as it was.
LEMMA NothingCommitted ==
    ASSUME committed' = committed
    PROVE  /\ Returned' = Returned
           /\ Tab!TableInv => Tab!TableInv'
           /\ UNCHANGED Tab!vars
           /\ \A h : /\ Tab!PopVerdict(h)' = Tab!PopVerdict(h)
                     /\ Tab!ChildrenOf(h)' = Tab!ChildrenOf(h)
                     /\ Tab!Doomed(h)' = Tab!Doomed(h)
                     /\ Tab!WorklistOrders(h)' = Tab!WorklistOrders(h)
<1>1. UNCHANGED Tab!vars
    BY DEF Tab!vars, Tab!tableVars, Tab!historyVars
<1>2. Tab!TableInv => Tab!TableInv'
    BY <1>1, Tab!NextKeepsTable, MaxHandlesAssumption, InvalidatedMemoryAssumption
<1>3. Returned' = Returned
    BY DEF Returned
<1>4. ASSUME NEW h
      PROVE  /\ Tab!PopVerdict(h)' = Tab!PopVerdict(h)
             /\ Tab!ChildrenOf(h)' = Tab!ChildrenOf(h)
             /\ Tab!Doomed(h)' = Tab!Doomed(h)
             /\ Tab!WorklistOrders(h)' = Tab!WorklistOrders(h)
    <2>1. Tab!PopVerdict(h)' = Tab!PopVerdict(h)
        BY DEF Tab!PopVerdict, Tab!GetVerdict, Tab!Live
    <2>2. \A x : Tab!ChildrenOf(x)' = Tab!ChildrenOf(x)
        BY DEF Tab!ChildrenOf
    <2>3. \A x : Tab!Doomed(x)' = Tab!Doomed(x)
        BY <2>2 DEF Tab!Doomed, Tab!Live
    <2>4. Tab!WorklistOrders(h)' = Tab!WorklistOrders(h)
        BY <2>2, <2>3 DEF Tab!WorklistOrders
    <2> QED
        BY <2>1, <2>2, <2>3, <2>4
<1> QED
    BY <1>1, <1>2, <1>3, <1>4

\* The lock is held by whoever is inside put or pop_cascade, and by nobody else,
\* whichever step is taken.
LEMMA ScheduleKept ==
    ASSUME LockInv, NEW t \in Threads, Call(t) \/ Write(t) \/ Read(t), Observe
    PROVE  Scheduled'
<1>1. Scheduled /\ Returned \subseteq Returned' /\ Returned \subseteq Nat
    BY ReturnedGrows, CommittedFacts DEF LockInv
<1> USE NobodyAssumption DEF Putting, Popping, Readings, GetSteps, OwnedSteps,
        Results, Goto, None
<1>2. ASSUME NEW from, NEW to \in {"idle"} \cup Putting \cup Popping \cup Readings,
             Goto(t, from, to), arg' = arg, result' \in [Threads -> Results],
             \/ lock' = lock /\ (to \in Putting \cup Popping <=> lock = t)
             \/ lock' = Nobody /\ lock = t /\ to \notin Putting \cup Popping,
             to \in Popping \cup Readings => from \in Popping \cup Readings,
             to \notin Putting
      PROVE  Scheduled'
    <2>1. pc' = [pc EXCEPT ![t] = to] /\ pc[t] = from
        BY <1>2
    <2> QED
        BY <1>1, <1>2, <2>1 DEF Scheduled
<1>3. CASE Read(t)
    BY <1>1, <1>2, <1>3 DEF Read, TestItem, GetItem, GetStale, OwnedItem, OwnedFlag,
        ReadEnd, Answer, Locals, Scheduled
<1>4. CASE PutRest(t) \/ PopRaise(t) \/ DropRoot(t)
    <2>1. /\ \E from \in Putting \cup Popping : Goto(t, from, "idle")
          /\ lock' = Nobody /\ arg' = arg /\ result' = result
        BY <1>4 DEF PutRest, PopRaise, DropRoot, Release, Locals
    <2>2. lock = t
        BY <1>1, <2>1 DEF Scheduled
    <2> QED
        BY <1>1, <1>2, <2>1, <2>2 DEF Scheduled
<1>5. CASE \/ PopCollect(t) \/ WorklistStep(t) \/ WorklistDone(t) \/ DropItem(t)
           \/ Unlink(t) \/ RememberOne(t) \/ UnlinkRoot(t)
    BY <1>1, <1>2, <1>5 DEF PopCollect, WorklistStep, WorklistDone, DropItem, Unlink,
        RememberOne, UnlinkRoot, Locals, Scheduled
<1>6. ASSUME NEW to \in Putting \cup {"popCheck", "get", "isOwned"},
             NEW a \in Returned \cup {None}, Goto(t, "idle", to),
             arg' = [arg EXCEPT ![t] = a], result' = result,
             to \in Putting \cup Popping => Acquire(t),
             to \notin Putting \cup Popping => lock' = lock,
             to \notin Putting => a \in Returned
      PROVE  Scheduled'
    <2>1. pc' = [pc EXCEPT ![t] = to] /\ pc[t] = "idle"
        BY <1>6
    <2>2. /\ lock' \in Threads \cup {Nobody}
          /\ pc' \in [Threads -> {"idle"} \cup Putting \cup Popping \cup Readings]
          /\ arg' \in [Threads -> Nat]
          /\ result' \in [Threads -> Results]
        BY <1>1, <1>6, <2>1 DEF Scheduled, Acquire
    <2>3. \A u \in Threads : pc'[u] \in Putting \cup Popping <=> lock' = u
        BY <1>1, <1>6, <2>1 DEF Scheduled, Acquire
    <2>4. \A u \in Threads \ {t} : pc'[u] = pc[u] /\ arg'[u] = arg[u]
        BY <1>1, <1>6, <2>1 DEF Scheduled
    <2>5. pc'[t] = to /\ arg'[t] = a
        BY <1>1, <1>6, <2>1 DEF Scheduled
    <2>6. /\ \A u \in Threads : pc'[u] \in Popping \cup Readings => arg'[u] \in Returned'
          /\ \A u \in Threads : pc'[u] \in Putting => arg'[u] \in Returned' \cup {None}
        BY <1>1, <1>6, <2>4, <2>5 DEF Scheduled
    <2> QED
        BY <2>2, <2>3, <2>6 DEF Scheduled
<1>7. CASE Call(t)
    BY <1>6, <1>7 DEF Call, PutItem, PopBegin, ReadBegin
<1> QED
    BY <1>3, <1>4, <1>5, <1>7 DEF Write

\* What a reader without the lock can find of an id that was returned: less than
\* the committed table has, but nothing that it has not.
LEMMA ReadsCommitted ==
    ASSUME LockInv, NEW x \in Returned
    PROVE  /\ x \in Live => x \in DOMAIN committed.items
           /\ x \in DOMAIN owned /\ owned[x]
                => x \in DOMAIN committed.items /\ committed.owned[x]
<1>0. /\ DOMAIN committed.owned = DOMAIN committed.items
      /\ x # committed.nextId
    BY CommittedFacts DEF LockInv
<1>1. CASE lock = Nobody
    BY <1>0, <1>1 DEF LockInv, Shared, SameAsCommitted, Live
<1>2. CASE lock # Nobody
    <2>1. Midway(lock) /\ lock \in Threads /\ pc[lock] \in Putting \cup Popping
        BY <1>2 DEF LockInv, Shared, Scheduled
    <2>2. CASE pc[lock] \in Putting
        BY <1>0, <2>1, <2>2 DEF Midway, HalfPut, Assign, Live
    <2>3. CASE pc[lock] = "popCheck" \/ pc[lock] = "worklist"
        BY <1>0, <2>1, <2>3 DEF Midway, SameAsCommitted, Live
    <2>4. ASSUME NEW done, NEW dropped, NEW unlinked,
                 HalfPopped(arg[lock], done, dropped, unlinked)
          PROVE  /\ x \in Live => x \in DOMAIN committed.items
                 /\ x \in DOMAIN owned /\ owned[x]
                      => x \in DOMAIN committed.items /\ committed.owned[x]
        BY <1>0, <2>4 DEF HalfPopped, Unlinks, Without, Live
    <2>5. CASE pc[lock] = "dropItem"
        BY <2>1, <2>4, <2>5 DEF Midway, Dropping
    <2>6. CASE pc[lock] = "unlink"
        BY <2>1, <2>4, <2>6 DEF Midway, Unlinking
    <2>7. CASE pc[lock] = "remember"
        BY <2>1, <2>4, <2>7 DEF Midway, Remembering
    <2>8. CASE pc[lock] = "dropRoot"
        BY <2>1, <2>4, <2>8 DEF Midway, DroppingRoot
    <2> QED
        BY <2>1, <2>2, <2>3, <2>5, <2>6, <2>7, <2>8 DEF Popping
<1> QED
    BY <1>1, <1>2

\* A step that leaves the table and the lock alone commits nothing new.
LEMMA NothingNew ==
    ASSUME LockInv, UNCHANGED <<vars, lock>>, Observe
    PROVE  UNCHANGED Tab!vars
<1>1. CASE lock = Nobody
    BY <1>1, Observed DEF LockInv, Shared, SameAsCommitted, vars, tableVars, historyVars,
        Tab!vars, Tab!tableVars, Tab!historyVars
<1>2. CASE lock # Nobody
    BY <1>2, Observed, NothingCommitted
<1> QED
    BY <1>1, <1>2

\* Whatever a reader is granted was right when it was.
LEMMA GrantsKept ==
    ASSUME LockInv, NEW t \in Threads, Call(t) \/ Write(t) \/ Read(t), Observe
    PROVE  Granted'
<1>1. Scheduled /\ Granted /\ Scheduled'
    BY ScheduleKept DEF LockInv
<1> USE DEF GetSteps, OwnedSteps, Readings, Results
<1>2. \A u \in Threads : Reading(u)' => /\ seen[u] \subseteq seen'[u]
                                        /\ RightAnswers(arg[u])' \subseteq seen'[u]
    BY DEF Observe
<1>3. /\ \A u \in Threads : pc'[u] = "answered" => Reading(u)'
      /\ \A u \in Threads \ {t} : pc'[u] = pc[u] /\ result'[u] = result[u]
    <2>1. \A u \in Threads : pc'[u] = "answered" => Reading(u)'
        BY DEF Reading
    <2>2. \A u \in Threads \ {t} : pc'[u] = pc[u] /\ result'[u] = result[u]
        <3>0. DOMAIN pc = Threads /\ DOMAIN result = Threads
            BY <1>1 DEF Scheduled
        <3>1. CASE Call(t)
            BY <3>0, <3>1 DEF Call, PutItem, PopBegin, ReadBegin, Goto, Locals
        <3>2. CASE Write(t)
            BY <3>0, <3>2 DEF Write, PutRest, PopRaise, PopCollect, WorklistStep, WorklistDone,
                DropItem, Unlink, RememberOne, UnlinkRoot, DropRoot, Goto, Locals
        <3>3. CASE Read(t)
            BY <3>0, <3>3 DEF Read, TestItem, GetItem, GetStale, OwnedItem, OwnedFlag,
                ReadEnd, Answer, Goto, Locals
        <3> QED
            BY <3>1, <3>2, <3>3
    <2> QED
        BY <2>1, <2>2
<1>4. ASSUME NEW value \in Results, NEW from \in Readings \ {"answered"},
             Answer(t, from, value),
             value \in {"live", "owned"} => value \in RightAnswers(arg[t])'
      PROVE  result'[t] \in {"live", "owned"} =>
                pc'[t] = "answered" /\ result'[t] \in seen'[t]
    BY <1>1, <1>2, <1>3, <1>4 DEF Answer, Goto, Scheduled
<1>5. ASSUME NEW from \in {"getItem", "ownedFlag"}, NEW value, Answer(t, from, value)
      PROVE  /\ arg'[t] = arg[t] /\ arg[t] \in Returned
             /\ committed'.items = committed.items /\ committed'.owned = committed.owned
    BY <1>1, <1>5, NothingNew DEF Scheduled, Answer, Goto, Tab!vars, Tab!tableVars
<1>6. ASSUME GetItem(t)
      PROVE  result'[t] \in {"live", "owned"} =>
                pc'[t] = "answered" /\ result'[t] \in seen'[t]
    <2>1. PICK value \in Results : value = IF arg[t] \in Live THEN "live" ELSE "unknown"
        OBVIOUS
    <2>2. Answer(t, "getItem", value)
        BY <1>6, <2>1 DEF GetItem
    <2>3. value \in {"live", "owned"} => arg'[t] \in DOMAIN committed'.items
        BY <1>5, <2>1, <2>2, ReadsCommitted
    <2>4. value \in {"live", "owned"} => value \in RightAnswers(arg[t])'
        BY <2>1, <2>3 DEF RightAnswers
    <2> QED
        BY <1>4, <2>2, <2>4
<1>7. ASSUME OwnedFlag(t)
      PROVE  result'[t] \in {"live", "owned"} =>
                pc'[t] = "answered" /\ result'[t] \in seen'[t]
    <2>1. PICK value \in Results :
                value = IF arg[t] \in DOMAIN owned /\ owned[arg[t]] THEN "owned"
                                                                    ELSE "borrowed"
        OBVIOUS
    <2>2. Answer(t, "ownedFlag", value)
        BY <1>7, <2>1 DEF OwnedFlag
    <2>3. value \in {"live", "owned"} =>
            value = "owned" /\ arg'[t] \in DOMAIN committed'.items /\ committed'.owned[arg'[t]]
        BY <1>5, <2>1, <2>2, ReadsCommitted
    <2>4. value \in {"live", "owned"} => value \in RightAnswers(arg[t])'
        BY <2>3 DEF RightAnswers
    <2> QED
        BY <1>4, <2>2, <2>4
<1>8. ASSUME NEW from \in Readings \ {"answered"}, NEW value \in {"stale", "unknown"},
             Answer(t, from, value)
      PROVE  result'[t] \in {"live", "owned"} =>
                pc'[t] = "answered" /\ result'[t] \in seen'[t]
    BY <1>4, <1>8
<1>9. ASSUME GetStale(t) \/ OwnedItem(t), ~ (result' = result /\ pc[t] # "answered")
      PROVE  result'[t] \in {"live", "owned"} =>
                pc'[t] = "answered" /\ result'[t] \in seen'[t]
    <2>1. CASE GetStale(t)
        <3>1. Answer(t, "getStale", "stale") \/ Answer(t, "getStale", "unknown")
            BY <2>1 DEF GetStale
        <3> QED
            BY <1>8, <3>1
    <2>2. CASE OwnedItem(t)
        <3>1. Answer(t, "ownedItem", "unknown")
            BY <1>9, <2>2 DEF OwnedItem, Locals
        <3> QED
            BY <1>8, <3>1
    <2> QED
        BY <1>9, <2>1, <2>2
<1>10. ASSUME ReadEnd(t)
       PROVE  result'[t] = "none"
    BY <1>1, <1>10 DEF ReadEnd, Scheduled
<1>11. Call(t) => result' = result /\ pc[t] # "answered"
    BY DEF Call, PutItem, PopBegin, ReadBegin, Goto
<1>12. Write(t) => result' = result /\ pc[t] # "answered"
    <2>1. PutRest(t) \/ PopRaise(t) \/ DropRoot(t) => result' = result /\ pc[t] # "answered"
        BY DEF PutRest, PopRaise, DropRoot, Goto, Locals
    <2>2. PopCollect(t) \/ WorklistStep(t) \/ WorklistDone(t)
            => result' = result /\ pc[t] # "answered"
        BY DEF PopCollect, WorklistStep, WorklistDone, Goto, Locals
    <2>3. DropItem(t) \/ Unlink(t) \/ RememberOne(t) \/ UnlinkRoot(t)
            => result' = result /\ pc[t] # "answered"
        BY DEF DropItem, Unlink, RememberOne, UnlinkRoot, Goto, Locals
    <2> QED
        BY <2>1, <2>2, <2>3 DEF Write
<1>13. TestItem(t, "get", "getItem") \/ TestItem(t, "isOwned", "ownedItem")
            => result' = result /\ pc[t] # "answered"
    BY DEF TestItem, Goto, Locals
<1>14. result' = result /\ pc[t] # "answered" => result'[t] \notin {"live", "owned"}
    BY <1>1 DEF Granted
<1>15. result'[t] \in {"live", "owned"} => pc'[t] = "answered" /\ result'[t] \in seen'[t]
    BY <1>6, <1>7, <1>9, <1>10, <1>11, <1>12, <1>13, <1>14 DEF Read
<1> QED
    BY <1>1, <1>2, <1>3, <1>15 DEF Granted

-----------------------------------------------------------------------------
(* Each statement takes the table from one stage to the next.              *)

\* The memory is what it was after the same part of the worklist.
LEMMA RememberedStays ==
    ASSUME committed' = committed, UNCHANGED <<invalidated, invalidatedOrder>>,
           NEW done, NEW h, Remembered(done, h)
    PROVE  Remembered(done, h)'
<1>2. /\ invalidated' = invalidated /\ invalidatedOrder' = invalidatedOrder
      /\ committed'.invalidatedOrder = committed.invalidatedOrder
      /\ committed'.invalidated = committed.invalidated
    OBVIOUS
<1>3. PICK all : all = committed.invalidatedOrder \o done
    OBVIOUS
<1>4. /\ invalidatedOrder = SubSeq(all, Excess(Len(all)) + 1, Len(all))
      /\ DOMAIN invalidated = (DOMAIN committed.invalidated \cup Range(done))
                                 \ {all[i] : i \in 1 .. Excess(Len(all))}
    BY <1>3 DEF Remembered
<1>5. invalidated = [x \in DOMAIN invalidated |->
            IF x \in Range(done) THEN h ELSE committed.invalidated[x]]
    BY Zenon DEF Remembered
<1>6. invalidated' = [x \in DOMAIN invalidated' |->
            IF x \in Range(done) THEN h ELSE committed'.invalidated[x]]
    BY <1>2, <1>5
<1>7. all = committed'.invalidatedOrder \o done
    BY <1>2, <1>3
<1>8. invalidatedOrder' = SubSeq(committed'.invalidatedOrder \o done,
            Excess(Len(committed'.invalidatedOrder \o done)) + 1,
            Len(committed'.invalidatedOrder \o done))
    BY <1>2, <1>4, <1>7
<1>9. DOMAIN invalidated' = (DOMAIN committed'.invalidated \cup Range(done))
            \ {(committed'.invalidatedOrder \o done)[i] :
                i \in 1 .. Excess(Len(committed'.invalidatedOrder \o done))}
    BY <1>2, <1>4, <1>7
<1> QED
    BY <1>6, <1>8, <1>9, Zenon DEF Remembered, Excess

\* A pop that is half way stays so while the table and the list stay as they are.
LEMMA HalfPoppedStays ==
    ASSUME committed' = committed, UNCHANGED <<vars, doomed>>,
           NEW h, NEW done, NEW dropped, NEW unlinked,
           HalfPopped(h, done, dropped, unlinked)
    PROVE  HalfPopped(h, done, dropped, unlinked)'
<1>1. UNCHANGED <<items, owned, parent, children, invalidated, invalidatedOrder,
                  nextId, lineage, freed, doomed>>
    BY DEF vars, tableVars, historyVars
<1>2. Unlinks(unlinked)'
    BY <1>1 DEF HalfPopped, Unlinks
<1>3. Remembered(done, h)'
    BY <1>1, RememberedStays DEF HalfPopped
<1> QED
    BY <1>1, <1>2, <1>3, NothingCommitted DEF HalfPopped

\* The holder of the lock is where it was if a step touches nothing of what it does.
LEMMA MidwayStays ==
    ASSUME NEW t, Midway(t), committed' = committed, UNCHANGED <<vars, pending, doomed>>,
           pc'[t] = pc[t], arg'[t] = arg[t]
    PROVE  Midway(t)'
<1>1. UNCHANGED <<items, owned, parent, children, invalidated, invalidatedOrder,
                  nextId, lineage, freed>>
    BY DEF vars, tableVars, historyVars
<1>2. HalfPut => HalfPut'
    BY <1>1 DEF HalfPut, Assign
<1>3. SameAsCommitted => SameAsCommitted'
    BY <1>1 DEF SameAsCommitted
<1>4. Collecting(arg[t]) => Collecting(arg[t])'
    BY NothingCommitted DEF Collecting
<1>5. /\ Dropping(arg[t]) => Dropping(arg[t])'
      /\ Unlinking(arg[t]) => Unlinking(arg[t])'
      /\ Remembering(arg[t]) => Remembering(arg[t])'
      /\ DroppingRoot(arg[t]) => DroppingRoot(arg[t])'
    BY HalfPoppedStays DEF Dropping, Unlinking, Remembering, DroppingRoot
<1> QED
    BY <1>2, <1>3, <1>4, <1>5 DEF Midway

\* A reader changes nothing of what a put or a pop under way is doing.
LEMMA ReadersDoNothing ==
    ASSUME LockInv, NEW t \in Threads, Observe,
           \/ Read(t)
           \/ \E h \in Returned, read \in {"get", "isOwned"} : ReadBegin(t, read, h)
    PROVE  UNCHANGED Tab!vars /\ Shared'
<1>1. /\ UNCHANGED <<vars, lock, pending, doomed>>
      /\ \A u \in Threads \ {t} : pc'[u] = pc[u] /\ arg'[u] = arg[u]
      /\ pc[t] \in {"idle"} \cup Readings
    BY DEF LockInv, Scheduled, Read, TestItem, GetItem, GetStale, OwnedItem,
        OwnedFlag, ReadEnd, Answer, ReadBegin, Goto, Locals, Readings, GetSteps, OwnedSteps
<1>2. UNCHANGED Tab!vars
    BY <1>1, NothingNew
<1>3. CASE lock = Nobody
    BY <1>1, <1>2, <1>3, Observed, NobodyAssumption DEF Shared
<1>4. CASE lock # Nobody
    <2>1. lock \in Threads /\ lock # t
        BY <1>1, <1>4 DEF LockInv, Scheduled, Putting, Popping, Readings, GetSteps, OwnedSteps
    <2>2. PICK u \in Threads : u = lock
        BY <2>1
    <2>3. committed' = committed
        BY <1>1, <1>4, Observed
    <2>4. Midway(u)
        BY <2>2 DEF LockInv, Shared
    <2>5. Midway(u)'
        BY <1>1, <2>1, <2>2, <2>3, <2>4, MidwayStays
    <2>6. lock' = u /\ lock' # Nobody
        BY <1>1, <1>4, <2>2
    <2> QED
        BY <1>2, <2>5, <2>6 DEF Shared
<1> QED
    BY <1>2, <1>3, <1>4

\* A thread inside put or pop_cascade holds the lock, and is where it should be.
LEMMA Holder ==
    ASSUME LockInv, NEW t \in Threads, pc[t] \in Putting \cup Popping
    PROVE  lock = t /\ Midway(t) /\ pc \in [Threads -> {"idle"} \cup Putting \cup Popping \cup Readings]
BY DEF LockInv, Scheduled, Shared

\* A step of the holder that keeps the lock commits nothing.
LEMMA HolderGoesOn ==
    ASSUME NEW t \in Threads, Observe, lock' = t, Midway(t)'
    PROVE  UNCHANGED Tab!vars /\ Shared'
<1>1. lock' # Nobody
    BY NobodyAssumption
<1> QED
    BY <1>1, Observed, NothingCommitted DEF Shared

\* Giving the lock back commits the table.
LEMMA LockGivenBack ==
    ASSUME Observe, lock' = Nobody
    PROVE  SameAsCommitted' /\ Shared'
BY Observed, NobodyAssumption DEF Shared

\* put stores the object under a new id.
LEMMA PutItemStep ==
    ASSUME LockInv, NEW t \in Threads, NEW obj \in Objects, NEW own \in BOOLEAN,
           NEW par, PutItem(t, obj, own, par), Observe
    PROVE  UNCHANGED Tab!vars /\ Shared'
<1>1. lock = Nobody /\ lock' = t
    BY DEF PutItem, Acquire
<1>2. SameAsCommitted
    BY <1>1 DEF LockInv, Shared
<1>3. committed' = committed
    BY <1>1, Observed, NobodyAssumption
<1>4. HalfPut'
    <2>1. items' = Assign(committed'.items, committed'.nextId, obj)
        BY <1>2, <1>3 DEF SameAsCommitted, PutItem
    <2>2. \E o \in Objects : items' = Assign(committed'.items, committed'.nextId, o)
        BY <2>1
    <2> QED
        BY <1>2, <1>3, <2>2 DEF SameAsCommitted, HalfPut, PutItem, historyVars, Assign
<1>5. pc'[t] \in Putting
    BY DEF LockInv, Scheduled, PutItem, Goto, Putting
<1>6. Midway(t)'
    BY <1>4, <1>5 DEF Midway, Putting
<1> QED
    BY <1>1, <1>6, HolderGoesOn

\* The rest of put completes it: the committed table has put the object.
LEMMA PutRestStep ==
    ASSUME LockInv, NEW t \in Threads, PutRest(t), Observe
    PROVE  Tab!Next /\ Shared'
<1>0. lock' = Nobody /\ pc[t] \in Putting
    BY DEF PutRest, Release, Goto, Putting
<1>1. Midway(t) /\ HalfPut
    BY <1>0, Holder DEF Midway
<1>2. SameAsCommitted' /\ Shared'
    BY <1>0, LockGivenBack
<1>3. PICK obj \in Objects : items = Assign(committed.items, committed.nextId, obj)
    BY <1>1 DEF HalfPut
<1>4. PICK own \in BOOLEAN : owned' = Assign(owned, nextId - 1, own)
    BY DEF PutRest
<1>5. /\ committed.nextId \in Nat \ {0} /\ nextId - 1 = committed.nextId
      /\ arg[t] \in Tab!Issued \cup {Tab!None}
      /\ committed.nextId \notin DOMAIN committed.items
      /\ arg[t] # committed.nextId
    <2>1. /\ committed.nextId \in Nat \ {0}
          /\ Returned = 1 .. (committed.nextId - 1)
          /\ DOMAIN committed.items \subseteq Returned
          /\ arg[t] \in Returned \cup {None}
        BY <1>0, CommittedFacts DEF LockInv, Scheduled
    <2> QED
        BY <1>1, <2>1 DEF HalfPut, Tab!Issued, Tab!None, None
<1>6. Tab!Adopt(committed.nextId, arg[t])
    <2>1. arg[t] \in Live <=> arg[t] \in Tab!Live
        BY <1>3, <1>5 DEF Live, Tab!Live, Assign
    <2>2. ChildrenOf(arg[t]) = Tab!ChildrenOf(arg[t])
        BY <1>1 DEF HalfPut, ChildrenOf, Tab!ChildrenOf
    <2>3. Adopt(committed.nextId, arg[t])
        BY <1>5 DEF PutRest
    <2> QED
        BY <1>1, <1>2, <2>1, <2>2, <2>3
           DEF Adopt, Tab!Adopt, HalfPut, SameAsCommitted, Assign, Tab!Assign
<1>7. Tab!Put(obj, own, arg[t])
    <2>1. /\ committed.nextId <= MaxHandles
          /\ committed'.nextId = committed.nextId + 1
        BY <1>1, <1>2 DEF HalfPut, SameAsCommitted, PutRest
    <2>2. committed'.items = Tab!Assign(committed.items, committed.nextId, obj)
        BY <1>2, <1>3 DEF SameAsCommitted, PutRest, Assign, Tab!Assign
    <2>3. committed'.owned = Tab!Assign(committed.owned, committed.nextId, own)
        BY <1>1, <1>2, <1>4, <1>5 DEF SameAsCommitted, HalfPut, Assign, Tab!Assign
    <2>4. /\ committed'.invalidated = committed.invalidated
          /\ committed'.invalidatedOrder = committed.invalidatedOrder
          /\ committed'.freed = committed.freed
        BY <1>1, <1>2 DEF SameAsCommitted, HalfPut, PutRest
    <2> QED
        BY <1>6, <2>1, <2>2, <2>3, <2>4 DEF Tab!Put
<1> QED
    BY <1>2, <1>5, <1>7 DEF Tab!Next

\* pop_cascade has the lock and has looked at nothing yet.
LEMMA PopBeginStep ==
    ASSUME LockInv, NEW t \in Threads, NEW h, PopBegin(t, h), Observe
    PROVE  UNCHANGED Tab!vars /\ Shared'
<1>1. lock = Nobody /\ lock' = t
    BY DEF PopBegin, Acquire
<1>2. SameAsCommitted
    BY <1>1 DEF LockInv, Shared
<1>3. committed' = committed
    BY <1>1, Observed, NobodyAssumption
<1>4. SameAsCommitted'
    BY <1>2, <1>3 DEF SameAsCommitted, PopBegin, vars, tableVars, historyVars
<1>5. pc'[t] = "popCheck"
    BY DEF LockInv, Scheduled, PopBegin, Goto
<1>6. Midway(t)'
    BY <1>4, <1>5 DEF Midway, Putting
<1> QED
    BY <1>1, <1>6, HolderGoesOn

\* A refused pop leaves the table as it was.
LEMMA PopRaiseStep ==
    ASSUME LockInv, NEW t \in Threads, PopRaise(t), Observe
    PROVE  UNCHANGED Tab!vars /\ Shared'
<1>1. lock' = Nobody /\ pc[t] = "popCheck" /\ UNCHANGED vars
    BY DEF PopRaise, Release, Goto
<1>2. SameAsCommitted
    BY <1>1, Holder DEF Midway, Popping
<1>3. SameAsCommitted' /\ Shared'
    BY <1>1, LockGivenBack
<1> QED
    BY <1>1, <1>2, <1>3 DEF SameAsCommitted, vars, tableVars, historyVars,
        Tab!vars, Tab!tableVars, Tab!historyVars

\* The doomed are live handles issued after the one destroyed, and with a handle
\* its children are doomed; nothing else is.
LEMMA DoomedFacts ==
    ASSUME Tab!TableInv, NEW h \in DOMAIN committed.items
    PROVE  /\ Tab!Doomed(h) \subseteq DOMAIN committed.items
           /\ Tab!Doomed(h) \subseteq Nat
           /\ h \notin Tab!Doomed(h)
           /\ Tab!ChildrenOf(h) \subseteq Tab!Doomed(h)
           /\ \A x \in Tab!Doomed(h) : Tab!ChildrenOf(x) \subseteq Tab!Doomed(h)
           /\ \A S \in SUBSET DOMAIN committed.items :
                (Tab!ChildrenOf(h) \subseteq S /\ \A x \in S : Tab!ChildrenOf(x) \subseteq S)
                    => Tab!Doomed(h) \subseteq S
<1>1. /\ DOMAIN committed.items \subseteq Nat
      /\ \A p : Tab!ChildrenOf(p) \subseteq DOMAIN committed.items
      /\ \A p \in DOMAIN committed.items : \A x \in Tab!ChildrenOf(p) : p < x
    <2>1. Tab!TypeOK /\ Tab!ForestConsistent
        BY DEF Tab!TableInv, Tab!TreeInv
    <2>2. DOMAIN committed.items \subseteq Nat
        BY <2>1 DEF Tab!TypeOK, Tab!Live, Tab!Issued
    <2>3. \A p : Tab!ChildrenOf(p) \subseteq DOMAIN committed.items
        BY <2>1 DEF Tab!TypeOK, Tab!Live, Tab!ChildrenOf
    <2>4. \A p \in DOMAIN committed.children : \A x \in committed.children[p] :
             x \in DOMAIN committed.parent /\ committed.parent[x] = p
        BY CommittedFacts
    <2>5. \A x \in DOMAIN committed.parent : committed.parent[x] < x
        BY <2>1 DEF Tab!ForestConsistent
    <2> QED
        BY <2>2, <2>3, <2>4, <2>5 DEF Tab!ChildrenOf
<1>2. Tab!Doomed(h) \subseteq DOMAIN committed.items
    BY DEF Tab!Doomed, Tab!Live
<1>3. h \notin Tab!Doomed(h)
    <2> DEFINE S == {y \in DOMAIN committed.items : h < y}
    <2>1. Tab!ChildrenOf(h) \subseteq S
        BY <1>1
    <2>2. \A x \in S : Tab!ChildrenOf(x) \subseteq S
        BY <1>1
    <2>3. S \in SUBSET Tab!Live /\ h \notin S
        BY <1>1 DEF Tab!Live
    <2> HIDE DEF S
    <2> QED
        BY <2>1, <2>2, <2>3 DEF Tab!Doomed
<1>4. Tab!ChildrenOf(h) \subseteq Tab!Doomed(h)
    BY <1>1 DEF Tab!Doomed, Tab!Live
<1>5. \A x \in Tab!Doomed(h) : Tab!ChildrenOf(x) \subseteq Tab!Doomed(h)
    BY <1>1 DEF Tab!Doomed, Tab!Live
<1>6. \A S \in SUBSET DOMAIN committed.items :
        (Tab!ChildrenOf(h) \subseteq S /\ \A x \in S : Tab!ChildrenOf(x) \subseteq S)
            => Tab!Doomed(h) \subseteq S
    BY DEF Tab!Doomed, Tab!Live
<1> QED
    BY <1>1, <1>2, <1>3, <1>4, <1>5, <1>6

\* pop_cascade collects the children first.
LEMMA PopCollectStep ==
    ASSUME LockInv, NEW t \in Threads, PopCollect(t), Observe
    PROVE  UNCHANGED Tab!vars /\ Shared'
<1>1. /\ pc[t] = "popCheck" /\ pc[t] \in Popping /\ UNCHANGED vars
      /\ UNCHANGED <<arg, lock>>
    BY DEF PopCollect, Goto, Popping
<1>2. lock = t /\ SameAsCommitted /\ pc'[t] = "worklist"
    BY <1>1, Holder DEF Midway, PopCollect, Goto
<1>3. committed' = committed
    BY <1>1, <1>2, Observed, NobodyAssumption
<1>4. SameAsCommitted'
    BY <1>1, <1>2, <1>3 DEF SameAsCommitted, vars, tableVars, historyVars
<1>5. PICK h : h = arg[t]
    OBVIOUS
<1>6. /\ Tab!PopVerdict(h) = "freed"
      /\ pending' = Tab!ChildrenOf(h) /\ doomed' = <<>>
    BY <1>2, <1>5 DEF SameAsCommitted, PopCollect, ChildrenOf, Tab!ChildrenOf, PopVerdict,
        Tab!PopVerdict, GetVerdict, Tab!GetVerdict, Live, Tab!Live
<1>7. h \in DOMAIN committed.items
    BY <1>6 DEF Tab!PopVerdict, Tab!GetVerdict, Tab!Live
<1>8. Collecting(h)'
    <2>1. Range(doomed') = {} /\ Len(doomed') = 0 /\ doomed' \in Seq(Tab!Doomed(h))
        BY <1>6 DEF Range
    <2>2. pending' \subseteq Tab!Doomed(h)
        BY <1>6, <1>7, DoomedFacts DEF LockInv
    <2> QED
        BY <1>3, <1>6, <2>1, <2>2, NothingCommitted DEF Collecting
<1>9. Midway(t)'
    BY <1>1, <1>2, <1>4, <1>5, <1>8 DEF Midway, Putting
<1> QED
    BY <1>1, <1>2, <1>9, HolderGoesOn

\* The list holds no handle twice, and what is on it or to be visited is a child
\* of h or of a handle on the list, an earlier one for those on the list.
Reached(h, kids, list, todo) ==
    /\ \A i, j \in 1 .. Len(list) : list[i] = list[j] => i = j
    /\ \A i \in 1 .. Len(list) :
          \/ list[i] \in kids[h]
          \/ \E j \in 1 .. Len(list) : j < i /\ list[i] \in kids[list[j]]
    /\ \A y \in todo :
          y \in kids[h] \/ \E j \in 1 .. Len(list) : y \in kids[list[j]]

\* The next to be visited goes on the list.
Visits(h, D, kids, seq, x, todo, new) ==
    /\ D \subseteq Nat /\ seq \in Seq(D) /\ x \in D /\ x \notin Range(seq)
    /\ x \in todo /\ new = Append(seq, x)
    /\ Reached(h, kids, seq, todo)

\* The list with one more child on it.
LEMMA CollectOne ==
    ASSUME NEW h, NEW D, NEW kids, NEW seq, NEW x, NEW todo, NEW new,
           Visits(h, D, kids, seq, x, todo, new)
    PROVE  Reached(h, kids, new, (todo \ {x}) \cup kids[x])
<1>0. /\ D \subseteq Nat /\ seq \in Seq(D) /\ x \in D /\ x \notin Range(seq)
      /\ x \in todo /\ new = Append(seq, x)
      /\ \A i, j \in 1 .. Len(seq) : seq[i] = seq[j] => i = j
      /\ \A i \in 1 .. Len(seq) :
            seq[i] \in kids[h] \/ \E j \in 1 .. Len(seq) : j < i /\ seq[i] \in kids[seq[j]]
      /\ \A y \in todo :
            y \in kids[h] \/ \E j \in 1 .. Len(seq) : y \in kids[seq[j]]
    BY DEF Visits, Reached
<1>1. PICK n \in Nat : n = Len(seq)
    BY <1>0, LenProperties
<1>2. /\ Len(new) = n + 1
      /\ \A i \in 1 .. n : new[i] = seq[i]
      /\ new[n + 1] = x
    BY <1>0, <1>1, AppendProperties
<1>3. \A i \in 1 .. (n + 1) : i \in 1 .. n \/ i = n + 1
    OBVIOUS
<1>4. \A i \in 1 .. n : i \in 1 .. (n + 1) /\ i < n + 1
    OBVIOUS
<1>5. \A i \in 1 .. n : seq[i] # x
    BY <1>0, <1>1, LenProperties DEF Range
<1>6. \A i, j \in 1 .. (n + 1) : new[i] = new[j] => i = j
    BY <1>0, <1>1, <1>2, <1>3, <1>5
<1>7. \A y \in todo :
              y \in kids[h] \/ \E j \in 1 .. n : j < n + 1 /\ y \in kids[new[j]]
    BY <1>0, <1>1, <1>2, <1>4
<1>8. ASSUME NEW i \in 1 .. (n + 1)
      PROVE  new[i] \in kids[h] \/ \E j \in 1 .. (n + 1) : j < i /\ new[i] \in kids[new[j]]
    BY <1>0, <1>1, <1>2, <1>3, <1>4, <1>7
<1>9. \A y \in (todo \ {x}) \cup kids[x] :
              y \in kids[h] \/ \E j \in 1 .. (n + 1) : y \in kids[new[j]]
    <2>1. n + 1 \in 1 .. (n + 1)
        OBVIOUS
    <2> QED
        BY <1>2, <1>4, <1>7, <2>1
<1> QED
    BY <1>2, <1>6, <1>8, <1>9 DEF Reached

\* One turn of the worklist loop.
LEMMA WorklistTurn ==
    ASSUME LockInv, NEW t \in Threads, WorklistStep(t), Observe
    PROVE  UNCHANGED Tab!vars /\ Shared'
<1>1. /\ pc[t] = "worklist" /\ pc[t] \in Popping /\ UNCHANGED vars
      /\ UNCHANGED <<arg, lock>>
    BY DEF WorklistStep, Goto, Popping
<1>2. lock = t /\ SameAsCommitted /\ Collecting(arg[t]) /\ pc'[t] = "worklist"
    BY <1>1, Holder DEF Midway, WorklistStep, Goto
<1>3. committed' = committed
    BY <1>1, <1>2, Observed, NobodyAssumption
<1>4. SameAsCommitted'
    BY <1>1, <1>2, <1>3 DEF SameAsCommitted, vars, tableVars, historyVars
<1>5. PICK h : h = arg[t]
    OBVIOUS
<1>6. Collecting(h)
    BY <1>2, <1>5
<1>7. PICK child \in pending :
        IF child \in Range(doomed)
        THEN pending' = pending \ {child} /\ doomed' = doomed
        ELSE /\ doomed' = Append(doomed, child)
             /\ pending' = (pending \ {child}) \cup Tab!ChildrenOf(child)
    BY <1>2 DEF WorklistStep, SameAsCommitted, ChildrenOf, Tab!ChildrenOf
<1>8. h \in DOMAIN committed.items /\ h \in Nat
    <2>1. h \in DOMAIN committed.items
        BY <1>6 DEF Collecting, Tab!PopVerdict, Tab!GetVerdict, Tab!Live
    <2> QED
        BY <2>1, CommittedFacts DEF LockInv
<1>9. PICK D \in SUBSET Nat : D = Tab!Doomed(h)
    BY <1>8, DoomedFacts DEF LockInv
<1>10. \A x \in D : Tab!ChildrenOf(x) \subseteq D
    BY <1>8, <1>9, DoomedFacts DEF LockInv
<1>11. CASE child \in Range(doomed)
    <2>1. doomed' = doomed /\ pending' = pending \ {child}
        BY <1>7, <1>11
    <2>2. Collecting(h)'
        <3>1. /\ pending' \subseteq Tab!Doomed(h)
              /\ Tab!ChildrenOf(h) \subseteq Range(doomed) \cup pending'
              /\ \A x \in Range(doomed) :
                    Tab!ChildrenOf(x) \subseteq Range(doomed) \cup pending'
              /\ \A x \in pending' :
                    \/ x \in Tab!ChildrenOf(h)
                    \/ \E j \in 1 .. Len(doomed) : x \in Tab!ChildrenOf(doomed[j])
            BY <1>6, <1>11, <2>1 DEF Collecting
        <3> QED
            BY <1>3, <1>6, <2>1, <3>1, NothingCommitted DEF Collecting
    <2>3. Midway(t)'
        BY <1>1, <1>2, <1>4, <1>5, <2>2 DEF Midway, Putting
    <2> QED
        BY <1>1, <1>2, <2>3, HolderGoesOn
<1>12. CASE child \notin Range(doomed)
    <2>1. /\ doomed' = Append(doomed, child)
          /\ pending' = (pending \ {child}) \cup Tab!ChildrenOf(child)
        BY <1>7, <1>12
    <2>2. doomed \in Seq(D) /\ pending \subseteq D /\ child \in D
        BY <1>6, <1>9 DEF Collecting
    <2>3. doomed' \in Seq(D) /\ pending' \subseteq D
        BY <1>10, <2>1, <2>2, AppendProperties
    <2>4. Range(doomed') = Range(doomed) \cup {child}
        <3>1. doomed \in Seq(Nat) /\ child \in Nat
            BY <2>2, SeqMonotonic
        <3> QED
            BY <2>1, <3>1, RangeAppend
    <2>5. PICK kids : kids = [y \in Nat |-> Tab!ChildrenOf(y)]
        OBVIOUS
    <2>6. \A y \in D \cup {h} : kids[y] = Tab!ChildrenOf(y)
        BY <1>8, <2>5
    <2>7. \A i \in 1 .. Len(doomed) : doomed[i] \in D
        BY <2>2
    <2>8. \A i \in 1 .. Len(doomed') : doomed'[i] \in D
        BY <2>3, ElementOfSeq
    <2>9. Reached(h, kids, doomed, pending)
        <3>1. /\ kids[h] = Tab!ChildrenOf(h)
              /\ \A j \in 1 .. Len(doomed) : kids[doomed[j]] = Tab!ChildrenOf(doomed[j])
            BY <2>6, <2>7
        <3>2. /\ \A i, j \in 1 .. Len(doomed) : doomed[i] = doomed[j] => i = j
              /\ \A i \in 1 .. Len(doomed) :
                  \/ doomed[i] \in Tab!ChildrenOf(h)
                  \/ \E j \in 1 .. Len(doomed) :
                        j < i /\ doomed[i] \in Tab!ChildrenOf(doomed[j])
              /\ \A x \in pending :
                  \/ x \in Tab!ChildrenOf(h)
                  \/ \E j \in 1 .. Len(doomed) : x \in Tab!ChildrenOf(doomed[j])
            BY <1>6 DEF Collecting
        <3> QED
            BY <3>1, <3>2 DEF Reached
    <2>10. Reached(h, kids, doomed', pending')
        <3>1. Visits(h, D, kids, doomed, child, pending, doomed')
            BY <1>12, <2>1, <2>2, <2>9 DEF Visits
        <3>2. Reached(h, kids, doomed', (pending \ {child}) \cup kids[child])
            BY <3>1, CollectOne
        <3> QED
            BY <2>1, <2>2, <2>6, <3>2
    <2>11. /\ Tab!ChildrenOf(h) \subseteq Range(doomed') \cup pending'
           /\ \A x \in Range(doomed') : Tab!ChildrenOf(x) \subseteq Range(doomed') \cup pending'
        BY <1>6, <2>1, <2>4 DEF Collecting
    <2>12. /\ \A i \in 1 .. Len(doomed') :
              \/ doomed'[i] \in Tab!ChildrenOf(h)
              \/ \E j \in 1 .. Len(doomed') : j < i /\ doomed'[i] \in Tab!ChildrenOf(doomed'[j])
           /\ \A x \in pending' :
              \/ x \in Tab!ChildrenOf(h)
              \/ \E j \in 1 .. Len(doomed') : x \in Tab!ChildrenOf(doomed'[j])
           /\ \A i, j \in 1 .. Len(doomed') : doomed'[i] = doomed'[j] => i = j
        <3>1. /\ kids[h] = Tab!ChildrenOf(h)
              /\ \A j \in 1 .. Len(doomed') : kids[doomed'[j]] = Tab!ChildrenOf(doomed'[j])
            BY <2>6, <2>8
        <3> QED
            BY <2>10, <3>1 DEF Reached
    <2>13. Tab!PopVerdict(h)
              = "freed"
        BY <1>6 DEF Collecting
    <2>14. Collecting(h)'
        BY <1>3, <1>9, <2>3, <2>11, <2>12, <2>13, NothingCommitted DEF Collecting
    <2>15. Midway(t)'
        BY <1>1, <1>2, <1>4, <1>5, <2>14 DEF Midway, Putting
    <2> QED
        BY <1>1, <1>2, <2>15, HolderGoesOn
<1> QED
    BY <1>11, <1>12

\* When nothing is left to visit the list is a worklist of the atomic pop_cascade:
\* every doomed handle is on it, once, and after its parent.
LEMMA WorklistFinished ==
    ASSUME Tab!TableInv, NEW h, Collecting(h), pending = {}
    PROVE  doomed \in Tab!WorklistOrders(h) /\ doomed \in Seq(Nat)
<1>1. h \in DOMAIN committed.items
    BY DEF Collecting, Tab!PopVerdict, Tab!GetVerdict, Tab!Live
<1>2. PICK D : D = Tab!Doomed(h)
    OBVIOUS
<1>3. /\ D \subseteq DOMAIN committed.items /\ D \subseteq Nat /\ h \notin D
    BY <1>1, <1>2, DoomedFacts
<1>4. /\ doomed \in Seq(D)
      /\ \A i, j \in 1 .. Len(doomed) : doomed[i] = doomed[j] => i = j
    BY <1>2 DEF Collecting
<1>5. PICK n \in Nat : n = Len(doomed)
    BY <1>4, LenProperties
<1>6. doomed \in [1 .. n -> D] /\ Range(doomed) \subseteq D
    BY <1>4, <1>5, LenProperties DEF Range
<1>7. D \subseteq Range(doomed)
    <2>1. Range(doomed) \in SUBSET DOMAIN committed.items
        BY <1>3, <1>6
    <2>2. /\ Tab!ChildrenOf(h) \subseteq Range(doomed)
          /\ \A x \in Range(doomed) : Tab!ChildrenOf(x) \subseteq Range(doomed)
        BY DEF Collecting
    <2> QED
        BY <1>1, <1>2, <2>1, <2>2, DoomedFacts
<1>8. n = Tab!Cardinality(D)
    <2>1. doomed \in Bijection(1 .. n, D)
        BY <1>4, <1>5, <1>6, <1>7 DEF Bijection, Injection, Surjection, IsInjective, Range
    <2>2. ExistsBijection(1 .. n, D)
        BY <2>1 DEF ExistsBijection
    <2>3. Cardinality(D) = n
        BY <2>2, FS_CountingElements
    <2> QED
        BY <2>3 DEF Cardinality, Tab!Cardinality
<1>9. doomed \in Tab!SetToSeqs(D)
    BY <1>4, <1>5, <1>6, <1>8 DEF Tab!SetToSeqs
<1>10. ASSUME NEW i \in 1 .. n, NEW j \in 1 .. n, doomed[j] \in Tab!ChildrenOf(doomed[i])
       PROVE  i < j
    <2>1. \A p \in DOMAIN committed.children : \A x \in committed.children[p] :
             committed.parent[x] = p
        BY CommittedFacts
    <2>2. \A p, q : \A x : x \in Tab!ChildrenOf(p) /\ x \in Tab!ChildrenOf(q) => p = q
        BY <2>1 DEF Tab!ChildrenOf
    <2>3. doomed[i] # h
        BY <1>3, <1>6
    <2>4. \/ doomed[j] \in Tab!ChildrenOf(h)
          \/ \E k \in 1 .. n : k < j /\ doomed[j] \in Tab!ChildrenOf(doomed[k])
        BY <1>5 DEF Collecting
    <2>5. PICK k \in 1 .. n : k < j /\ doomed[j] \in Tab!ChildrenOf(doomed[k])
        BY <1>10, <2>2, <2>3, <2>4
    <2>6. doomed[k] = doomed[i]
        BY <1>10, <2>2, <2>5
    <2>7. k = i
        BY <1>4, <1>5, <2>6
    <2> QED
        BY <2>5, <2>7
<1>11. doomed \in Tab!WorklistOrders(h)
    BY <1>2, <1>5, <1>9, <1>10 DEF Tab!WorklistOrders
<1> QED
    BY <1>3, <1>4, <1>11, SeqMonotonic

\* Before the first of the doomed, nothing has been dropped, cut or forgotten.
LEMMA NothingDropped ==
    ASSUME Tab!TableInv, SameAsCommitted, NEW h, Tab!PopVerdict(h) = "freed",
           doomed \in Tab!WorklistOrders(h), doomed \in Seq(Nat)
    PROVE  HalfPopped(h, <<>>, {}, {})
<1>1. /\ committed.items = [x \in DOMAIN committed.items |-> committed.items[x]]
      /\ committed.owned = [x \in DOMAIN committed.owned |-> committed.owned[x]]
      /\ committed.parent = [x \in DOMAIN committed.parent |-> committed.parent[x]]
      /\ committed.children = [x \in DOMAIN committed.children |-> committed.children[x]]
      /\ committed.invalidated
            = [x \in DOMAIN committed.invalidated |-> committed.invalidated[x]]
    BY DEF Tab!TableInv, Tab!TreeInv, Tab!TypeOK
<1>2. items = Without(committed.items, {})
    BY <1>1 DEF SameAsCommitted, Without
<1>3. Unlinks({})
    <2>1. children = [x \in DOMAIN committed.children \ {} |-> committed.children[x] \ {}]
        BY <1>1 DEF SameAsCommitted
    <2> QED
        BY <1>1, <2>1 DEF SameAsCommitted, Without, Unlinks
<1>4. <<>> \o doomed = doomed
    BY ConcatEmptySeq
<1>5. Remembered(<<>>, h)
    <2>1. PICK old : old = committed.invalidatedOrder
        OBVIOUS
    <2>2. old \in Seq(Nat) /\ Len(old) <= InvalidatedMemory /\ Len(old) \in Nat
        BY <2>1, CommittedFacts, LenProperties
    <2>3. old \o <<>> = old /\ Excess(Len(old)) = 0
        BY <2>2, ConcatEmptySeq, InvalidatedMemoryAssumption DEF Excess
    <2>4. SubSeq(old, 1, Len(old)) = old
        BY <2>2, SubSeqFull
    <2>5. Range(<<>>) = {}
        BY DEF Range
    <2>6. {old[i] : i \in 1 .. 0} = {}
        OBVIOUS
    <2>7. PICK all : all = committed.invalidatedOrder \o <<>>
        OBVIOUS
    <2>8. all = old /\ Excess(Len(all)) = 0
        BY <2>1, <2>3, <2>7
    <2>9. invalidatedOrder = SubSeq(all, Excess(Len(all)) + 1, Len(all))
        BY <2>1, <2>4, <2>8 DEF SameAsCommitted
    <2>10. DOMAIN invalidated = (DOMAIN committed.invalidated \cup Range(<<>>))
                                  \ {all[i] : i \in 1 .. Excess(Len(all))}
        BY <2>5, <2>6, <2>8 DEF SameAsCommitted
    <2>11. invalidated = [x \in DOMAIN invalidated |->
                IF x \in Range(<<>>) THEN h ELSE committed.invalidated[x]]
        BY <1>1, <2>5 DEF SameAsCommitted
    <2> QED
        BY <2>7, <2>9, <2>10, <2>11 DEF Remembered
<1>6. <<>> \in Seq(Nat)
    OBVIOUS
<1> QED
    BY <1>2, <1>3, <1>4, <1>5, <1>6 DEF HalfPopped, SameAsCommitted

\* The worklist is complete.
LEMMA WorklistDoneStep ==
    ASSUME LockInv, NEW t \in Threads, WorklistDone(t), Observe
    PROVE  UNCHANGED Tab!vars /\ Shared'
<1>1. /\ pc[t] = "worklist" /\ pc[t] \in Popping /\ UNCHANGED <<vars, lock, arg, doomed>>
      /\ pending = {}
    BY DEF WorklistDone, Goto, Popping, Locals
<1>2. lock = t /\ SameAsCommitted /\ Collecting(arg[t]) /\ pc'[t] = "dropItem"
    BY <1>1, Holder DEF Midway, WorklistDone, Goto
<1>3. committed' = committed
    BY <1>1, <1>2, Observed, NobodyAssumption
<1>4. PICK h : h = arg[t]
    OBVIOUS
<1>5. HalfPopped(h, <<>>, {}, {})
    BY <1>1, <1>2, <1>4, WorklistFinished, NothingDropped DEF LockInv, Collecting
<1>6. HalfPopped(h, <<>>, {}, {})'
    BY <1>1, <1>3, <1>5, HalfPoppedStays
<1>7. Range(<<>>) = {} /\ <<>> \in Seq(Nat)
    BY DEF Range
<1>8. Dropping(h)'
    BY <1>6, <1>7 DEF Dropping
<1>9. Midway(t)'
    BY <1>1, <1>2, <1>4, <1>8 DEF Midway, Putting
<1> QED
    BY <1>1, <1>2, <1>9, HolderGoesOn

\* The next of the doomed is a live handle that has not been dealt with, and
\* dealing with it moves it from the one list to the other.
LEMMA NextDoomed ==
    ASSUME Tab!TableInv, NEW h \in DOMAIN committed.items, NEW done \in Seq(Nat),
           doomed \in Seq(Nat), doomed # <<>>, done \o doomed \in Tab!WorklistOrders(h)
    PROVE  /\ Head(doomed) \in DOMAIN committed.items /\ Head(doomed) \in Nat
           /\ Head(doomed) \notin DOMAIN committed.invalidated \cup Range(done)
           /\ Append(done, Head(doomed)) \in Seq(Nat) /\ Tail(doomed) \in Seq(Nat)
           /\ Append(done, Head(doomed)) \o Tail(doomed) = done \o doomed
           /\ Range(Append(done, Head(doomed))) = Range(done) \cup {Head(doomed)}
<1>0. Tab!TypeOK
    BY DEF Tab!TableInv, Tab!TreeInv
<1>1. PICK x : x = Head(doomed)
    OBVIOUS
<1>2. PICK rest : rest = Tail(doomed)
    OBVIOUS
<1>3. x \in Nat /\ rest \in Seq(Nat)
    BY <1>1, <1>2, HeadTailProperties
<1>4. doomed = <<x>> \o rest
    BY <1>1, <1>2
<1>5. /\ <<x>> \in Seq(Nat) /\ Append(done, x) = done \o <<x>>
      /\ Append(done, x) \in Seq(Nat)
    BY <1>3, AppendIsConcat, AppendProperties
<1>6. Append(done, x) \o rest = done \o doomed
    BY <1>3, <1>4, <1>5, ConcatAssociative
<1>7. PICK all : all = done \o doomed
    OBVIOUS
<1>8. /\ Tab!IsInjective(all) /\ Tab!Range(all) = Tab!Doomed(h)
    BY <1>0, <1>7, Tab!WorklistIsComplete, MaxHandlesAssumption, InvalidatedMemoryAssumption
<1>9. /\ all \in Seq(Nat) /\ Len(done) \in Nat
      /\ Len(done) + 1 \in DOMAIN all /\ all[Len(done) + 1] = x
      /\ \A i \in 1 .. Len(done) : i \in DOMAIN all /\ all[i] = done[i] /\ i # Len(done) + 1
    <2>1. Len(done) \in Nat /\ Len(doomed) \in Nat \ {0}
        BY EmptySeq, LenProperties
    <2>2. /\ all \in Seq(Nat) /\ Len(all) = Len(done) + Len(doomed)
          /\ \A i \in 1 .. Len(done) + Len(doomed) : all[i] =
                IF i <= Len(done) THEN done[i] ELSE doomed[i - Len(done)]
        BY <1>7, ConcatProperties
    <2>3. DOMAIN all = 1 .. (Len(done) + Len(doomed))
        BY <2>2, LenProperties
    <2>4. Len(done) + 1 \in 1 .. (Len(done) + Len(doomed))
        BY <2>1
    <2>5. all[Len(done) + 1] = doomed[1]
        <3>1. ~ (Len(done) + 1 <= Len(done)) /\ Len(done) + 1 - Len(done) = 1
            BY <2>1
        <3> QED
            BY <2>2, <2>4, <3>1
    <2>6. \A i \in 1 .. Len(done) :
            i \in 1 .. (Len(done) + Len(doomed)) /\ i <= Len(done) /\ i # Len(done) + 1
        BY <2>1
    <2>7. \A i \in 1 .. Len(done) : i \in DOMAIN all /\ all[i] = done[i] /\ i # Len(done) + 1
        BY <2>2, <2>3, <2>6
    <2> QED
        BY <1>1, <2>1, <2>2, <2>3, <2>4, <2>5, <2>7
<1>10. x \in Tab!Doomed(h)
    BY <1>8, <1>9 DEF Tab!Range
<1>11. x \notin Range(done)
    <2>1. \A i \in 1 .. Len(done) : done[i] # x
        BY <1>8, <1>9 DEF Tab!IsInjective
    <2>2. DOMAIN done = 1 .. Len(done)
        BY LenProperties
    <2> QED
        BY <2>1, <2>2 DEF Range
<1>12. x \in DOMAIN committed.items /\ x \notin DOMAIN committed.invalidated
    BY <1>10, DoomedFacts, CommittedFacts
<1> QED
    BY <1>1, <1>2, <1>3, <1>5, <1>6, <1>11, <1>12, RangeAppend

\* Cutting the links of one id more.
LEMMA UnlinkEffect ==
    ASSUME Tab!TableInv, committed' = committed,
           NEW gone, Unlinks(gone), NEW g, g \notin gone, Unlinked(g)
    PROVE  Unlinks(gone \cup {g})'
<1>1. /\ owned' = Without(committed.owned, gone \cup {g})
      /\ parent' = Without(committed.parent, gone \cup {g})
    BY DEF Unlinks, Unlinked, Without
<1>2. \A x \in DOMAIN committed.children \ gone :
         g \in committed.children[x] => ParentOf(g) = x
    BY CommittedFacts DEF Unlinks, Without, ParentOf
<1>3. \A x \in DOMAIN committed.children \ (gone \cup {g}) :
         (IF x = ParentOf(g) THEN children[x] \ {g} ELSE children[x])
            = committed.children[x] \ (gone \cup {g})
    BY <1>2 DEF Unlinks
<1>4. children' = [x \in DOMAIN committed.children \ (gone \cup {g}) |->
                      committed.children[x] \ (gone \cup {g})]
    BY <1>3 DEF Unlinks, Unlinked
<1> QED
    BY <1>1, <1>4 DEF Unlinks, Without

\* The item of the next of the doomed is dropped.
LEMMA DropItemStep ==
    ASSUME LockInv, NEW t \in Threads, DropItem(t), Observe
    PROVE  UNCHANGED Tab!vars /\ Shared'
<1>1. /\ pc[t] = "dropItem" /\ pc[t] \in Popping /\ doomed # <<>>
      /\ UNCHANGED <<lock, arg, doomed>>
    BY DEF DropItem, Goto, Popping, Locals
<1>2. lock = t /\ Dropping(arg[t]) /\ pc'[t] = "unlink"
    BY <1>1, Holder DEF Midway, DropItem, Goto
<1>3. committed' = committed
    BY <1>1, <1>2, Observed, NobodyAssumption
<1>4. PICK h : h = arg[t]
    OBVIOUS
<1>5. PICK done \in Seq(Nat) : HalfPopped(h, done, Range(done), Range(done))
    BY <1>2, <1>4 DEF Dropping
<1>6. HalfPopped(h, done, Range(done) \cup {Head(doomed)}, Range(done))'
    <2>1. items' = Without(committed.items, Range(done) \cup {Head(doomed)})
        BY <1>5 DEF HalfPopped, DropItem, Without
    <2>2. Remembered(done, h)'
        BY <1>3, <1>5, RememberedStays DEF HalfPopped, DropItem
    <2>3. Unlinks(Range(done))'
        BY <1>3, <1>5 DEF HalfPopped, DropItem, Unlinks
    <2> QED
        BY <1>1, <1>3, <1>5, <2>1, <2>2, <2>3, NothingCommitted
           DEF HalfPopped, DropItem, historyVars, Without
<1>7. Unlinking(h)'
    BY <1>1, <1>6 DEF Unlinking
<1>8. Midway(t)'
    BY <1>1, <1>2, <1>4, <1>7 DEF Midway, Putting
<1> QED
    BY <1>1, <1>2, <1>8, HolderGoesOn

\* Its links are cut.
LEMMA UnlinkStep ==
    ASSUME LockInv, NEW t \in Threads, Unlink(t), Observe
    PROVE  UNCHANGED Tab!vars /\ Shared'
<1>1. /\ pc[t] = "unlink" /\ pc[t] \in Popping
      /\ UNCHANGED <<lock, arg, doomed>> /\ Unlinked(Head(doomed))
    BY DEF Unlink, Goto, Popping, Locals
<1>2. lock = t /\ Unlinking(arg[t]) /\ pc'[t] = "remember"
    BY <1>1, Holder DEF Midway, Unlink, Goto
<1>3. committed' = committed
    BY <1>1, <1>2, Observed, NobodyAssumption
<1>4. PICK h : h = arg[t]
    OBVIOUS
<1>5. PICK done \in Seq(Nat) :
            doomed # <<>> /\ HalfPopped(h, done, Range(done) \cup {Head(doomed)}, Range(done))
    BY <1>2, <1>4 DEF Unlinking
<1>6. HalfPopped(h, done, Range(done) \cup {Head(doomed)}, Range(done) \cup {Head(doomed)})'
    <2>1. h \in DOMAIN committed.items /\ doomed \in Seq(Nat)
          /\ done \o doomed \in Tab!WorklistOrders(h)
        BY <1>5 DEF HalfPopped, Tab!PopVerdict, Tab!GetVerdict, Tab!Live
    <2>2. Head(doomed) \notin Range(done)
        BY <1>5, <2>1, NextDoomed DEF LockInv
    <2>3. PICK g : g = Head(doomed)
        OBVIOUS
    <2>4. Unlinks(Range(done) \cup {g})'
        BY <1>1, <1>3, <1>5, <2>2, <2>3, UnlinkEffect DEF LockInv, HalfPopped
    <2>5. Remembered(done, h)'
        BY <1>3, <1>5, RememberedStays DEF HalfPopped, Unlink
    <2>6. /\ items' = items /\ nextId' = nextId /\ lineage' = lineage /\ freed' = freed
          /\ g = Head(doomed')
        BY <1>1, <2>3 DEF Unlink, historyVars
    <2>7. HalfPopped(h, done, Range(done) \cup {g}, Range(done) \cup {g})'
        BY <1>1, <1>3, <1>5, <2>3, <2>4, <2>5, <2>6, NothingCommitted DEF HalfPopped, Without
    <2> QED
        BY <1>1, <2>3, <2>7
<1>7. Remembering(h)'
    BY <1>1, <1>5, <1>6 DEF Remembering
<1>8. Midway(t)'
    BY <1>1, <1>2, <1>4, <1>7 DEF Midway, Putting
<1> QED
    BY <1>1, <1>2, <1>8, HolderGoesOn

\* It is remembered as invalidated, and done with.
LEMMA RememberOneStep ==
    ASSUME LockInv, NEW t \in Threads, RememberOne(t), Observe
    PROVE  UNCHANGED Tab!vars /\ Shared'
<1>1. /\ pc[t] = "remember" /\ pc[t] \in Popping
      /\ UNCHANGED <<lock, arg>> /\ doomed' = Tail(doomed)
      /\ Remember(<<Head(doomed)>>, arg[t])
      /\ UNCHANGED <<items, owned, parent, children, nextId, lineage, freed>>
    BY DEF RememberOne, Goto, Popping, historyVars
<1>2. lock = t /\ Remembering(arg[t]) /\ pc'[t] = "dropItem"
    BY <1>1, Holder DEF Midway, RememberOne, Goto
<1>3. committed' = committed
    BY <1>1, <1>2, Observed, NobodyAssumption
<1>4. PICK h : h = arg[t]
    OBVIOUS
<1>5. PICK x : x = Head(doomed)
    OBVIOUS
<1>6. PICK done \in Seq(Nat) :
            doomed # <<>> /\ HalfPopped(h, done, Range(done) \cup {x}, Range(done) \cup {x})
    BY <1>2, <1>4, <1>5 DEF Remembering
<1>7. PICK new : new = Append(done, x)
    OBVIOUS
<1>8. /\ x \in Nat /\ x \notin DOMAIN committed.invalidated \cup Range(done)
      /\ new \in Seq(Nat) /\ doomed' \in Seq(Nat)
      /\ new \o doomed' = done \o doomed
      /\ Range(new) = Range(done) \cup {x}
    <2>1. h \in DOMAIN committed.items /\ doomed \in Seq(Nat)
          /\ done \o doomed \in Tab!WorklistOrders(h)
        BY <1>6 DEF HalfPopped, Tab!PopVerdict, Tab!GetVerdict, Tab!Live
    <2> QED
        BY <1>1, <1>5, <1>6, <1>7, <2>1, NextDoomed DEF LockInv
<1>9. Remembered(new, h)'
    <2>1. OneForgotten(done, x, h)
        BY <1>1, <1>3, <1>4, <1>5, <1>6, <1>8, CommittedFacts
           DEF OneForgotten, HalfPopped, LockInv
    <2> QED
        BY <1>7, <2>1, RememberNext
<1>10. /\ items' = Without(committed'.items, Range(new))
       /\ Unlinks(Range(new))'
    BY <1>1, <1>3, <1>6, <1>8 DEF HalfPopped, Unlinks, Without
<1>11. HalfPopped(h, new, Range(new), Range(new))'
    <2>1. /\ Tab!PopVerdict(h) = "freed" /\ new \o doomed' \in Tab!WorklistOrders(h)
          /\ nextId = committed.nextId /\ lineage = committed.lineage
          /\ freed = committed.freed
        BY <1>6, <1>8 DEF HalfPopped
    <2>2. /\ Tab!PopVerdict(h)' = "freed" /\ new \o doomed' \in Tab!WorklistOrders(h)'
          /\ nextId' = committed'.nextId /\ lineage' = committed'.lineage
          /\ freed' = committed'.freed
        BY <1>1, <1>3, <2>1, NothingCommitted
    <2> QED
        BY <1>8, <1>9, <1>10, <2>2 DEF HalfPopped
<1>12. Dropping(h)'
    BY <1>8, <1>11 DEF Dropping
<1>13. Midway(t)'
    BY <1>1, <1>2, <1>4, <1>12 DEF Midway, Putting
<1> QED
    BY <1>1, <1>2, <1>13, HolderGoesOn

\* When all the doomed are done with, the links of the root are cut.
LEMMA UnlinkRootStep ==
    ASSUME LockInv, NEW t \in Threads, UnlinkRoot(t), Observe
    PROVE  UNCHANGED Tab!vars /\ Shared'
<1>1. /\ pc[t] = "dropItem" /\ pc[t] \in Popping /\ doomed = <<>>
      /\ UNCHANGED <<lock, arg, doomed>> /\ Unlinked(arg[t])
      /\ UNCHANGED <<items, invalidated, invalidatedOrder, nextId, lineage, freed>>
    BY DEF UnlinkRoot, Goto, Popping, Locals, historyVars
<1>2. lock = t /\ Dropping(arg[t]) /\ pc'[t] = "dropRoot"
    BY <1>1, Holder DEF Midway, UnlinkRoot, Goto
<1>3. committed' = committed
    BY <1>1, <1>2, Observed, NobodyAssumption
<1>4. PICK h : h = arg[t]
    OBVIOUS
<1>5. PICK done \in Seq(Nat) : HalfPopped(h, done, Range(done), Range(done))
    BY <1>2, <1>4 DEF Dropping
<1>6. h \notin Range(done)
    <2>1. h \in DOMAIN committed.items /\ done \o doomed \in Tab!WorklistOrders(h)
        BY <1>5 DEF HalfPopped, Tab!PopVerdict, Tab!GetVerdict, Tab!Live
    <2>2. done \in Tab!WorklistOrders(h)
        BY <1>1, <2>1, ConcatEmptySeq
    <2>3. Tab!Range(done) = Tab!Doomed(h)
        BY <2>2, Tab!WorklistIsComplete, MaxHandlesAssumption, InvalidatedMemoryAssumption
           DEF LockInv, Tab!TableInv, Tab!TreeInv
    <2> QED
        BY <2>1, <2>3, DoomedFacts DEF LockInv, Range, Tab!Range
<1>7. HalfPopped(h, done, Range(done), Range(done) \cup {h})'
    <2>1. Unlinks(Range(done) \cup {h})'
        BY <1>1, <1>3, <1>4, <1>5, <1>6, UnlinkEffect DEF LockInv, HalfPopped
    <2>2. Remembered(done, h)'
        BY <1>1, <1>3, <1>5, RememberedStays DEF HalfPopped
    <2> QED
        BY <1>1, <1>3, <1>5, <2>1, <2>2, NothingCommitted DEF HalfPopped, Without
<1>8. DroppingRoot(h)'
    BY <1>1, <1>7 DEF DroppingRoot
<1>9. Midway(t)'
    BY <1>1, <1>2, <1>4, <1>8 DEF Midway, Putting
<1> QED
    BY <1>1, <1>2, <1>9, HolderGoesOn

\* With the root the whole worklist is gone, and the lock is given back: the
\* committed table has popped.
LEMMA DropRootStep ==
    ASSUME LockInv, NEW t \in Threads, DropRoot(t), Observe
    PROVE  Tab!Next /\ Shared'
<1>1. /\ pc[t] = "dropRoot" /\ pc[t] \in Popping /\ lock' = Nobody
      /\ items' = Without(items, {arg[t]}) /\ freed' = freed \cup {arg[t]}
      /\ UNCHANGED <<owned, parent, children, invalidated, invalidatedOrder,
                     nextId, lineage>>
    BY DEF DropRoot, Goto, Popping, Release
<1>2. SameAsCommitted' /\ Shared'
    BY <1>1, LockGivenBack
<1>3. PICK h : h = arg[t]
    OBVIOUS
<1>4. PICK done \in Seq(Nat) :
            doomed = <<>> /\ HalfPopped(h, done, Range(done), Range(done) \cup {h})
    BY <1>1, <1>3, Holder DEF Midway, DroppingRoot
<1>5. h \in DOMAIN committed.items /\ Tab!PopVerdict(h) = "freed"
    BY <1>4 DEF HalfPopped, Tab!PopVerdict, Tab!GetVerdict, Tab!Live
<1>6. done \in Tab!WorklistOrders(h)
    BY <1>4, ConcatEmptySeq DEF HalfPopped
<1>7. Range(done) = Tab!Doomed(h)
    BY <1>6, Tab!WorklistIsComplete, MaxHandlesAssumption, InvalidatedMemoryAssumption
       DEF LockInv, Tab!TableInv, Tab!TreeInv, Range, Tab!Range
<1>8. Tab!Remember(done, h)
    <2>1. PICK all : all = committed.invalidatedOrder \o done
        OBVIOUS
    <2>2. Remembered(done, h)
        BY <1>4 DEF HalfPopped
    <2>3. /\ committed'.invalidatedOrder = SubSeq(all, Excess(Len(all)) + 1, Len(all))
          /\ DOMAIN committed'.invalidated
                = (DOMAIN committed.invalidated \cup Range(done))
                     \ {all[i] : i \in 1 .. Excess(Len(all))}
        <3>1. /\ invalidatedOrder = SubSeq(all, Excess(Len(all)) + 1, Len(all))
              /\ DOMAIN invalidated = (DOMAIN committed.invalidated \cup Range(done))
                                         \ {all[i] : i \in 1 .. Excess(Len(all))}
            BY <2>1, <2>2 DEF Remembered
        <3>2. committed'.invalidated = invalidated
              /\ committed'.invalidatedOrder = invalidatedOrder
            BY <1>1, <1>2 DEF SameAsCommitted
        <3> QED
            BY <3>1, <3>2
    <2>4. committed'.invalidated = [x \in DOMAIN committed'.invalidated |->
                    IF x \in Range(done) THEN h ELSE committed.invalidated[x]]
        <3>1. invalidated = [x \in DOMAIN invalidated |->
                    IF x \in Range(done) THEN h ELSE committed.invalidated[x]]
            BY <2>2, Zenon DEF Remembered
        <3> QED
            BY <1>1, <1>2, <3>1 DEF SameAsCommitted
    <2>5. PICK forgotten : forgotten = {all[i] : i \in 1 .. Excess(Len(all))}
        OBVIOUS
    <2>6. committed'.invalidated =
            Tab!Without([x \in DOMAIN committed.invalidated \cup Tab!Range(done) |->
                            IF x \in Tab!Range(done) THEN h ELSE committed.invalidated[x]],
                        forgotten)
        BY <2>3, <2>4, <2>5 DEF Tab!Without, Range, Tab!Range
    <2> QED
        BY <2>1, <2>3, <2>5, <2>6, Zenon DEF Tab!Remember, Excess
<1>9. Tab!Discard(Tab!Doomed(h) \cup {h})
    <2>1. PICK gone : gone = Tab!Doomed(h) \cup {h}
        OBVIOUS
    <2>2. /\ committed'.items = Tab!Without(committed.items, gone)
          /\ committed'.owned = Tab!Without(committed.owned, gone)
          /\ committed'.parent = Tab!Without(committed.parent, gone)
        <3>1. /\ items = Without(committed.items, Range(done))
              /\ Unlinks(gone) /\ gone = Range(done) \cup {h}
            BY <1>4, <1>7, <2>1 DEF HalfPopped
        <3>2. /\ committed'.items = Without(items, {h})
              /\ committed'.owned = owned /\ committed'.parent = parent
            BY <1>1, <1>2, <1>3 DEF SameAsCommitted
        <3>3. committed'.items = Tab!Without(committed.items, gone)
            BY <3>1, <3>2 DEF Without, Tab!Without
        <3> QED
            BY <3>1, <3>2, <3>3 DEF Unlinks, Without, Tab!Without
    <2>3. committed'.children = [x \in DOMAIN committed.children \ gone |->
                                    committed.children[x] \ gone]
        BY <1>1, <1>2, <1>4, <1>7, <2>1 DEF HalfPopped, Unlinks, SameAsCommitted
    <2>4. \A x \in DOMAIN committed.children : \A y \in committed.children[x] :
             Tab!ParentOf(y) = x
        BY CommittedFacts DEF LockInv, Tab!ParentOf
    <2>5. \A x \in DOMAIN committed.children \ gone :
             committed.children[x] \ gone
                = {y \in committed.children[x] : ~(y \in gone /\ Tab!ParentOf(y) = x)}
        BY <2>4
    <2>6. committed'.children =
            [x \in DOMAIN committed.children \ gone |->
                {y \in committed.children[x] : ~(y \in gone /\ Tab!ParentOf(y) = x)}]
        BY <2>3, <2>5
    <2>7. Tab!Discard(gone)
        BY <2>2, <2>6 DEF Tab!Discard
    <2> QED
        BY <2>1, <2>7
<1>10. /\ committed'.freed = committed.freed \cup {h}
       /\ committed'.nextId = committed.nextId
       /\ committed'.lineage = committed.lineage
    BY <1>1, <1>2, <1>3, <1>4 DEF HalfPopped, SameAsCommitted
<1>11. Tab!PopCascade(h)
    <2>1. \E order \in Tab!WorklistOrders(h) : Tab!Remember(order, h)
        BY <1>6, <1>8
    <2> QED
        BY <1>5, <1>9, <1>10, <2>1, Zenon DEF Tab!PopCascade
<1>12. h \in Tab!Handles
    <2>1. h \in 1 .. (committed.nextId - 1)
        BY <1>5, CommittedFacts DEF LockInv
    <2>2. committed.nextId \in 1 .. (MaxHandles + 1)
        BY DEF LockInv, Tab!TableInv, Tab!TreeInv, Tab!TypeOK
    <2> QED
        BY <2>1, <2>2, MaxHandlesAssumption DEF Tab!Handles
<1> QED
    BY <1>2, <1>11, <1>12 DEF Tab!Next

-----------------------------------------------------------------------------
(* The theorems.                                                           *)

\* Every step leaves the committed table alone, or puts or pops atomically.
LEMMA StepRefines ==
    ASSUME LockInv, NEW t \in Threads, Call(t) \/ Write(t) \/ Read(t), Observe
    PROVE  [Tab!Next]_(Tab!vars) /\ Shared'
<1>1. CASE Call(t)
    BY <1>1, PutItemStep, PopBeginStep, ReadersDoNothing DEF Call
<1>2. CASE Write(t)
    BY <1>2, PutRestStep, PopRaiseStep, PopCollectStep, WorklistTurn, WorklistDoneStep,
        DropItemStep, UnlinkStep, RememberOneStep, UnlinkRootStep, DropRootStep DEF Write
<1>3. CASE Read(t)
    BY <1>3, ReadersDoNothing
<1> QED
    BY <1>1, <1>2, <1>3

\* The invariant holds at first.
LEMMA LockingStarts == LockInit => LockInv /\ Tab!Init
<1> SUFFICES ASSUME LockInit
             PROVE  LockInv /\ Tab!Init
    OBVIOUS
<1>1. SameAsCommitted /\ Init
    BY DEF LockInit, SameAsCommitted, Table
<1>2. Tab!Init
    BY <1>1 DEF SameAsCommitted, Init, Tab!Init
<1>3. Tab!TableInv
    BY <1>2, Tab!InitTable, MaxHandlesAssumption, InvalidatedMemoryAssumption
<1>4. Scheduled /\ Shared /\ Granted
    BY <1>1, NobodyAssumption DEF LockInit, Scheduled, Shared, Granted, Putting, Popping,
        Readings, GetSteps, OwnedSteps, Results, None
<1> QED
    BY <1>2, <1>3, <1>4 DEF LockInv

\* Every step keeps it.
LEMMA LockingGoesOn == LockInv /\ [LockNext]_allVars => LockInv' /\ [Tab!Next]_(Tab!vars)
<1> SUFFICES ASSUME LockInv, [LockNext]_allVars
             PROVE  LockInv' /\ [Tab!Next]_(Tab!vars)
    OBVIOUS
<1>1. ASSUME NEW t \in Threads, Call(t) \/ Write(t) \/ Read(t), Observe
      PROVE  LockInv' /\ [Tab!Next]_(Tab!vars)
    <2>1. [Tab!Next]_(Tab!vars) /\ Shared' /\ Scheduled' /\ Granted'
        BY <1>1, StepRefines, ScheduleKept, GrantsKept
    <2>2. Tab!TableInv'
        BY <2>1, Tab!NextKeepsTable, MaxHandlesAssumption, InvalidatedMemoryAssumption
           DEF LockInv
    <2> QED
        BY <2>1, <2>2 DEF LockInv
<1>2. CASE UNCHANGED allVars
    <2>1. /\ UNCHANGED <<vars, lock, pc, arg, result, pending, doomed, committed, seen>>
        BY <1>2 DEF allVars, lockVars
    <2>2. Tab!TableInv' /\ UNCHANGED Tab!vars /\ Returned' = Returned
        BY <2>1, NothingCommitted DEF LockInv
    <2>3. Scheduled'
        BY <2>1, <2>2 DEF LockInv, Scheduled
    <2>4. Granted'
        BY <2>1 DEF LockInv, Granted
    <2>5. Shared'
        <3>1. SameAsCommitted => SameAsCommitted'
            BY <2>1 DEF SameAsCommitted, vars, tableVars, historyVars
        <3>2. \A t \in Threads : Midway(t) => Midway(t)'
            BY <2>1, MidwayStays
        <3> QED
            BY <2>1, <3>1, <3>2 DEF LockInv, Shared
    <2> QED
        BY <2>2, <2>3, <2>4, <2>5 DEF LockInv
<1> QED
    BY <1>1, <1>2 DEF LockNext

\* The invariant of put, pop_cascade and the readers, statement by statement.
THEOREM LockingInvariant == LockSpec => []LockInv
BY LockingStarts, LockingGoesOn, PTL DEF LockSpec

\* What a reader without the lock is granted was right while it ran.
THEOREM GrantsAreJustified == LockSpec => []GrantsAreRight
<1>1. LockInv => GrantsAreRight
    BY DEF LockInv, Granted, GrantsAreRight
<1> QED
    BY <1>1, LockingInvariant, PTL

\* The atomic table of the specification is the one the proofs are about.
LEMMA AtomicIsTab ==
    /\ Tab!Init => Atomic!Init
    /\ [Tab!Next]_(Tab!vars) => [Atomic!Next]_(Atomic!vars)
<1>1. Tab!Init => Atomic!Init
    BY DEF Tab!Init, Atomic!Init
<1>2. UNCHANGED Tab!vars => UNCHANGED Atomic!vars
    BY DEF Tab!vars, Tab!tableVars, Tab!historyVars,
           Atomic!vars, Atomic!tableVars, Atomic!historyVars
<1>3. \A hid, par : Tab!Adopt(hid, par) => Atomic!Adopt(hid, par)
    BY DEF Tab!Adopt, Atomic!Adopt, Tab!Assign, Atomic!Assign, Tab!Live, Atomic!Live,
           Tab!ChildrenOf, Atomic!ChildrenOf
<1>4. \A obj, own, par : Tab!Put(obj, own, par) => Atomic!Put(obj, own, par)
    BY <1>3 DEF Tab!Put, Atomic!Put, Tab!Assign, Atomic!Assign
<1>5. /\ Tab!Issued = Atomic!Issued /\ Tab!None = Atomic!None
      /\ Tab!Handles = Atomic!Handles
    BY DEF Tab!Issued, Atomic!Issued, Tab!None, Atomic!None, Tab!Handles, Atomic!Handles
<1>6. \A h : Tab!PopVerdict(h) = Atomic!PopVerdict(h)
    BY DEF Tab!PopVerdict, Atomic!PopVerdict, Tab!GetVerdict, Atomic!GetVerdict,
           Tab!Live, Atomic!Live
<1>7. ASSUME NEW h
      PROVE  Tab!Doomed(h) = Atomic!Doomed(h) /\ Tab!WorklistOrders(h) = Atomic!WorklistOrders(h)
    <2>1. \A x : Tab!ChildrenOf(x) = Atomic!ChildrenOf(x)
        BY DEF Tab!ChildrenOf, Atomic!ChildrenOf
    <2>2. Tab!Doomed(h) = Atomic!Doomed(h)
        BY <2>1 DEF Tab!Doomed, Atomic!Doomed, Tab!Live, Atomic!Live
    <2>3. \A S : Tab!SetToSeqs(S) = Atomic!SetToSeqs(S)
        BY DEF Tab!SetToSeqs, Atomic!SetToSeqs, Tab!Cardinality, Atomic!Cardinality
    <2> QED
        BY <2>1, <2>2, <2>3 DEF Tab!WorklistOrders, Atomic!WorklistOrders
<1>8. \A list, h : Tab!Remember(list, h) => Atomic!Remember(list, h)
    BY Zenon DEF Tab!Remember, Atomic!Remember, Tab!Range, Atomic!Range, Tab!Without,
        Atomic!Without
<1>9. \A gone : Tab!Discard(gone) => Atomic!Discard(gone)
    BY DEF Tab!Discard, Atomic!Discard, Tab!Without, Atomic!Without,
        Tab!ParentOf, Atomic!ParentOf, Tab!None, Atomic!None
<1>10. \A h : Tab!PopCascade(h) => Atomic!PopCascade(h)
    BY <1>6, <1>7, <1>8, <1>9 DEF Tab!PopCascade, Atomic!PopCascade
<1>11. \A h : Tab!RefusePop(h) => UNCHANGED Atomic!vars
    BY <1>2 DEF Tab!RefusePop
<1> QED
    BY <1>1, <1>2, <1>4, <1>5, <1>10, <1>11 DEF Tab!Next, Atomic!Next

\* Statement by statement, put and pop_cascade do what they would do at once.
THEOREM LockingImplementsTable == LockSpec => AtomicSpec
<1>1. LockInit => Atomic!Init
    BY LockingStarts, AtomicIsTab
<1>2. LockInv /\ [LockNext]_allVars => [Atomic!Next]_(Atomic!vars)
    BY LockingGoesOn, AtomicIsTab
<1> QED
    BY <1>1, <1>2, LockingInvariant, PTL DEF LockSpec, AtomicSpec, Atomic!Spec
=============================================================================
