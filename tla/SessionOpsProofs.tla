--------------------------- MODULE SessionOpsProofs ---------------------------
(***************************************************************************)
(* Lemmas on the session operators: what each method of the manager leaves  *)
(* in the session record.  They are cited by the proofs about the modules   *)
(* that compose the operators into actions.                                 *)
(***************************************************************************)
EXTENDS SessionOps, SequenceTheorems, FiniteSetTheorems, WellFoundedInduction, TLAPS

-----------------------------------------------------------------------------
(* Phases *)

\* The table's phases without a way out are the four that has_active_run and
\* the other methods list by name.
LEMMA EndPhaseIsTerminal ==
  \A p \in Phase : TerminalPhase(p) <=> p \in EndPhase
<1> TAKE p \in Phase
<1>1. CASE p \in EndPhase
  BY <1>1 DEF TerminalPhase, Transitions, EndPhase, Phase
<1>2. CASE p \notin EndPhase
  BY <1>2 DEF TerminalPhase, Transitions, EndPhase, Phase, LoopExit
<1> QED BY <1>1, <1>2

-----------------------------------------------------------------------------
(* Sequences *)

LEMMA ToSetOfSeq ==
  ASSUME NEW S, NEW q \in Seq(S)
  PROVE  ToSet(q) = {q[i] : i \in 1..Len(q)} /\ ToSet(q) \subseteq S
<1>1. DOMAIN q = 1..Len(q)
  BY LenProperties
<1> QED BY <1>1, ElementOfSeq DEF ToSet

LEMMA ToSetOfEmpty == ToSet(<<>>) = {}
BY DEF ToSet

LEMMA ToSetOfAppend ==
  ASSUME NEW S, NEW q \in Seq(S), NEW m \in S
  PROVE  ToSet(Append(q, m)) = ToSet(q) \cup {m}
<1> DEFINE a == Append(q, m)
<1>1. a \in Seq(S) /\ Len(a) = Len(q) + 1 /\ Len(q) \in Nat
  BY AppendProperties, LenProperties
<1>2. (\A i \in 1..Len(q) : a[i] = q[i]) /\ a[Len(q) + 1] = m
  BY AppendProperties
<1>3. ToSet(a) = {a[i] : i \in 1..Len(a)} /\ ToSet(q) = {q[i] : i \in 1..Len(q)}
  BY <1>1, ToSetOfSeq
<1> HIDE DEF a
<1>4. 1..Len(a) = 1..Len(q) \cup {Len(q) + 1}
  BY <1>1
<1> QED BY <1>2, <1>3, <1>4 DEF a

LEMMA ToSetOfConcat ==
  ASSUME NEW S, NEW p \in Seq(S), NEW q \in Seq(S)
  PROVE  ToSet(p \o q) = ToSet(p) \cup ToSet(q)
<1>1. ToSet(p) = Range(p) /\ ToSet(q) = Range(q) /\ ToSet(p \o q) = Range(p \o q)
  BY DEF ToSet, Range
<1> QED BY <1>1, RangeConcatenation

LEMMA ToSetOfTail ==
  ASSUME NEW S, NEW q \in Seq(S), q # <<>>
  PROVE  ToSet(q) = {Head(q)} \cup ToSet(Tail(q))
<1>1. /\ Tail(q) \in Seq(S) /\ Len(Tail(q)) = Len(q) - 1 /\ Head(q) = q[1]
      /\ \A i \in 1..Len(Tail(q)) : Tail(q)[i] = q[i + 1]
  BY HeadTailProperties
<1>2. Len(q) \in Nat \ {0}
  BY EmptySeq, LenProperties
<1>3. ToSet(q) = {q[i] : i \in 1..Len(q)}
      /\ ToSet(Tail(q)) = {Tail(q)[i] : i \in 1..Len(Tail(q))}
  BY <1>1, ToSetOfSeq
<1>4. \A i \in 1..Len(q) : i = 1 \/ (i - 1 \in 1..Len(Tail(q)) /\ Tail(q)[i - 1] = q[i])
  BY <1>1, <1>2
<1>5. \A i \in 1..Len(Tail(q)) : i + 1 \in 1..Len(q)
  BY <1>1, <1>2
<1>6. 1 \in 1..Len(q)
  BY <1>2
<1>7. ToSet(q) \subseteq {Head(q)} \cup ToSet(Tail(q))
  <2>1. \A i \in 1..Len(q) : i = 1 \/ q[i] \in ToSet(Tail(q))
    BY <1>3, <1>4
  <2> QED BY <1>1, <1>3, <2>1
<1>8. {Head(q)} \cup ToSet(Tail(q)) \subseteq ToSet(q)
  BY <1>1, <1>3, <1>5, <1>6
<1> QED BY <1>7, <1>8

\* A sequence cut in two: its elements are those of the parts.
LEMMA ToSetOfCut ==
  ASSUME NEW S, NEW q \in Seq(S), NEW n \in 0..Len(q)
  PROVE  /\ SubSeq(q, 1, n) \in Seq(S)
         /\ SubSeq(q, n + 1, Len(q)) \in Seq(S)
         /\ SubSeq(q, 1, n) \o SubSeq(q, n + 1, Len(q)) = q
         /\ ToSet(q) = ToSet(SubSeq(q, 1, n)) \cup ToSet(SubSeq(q, n + 1, Len(q)))
<1>1. Len(q) \in Nat /\ n \in Nat /\ n <= Len(q)
  BY LenProperties
<1>2. \A i \in 1..n : q[i] \in S
  BY <1>1, ElementOfSeq
<1>3. \A i \in (n + 1)..Len(q) : q[i] \in S
  BY <1>1, ElementOfSeq
<1>4. SubSeq(q, 1, n) \in Seq(S)
  BY <1>1, <1>2, SubSeqProperties
<1>5. SubSeq(q, n + 1, Len(q)) \in Seq(S)
  <2>1. n + 1 \in Int /\ Len(q) \in Int
    BY <1>1
  <2> QED BY <1>3, <2>1, SubSeqProperties
<1>6. SubSeq(q, 1, n) \o SubSeq(q, n + 1, Len(q)) = SubSeq(q, 1, Len(q))
  <2>1. 1 \in 1..Len(q) + 1 /\ n \in 1 - 1..Len(q) /\ Len(q) \in n..Len(q)
    BY <1>1
  <2> QED BY <2>1, ConcatAdjacentSubSeq
<1>7. SubSeq(q, 1, Len(q)) = q
  BY SubSeqFull
<1>8. SubSeq(q, 1, n) \o SubSeq(q, n + 1, Len(q)) = q
  BY <1>6, <1>7
<1>9. ToSet(SubSeq(q, 1, n) \o SubSeq(q, n + 1, Len(q)))
        = ToSet(SubSeq(q, 1, n)) \cup ToSet(SubSeq(q, n + 1, Len(q)))
  <2>1. \A a, b \in Seq(S) : ToSet(a \o b) = ToSet(a) \cup ToSet(b)
    BY ToSetOfConcat
  <2> QED BY <1>4, <1>5, <2>1, Zenon
<1>10. ToSet(q) = ToSet(SubSeq(q, 1, n)) \cup ToSet(SubSeq(q, n + 1, Len(q)))
  BY <1>8, <1>9, Zenon
<1> QED BY <1>4, <1>5, <1>8, <1>10

-----------------------------------------------------------------------------
(* Sequences without repetition *)

LEMMA InjectiveAppend ==
  ASSUME NEW S, NEW q \in Seq(S), NEW m \in S, IsInjective(q), m \notin ToSet(q)
  PROVE  IsInjective(Append(q, m))
<1> DEFINE a == Append(q, m)
<1>1. /\ Len(q) \in Nat /\ a \in Seq(S) /\ Len(a) = Len(q) + 1
      /\ \A i \in 1..Len(q) : a[i] = q[i]
      /\ a[Len(q) + 1] = m
  BY AppendProperties, LenProperties
<1>2. DOMAIN a = 1..Len(q) + 1 /\ DOMAIN q = 1..Len(q)
  BY <1>1, LenProperties
<1>3. \A i \in 1..Len(q) : a[i] # m
  BY <1>1, <1>2 DEF ToSet
<1> HIDE DEF a
<1>4. ASSUME NEW i \in DOMAIN a, NEW j \in DOMAIN a, a[i] = a[j] PROVE i = j
  <2>1. CASE i = Len(q) + 1 \/ j = Len(q) + 1
    BY <1>1, <1>2, <1>3, <1>4, <2>1
  <2>2. CASE i \in 1..Len(q) /\ j \in 1..Len(q)
    BY <1>1, <1>2, <1>4, <2>2 DEF IsInjective
  <2> QED BY <1>1, <1>2, <2>1, <2>2
<1> QED BY <1>4 DEF IsInjective, a

\* A set of numbers that is not empty has a least element.
LEMMA LeastNumber ==
  ASSUME NEW B \in SUBSET Nat, B # {}
  PROVE  \E m \in B : \A k \in B : m <= k
<1>1. PICK m \in B : \A k \in B : ~(<<k, m>> \in OpToRel(<, Nat))
  BY WFMin, NatLessThanWellFounded
<1>2. \A a, b \in Nat : a < b => <<a, b>> \in OpToRel(<, Nat)
  BY DEF OpToRel
<1>3. \A k \in B : ~(k < m)
  BY <1>1, <1>2
<1>4. \A k \in B : m <= k
  BY <1>3
<1> QED BY <1>4

\* What of q is kept after i elements.
Keeps(f, q, U, i) ==
  f[i] = IF i = 0 THEN <<>>
         ELSE IF q[i] \in U THEN Append(f[i - 1], q[i]) ELSE f[i - 1]

LEMMA KeepsExists ==
  ASSUME NEW S, NEW q \in Seq(S), NEW U
  PROVE  \E f \in [0..Len(q) -> Seq(S)] : \A i \in 0..Len(q) : Keeps(f, q, U, i)
<1> DEFINE n == Len(q)
           Good(m) == \E f \in [0..m -> Seq(S)] : \A i \in 0..m : Keeps(f, q, U, i)
           B == {m \in 0..n : ~Good(m)}
<1>1. n \in Nat /\ \A i \in 1..n : q[i] \in S
  BY LenProperties, ElementOfSeq
<1> HIDE DEF n
<1> SUFFICES ASSUME B # {} PROVE FALSE
  BY <1>1 DEF n
<1>2. PICK m \in B : \A k \in B : m <= k
  <2>1. B \in SUBSET Nat
    BY <1>1
  <2> HIDE DEF B
  <2> QED BY <2>1, LeastNumber
<1>3. m \in 0..n /\ ~Good(m)
  BY <1>2
<1>4. CASE m = 0
  <2> DEFINE g == [i \in 0..m |-> <<>>]
  <2>1. g \in [0..m -> Seq(S)] /\ \A i \in 0..m : i = 0 /\ g[i] = <<>>
    BY <1>4, EmptySeq
  <2> HIDE DEF g
  <2>2. \A i \in 0..m : Keeps(g, q, U, i)
    BY <2>1 DEF Keeps
  <2>3. Good(m)
    BY <2>1, <2>2
  <2> QED BY <1>3, <2>3
<1>5. CASE m # 0
  <2>1. m - 1 \in 0..n /\ m \in 1..n /\ m \in Nat
    BY <1>1, <1>3, <1>5
  <2>2. Good(m - 1)
    <3>1. ~(m <= m - 1)
      BY <2>1
    <3>2. m - 1 \notin B
      BY <1>2, <3>1
    <3> QED BY <2>1, <3>2
  <2>3. PICK f \in [0..m - 1 -> Seq(S)] : \A i \in 0..m - 1 : Keeps(f, q, U, i)
    BY <2>2
  <2> DEFINE last == IF q[m] \in U THEN Append(f[m - 1], q[m]) ELSE f[m - 1]
             g == [i \in 0..m |-> IF i = m THEN last ELSE f[i]]
  <2>4. last \in Seq(S)
    BY <1>1, <2>1, AppendProperties
  <2> HIDE DEF last
  <2>5. g \in [0..m -> Seq(S)]
    BY <2>1, <2>4
  <2>6. g[m] = last /\ \A i \in 0..m - 1 : i # m /\ g[i] = f[i]
    BY <2>1
  <2> HIDE DEF g
  <2>7. \A i \in 0..m - 1 : Keeps(g, q, U, i)
    <3> SUFFICES ASSUME NEW i \in 0..m - 1 PROVE Keeps(g, q, U, i)
      OBVIOUS
    <3>1. i # 0 => i - 1 \in 0..m - 1
      BY <2>1
    <3> QED BY <2>3, <2>6, <3>1 DEF Keeps
  <2>8. Keeps(g, q, U, m)
    BY <1>5, <2>1, <2>6 DEF Keeps, last
  <2>9. \A i \in 0..m : i = m \/ i \in 0..m - 1
    BY <2>1
  <2> QED BY <1>3, <2>5, <2>7, <2>8, <2>9
<1> QED BY <1>4, <1>5

LEMMA OnlyKeeps ==
  ASSUME NEW S, NEW q \in Seq(S), NEW U
  PROVE  \E f \in [0..Len(q) -> Seq(S)] :
           Only(q, U) = f[Len(q)] /\ \A i \in 0..Len(q) : Keeps(f, q, U, i)
<1> DEFINE F == CHOOSE f : f = [i \in 0..Len(q) |->
                  IF i = 0 THEN <<>>
                  ELSE IF q[i] \in U THEN Append(f[i - 1], q[i]) ELSE f[i - 1]]
<1>1. PICK g \in [0..Len(q) -> Seq(S)] : \A i \in 0..Len(q) : Keeps(g, q, U, i)
  BY KeepsExists
<1>2. g = [i \in 0..Len(q) |->
             IF i = 0 THEN <<>>
             ELSE IF q[i] \in U THEN Append(g[i - 1], q[i]) ELSE g[i - 1]]
  BY <1>1 DEF Keeps
<1>3. F = [i \in 0..Len(q) |->
             IF i = 0 THEN <<>>
             ELSE IF q[i] \in U THEN Append(F[i - 1], q[i]) ELSE F[i - 1]]
  BY <1>2
<1>4. Only(q, U) = F[Len(q)]
  BY DEF Only
<1> HIDE DEF F
<1>5. \A i \in 0..Len(q) : Keeps(F, q, U, i)
  BY <1>3 DEF Keeps
<1>6. \A i \in 0..Len(q) : F[i] \in Seq(S)
  <2> DEFINE B == {i \in 0..Len(q) : F[i] \notin Seq(S)}
  <2> SUFFICES ASSUME B # {} PROVE FALSE
    OBVIOUS
  <2>1. B \in SUBSET Nat /\ Len(q) \in Nat /\ \A i \in 1..Len(q) : q[i] \in S
    BY LenProperties, ElementOfSeq
  <2>2. PICK m \in B : \A k \in B : m <= k
    <3> HIDE DEF B
    <3> QED BY <2>1, LeastNumber
  <2>3. m # 0
    BY <1>5, <2>2, EmptySeq DEF Keeps
  <2>4. m - 1 \in 0..Len(q) /\ m \in 1..Len(q) /\ ~(m <= m - 1)
    BY <2>1, <2>2, <2>3
  <2>5. F[m - 1] \in Seq(S)
    BY <2>2, <2>4
  <2>6. F[m] \in {F[m - 1], Append(F[m - 1], q[m])}
    BY <1>5, <2>2, <2>3 DEF Keeps
  <2>7. q[m] \in S
    BY <2>1, <2>4
  <2>8. Append(F[m - 1], q[m]) \in Seq(S)
    BY <2>5, <2>7, AppendProperties
  <2> QED BY <2>2, <2>5, <2>6, <2>8
<1>7. F \in [0..Len(q) -> Seq(S)]
  BY <1>3, <1>6
<1> QED BY <1>4, <1>5, <1>7

\* Only what is in U stays, in its order.
LEMMA OnlyMembers ==
  ASSUME NEW S, NEW q \in Seq(S), NEW U
  PROVE  /\ Only(q, U) \in Seq(S)
         /\ ToSet(Only(q, U)) = ToSet(q) \cap U
         /\ IsInjective(q) => IsInjective(Only(q, U))
<1>1. PICK f \in [0..Len(q) -> Seq(S)] :
        Only(q, U) = f[Len(q)] /\ \A i \in 0..Len(q) : Keeps(f, q, U, i)
  BY OnlyKeeps
<1>2. Len(q) \in Nat /\ DOMAIN q = 1..Len(q) /\ \A i \in 1..Len(q) : q[i] \in S
  BY LenProperties, ElementOfSeq
<1> DEFINE Upto(i) == {q[j] : j \in 1..i} \cap U
           B == {i \in 0..Len(q) : ToSet(f[i]) # Upto(i)}
           C == {i \in 0..Len(q) : ~IsInjective(f[i])}
<1>3. B = {}
  <2> SUFFICES ASSUME B # {} PROVE FALSE
    OBVIOUS
  <2>1. PICK m \in B : \A k \in B : m <= k
    <3>1. B \in SUBSET Nat
      BY <1>2
    <3> HIDE DEF B
    <3> QED BY <3>1, LeastNumber
  <2>2. m # 0
    <3>1. ToSet(f[0]) = {}
      BY <1>1, <1>2, ToSetOfEmpty DEF Keeps
    <3>2. Upto(0) = {}
      OBVIOUS
    <3> QED BY <2>1, <3>1, <3>2
  <2>3. m - 1 \in 0..Len(q) /\ m \in 1..Len(q) /\ ~(m <= m - 1)
    BY <1>2, <2>1, <2>2
  <2>4. ToSet(f[m - 1]) = Upto(m - 1) /\ f[m - 1] \in Seq(S)
    BY <2>1, <2>3
  <2>5. 1..m = 1..m - 1 \cup {m}
    BY <2>3
  <2>6. {q[j] : j \in 1..m} = {q[j] : j \in 1..m - 1} \cup {q[m]}
    BY <2>5
  <2>7. ToSet(Append(f[m - 1], q[m])) = ToSet(f[m - 1]) \cup {q[m]}
    <3>1. q[m] \in S
      BY <1>2, <2>3
    <3> QED BY <2>4, <3>1, ToSetOfAppend
  <2>8. f[m] = IF q[m] \in U THEN Append(f[m - 1], q[m]) ELSE f[m - 1]
    BY <1>1, <2>2, <2>3 DEF Keeps
  <2>9. ToSet(f[m]) = Upto(m)
    BY <2>4, <2>6, <2>7, <2>8
  <2> QED BY <2>1, <2>9
<1>4. ASSUME IsInjective(q) PROVE C = {}
  <2> SUFFICES ASSUME C # {} PROVE FALSE
    OBVIOUS
  <2>1. PICK m \in C : \A k \in C : m <= k
    <3>1. C \in SUBSET Nat
      BY <1>2
    <3> HIDE DEF C
    <3> QED BY <3>1, LeastNumber
  <2>2. m # 0
    BY <1>1, <1>2, <2>1 DEF Keeps, IsInjective
  <2>3. m - 1 \in 0..Len(q) /\ m \in 1..Len(q) /\ ~(m <= m - 1)
    BY <1>2, <2>1, <2>2
  <2>4. IsInjective(f[m - 1]) /\ f[m - 1] \in Seq(S)
    BY <2>1, <2>3
  <2>5. q[m] \notin ToSet(f[m - 1])
    <3>1. ToSet(f[m - 1]) \subseteq {q[j] : j \in 1..m - 1}
      BY <1>3, <2>3
    <3>2. \A j \in 1..m - 1 : j \in 1..Len(q) /\ j # m
      BY <1>2, <2>3
    <3>3. \A j \in 1..m - 1 : q[j] # q[m]
      BY <1>2, <1>4, <2>3, <3>2 DEF IsInjective
    <3> QED BY <3>1, <3>3
  <2>6. q[m] \in S => IsInjective(Append(f[m - 1], q[m]))
    BY <2>4, <2>5, InjectiveAppend
  <2>7. f[m] = IF q[m] \in U THEN Append(f[m - 1], q[m]) ELSE f[m - 1]
    BY <1>1, <2>2, <2>3 DEF Keeps
  <2> QED BY <1>2, <2>1, <2>3, <2>4, <2>6, <2>7
<1>5. ToSet(q) = {q[j] : j \in 1..Len(q)}
  BY ToSetOfSeq
<1>6. Len(q) \in 0..Len(q)
  BY <1>2
<1> QED BY <1>1, <1>3, <1>4, <1>5, <1>6

\* Two ways of keeping agree as long as they are asked about the same elements.
LEMMA KeepsAgree ==
  ASSUME NEW n \in Nat, NEW f, NEW g, NEW p, NEW q, NEW U, NEW V,
         \A i \in 0..n : Keeps(f, p, U, i), \A i \in 0..n : Keeps(g, q, V, i),
         \A i \in 1..n : p[i] = q[i] /\ (p[i] \in U <=> q[i] \in V)
  PROVE  f[n] = g[n]
<1> DEFINE B == {i \in 0..n : f[i] # g[i]}
<1> SUFFICES ASSUME B # {} PROVE FALSE
  OBVIOUS
<1>1. PICK m \in B : \A k \in B : m <= k
  <2>1. B \in SUBSET Nat
    OBVIOUS
  <2> HIDE DEF B
  <2> QED BY <2>1, LeastNumber
<1>2. m # 0
  BY <1>1 DEF Keeps
<1>3. m - 1 \in 0..n /\ m \in 1..n /\ ~(m <= m - 1)
  BY <1>1, <1>2
<1>4. f[m - 1] = g[m - 1]
  BY <1>1, <1>3
<1>5. /\ f[m] = IF p[m] \in U THEN Append(f[m - 1], p[m]) ELSE f[m - 1]
      /\ g[m] = IF q[m] \in V THEN Append(g[m - 1], q[m]) ELSE g[m - 1]
  BY <1>1, <1>2 DEF Keeps
<1> QED BY <1>1, <1>3, <1>4, <1>5

\* What is kept depends on nothing but the elements there are.
LEMMA OnlyAgree ==
  ASSUME NEW S, NEW q \in Seq(S), NEW U, NEW V, ToSet(q) \cap U = ToSet(q) \cap V
  PROVE  Only(q, U) = Only(q, V)
<1>1. PICK f : Only(q, U) = f[Len(q)] /\ \A i \in 0..Len(q) : Keeps(f, q, U, i)
  BY OnlyKeeps
<1>2. PICK g : Only(q, V) = g[Len(q)] /\ \A i \in 0..Len(q) : Keeps(g, q, V, i)
  BY OnlyKeeps
<1>3. Len(q) \in Nat /\ \A i \in 1..Len(q) : q[i] \in ToSet(q)
  BY LenProperties, ToSetOfSeq
<1>4. \A i \in 1..Len(q) : q[i] \in U <=> q[i] \in V
  BY <1>3
<1>5. f[Len(q)] = g[Len(q)]
  BY <1>1, <1>2, <1>3, <1>4, KeepsAgree
<1> QED BY <1>1, <1>2, <1>5

\* An element that does not count may stand behind the others.
LEMMA OnlyAppendOther ==
  ASSUME NEW S, NEW q \in Seq(S), NEW m \in S, NEW U, m \notin U
  PROVE  Only(Append(q, m), U) = Only(q, U)
<1> DEFINE a == Append(q, m)
           n == Len(q)
<1>1. /\ a \in Seq(S) /\ Len(a) = n + 1 /\ n \in Nat
      /\ a[n + 1] = m /\ \A i \in 1..n : a[i] = q[i]
  BY AppendProperties, LenProperties
<1> HIDE DEF a, n
<1>2. PICK f : Only(a, U) = f[Len(a)] /\ \A i \in 0..Len(a) : Keeps(f, a, U, i)
  BY <1>1, OnlyKeeps
<1>3. PICK g : Only(q, U) = g[n] /\ \A i \in 0..n : Keeps(g, q, U, i)
  BY OnlyKeeps DEF n
<1>4. n + 1 \in 0..Len(a) /\ n + 1 # 0 /\ \A i \in 0..n : i \in 0..Len(a)
  BY <1>1
<1>5. f[n + 1] = f[n]
  <2>1. Keeps(f, a, U, n + 1) /\ n + 1 # 0
    BY <1>2, <1>4
  <2>2. (n + 1) - 1 = n
    BY <1>1
  <2>3. a[n + 1] \notin U
    BY <1>1
  <2>4. f[n + 1] = f[(n + 1) - 1]
    BY <2>1, <2>3 DEF Keeps
  <2> QED BY <2>2, <2>4
<1>6. \A i \in 0..n : Keeps(f, a, U, i)
  BY <1>2, <1>4
<1>7. f[n] = g[n]
  BY <1>1, <1>3, <1>6, KeepsAgree
<1> QED BY <1>1, <1>2, <1>3, <1>5, <1>7 DEF a

LEMMA InjectiveConcat ==
  ASSUME NEW S, NEW p \in Seq(S), NEW q \in Seq(S), IsInjective(p), IsInjective(q),
         ToSet(p) \cap ToSet(q) = {}
  PROVE  IsInjective(p \o q)
<1> DEFINE c == p \o q
<1>1. /\ Len(p) \in Nat /\ Len(q) \in Nat /\ c \in Seq(S) /\ Len(c) = Len(p) + Len(q)
      /\ \A i \in 1..Len(p) + Len(q) : c[i] = IF i <= Len(p) THEN p[i] ELSE q[i - Len(p)]
  BY ConcatProperties, LenProperties
<1>2. DOMAIN c = 1..Len(p) + Len(q) /\ DOMAIN p = 1..Len(p) /\ DOMAIN q = 1..Len(q)
  BY <1>1, LenProperties
<1>3. \A i \in 1..Len(p), j \in 1..Len(q) : p[i] # q[j]
  BY <1>2 DEF ToSet
<1> HIDE DEF c
<1>4. ASSUME NEW i \in DOMAIN c, NEW j \in DOMAIN c, c[i] = c[j] PROVE i = j
  <2>1. i \in Int /\ j \in Int /\ 1 <= i /\ 1 <= j
        /\ i <= Len(p) + Len(q) /\ j <= Len(p) + Len(q)
    BY <1>1, <1>2
  <2>2. CASE i <= Len(p) /\ j <= Len(p)
    <3>1. p[i] = p[j] /\ i \in DOMAIN p /\ j \in DOMAIN p
      BY <1>1, <1>2, <1>4, <2>1, <2>2
    <3> QED BY <3>1 DEF IsInjective
  <2>3. CASE ~(i <= Len(p)) /\ ~(j <= Len(p))
    <3>3. i - Len(p) \in DOMAIN q /\ j - Len(p) \in DOMAIN q
      BY <1>1, <1>2, <2>1, <2>3
    <3>4. i \in 1..Len(p) + Len(q) /\ j \in 1..Len(p) + Len(q)
      BY <1>1, <2>1
    <3>5. c[i] = q[i - Len(p)] /\ c[j] = q[j - Len(p)]
      BY <1>1, <2>3, <3>4
    <3>1. q[i - Len(p)] = q[j - Len(p)]
      BY <1>4, <3>5
    <3>2. i - Len(p) = j - Len(p)
      BY <3>1, <3>3 DEF IsInjective
    <3> QED BY <1>1, <2>1, <3>2
  <2>4. CASE i <= Len(p) /\ ~(j <= Len(p))
    BY <1>1, <1>2, <1>3, <1>4, <2>1, <2>4
  <2>5. CASE ~(i <= Len(p)) /\ j <= Len(p)
    <3>1. j \in 1..Len(p) /\ i - Len(p) \in 1..Len(q)
      BY <1>1, <2>1, <2>5
    <3>2. i \in 1..Len(p) + Len(q) /\ j \in 1..Len(p) + Len(q)
      BY <1>1, <2>1
    <3>3. c[j] = p[j] /\ c[i] = q[i - Len(p)]
      BY <1>1, <2>5, <3>2
    <3> QED BY <1>3, <1>4, <3>1, <3>3
  <2> QED BY <2>2, <2>3, <2>4, <2>5
<1> QED BY <1>4 DEF IsInjective, c

LEMMA InjectiveTail ==
  ASSUME NEW S, NEW q \in Seq(S), q # <<>>, IsInjective(q)
  PROVE  IsInjective(Tail(q))
<1>1. /\ Tail(q) \in Seq(S) /\ Len(Tail(q)) = Len(q) - 1 /\ Len(q) \in Nat
      /\ \A i \in 1..Len(Tail(q)) : Tail(q)[i] = q[i + 1]
  BY HeadTailProperties, LenProperties
<1>2. DOMAIN q = 1..Len(q) /\ DOMAIN Tail(q) = 1..Len(Tail(q))
  BY <1>1, LenProperties
<1>3. ASSUME NEW i \in DOMAIN Tail(q), NEW j \in DOMAIN Tail(q), Tail(q)[i] = Tail(q)[j]
      PROVE i = j
  <2>1. i \in Int /\ j \in Int /\ i + 1 \in DOMAIN q /\ j + 1 \in DOMAIN q
        /\ q[i + 1] = q[j + 1]
    BY <1>1, <1>2, <1>3
  <2>2. i + 1 = j + 1
    BY <2>1 DEF IsInjective
  <2> QED BY <2>1, <2>2
<1> QED BY <1>3 DEF IsInjective

LEMMA HeadNotInTail ==
  ASSUME NEW S, NEW q \in Seq(S), q # <<>>, IsInjective(q)
  PROVE  Head(q) \notin ToSet(Tail(q))
<1>1. /\ Tail(q) \in Seq(S) /\ Len(Tail(q)) = Len(q) - 1 /\ Len(q) \in Nat /\ Head(q) = q[1]
      /\ \A i \in 1..Len(Tail(q)) : Tail(q)[i] = q[i + 1]
  BY HeadTailProperties, LenProperties
<1>2. DOMAIN q = 1..Len(q) /\ DOMAIN Tail(q) = 1..Len(Tail(q)) /\ 1 \in 1..Len(q)
  <2>1. Len(q) # 0
    BY EmptySeq
  <2> QED BY <1>1, <2>1, LenProperties
<1> SUFFICES ASSUME NEW i \in DOMAIN Tail(q), Tail(q)[i] = q[1] PROVE FALSE
  BY <1>1 DEF ToSet
<1>3. i + 1 \in DOMAIN q /\ q[i + 1] = q[1] /\ i + 1 # 1
  BY <1>1, <1>2
<1> QED BY <1>2, <1>3 DEF IsInjective

LEMMA InjectiveSuffix ==
  ASSUME NEW S, NEW q \in Seq(S), NEW n \in 0..Len(q), IsInjective(q)
  PROVE  IsInjective(SubSeq(q, n + 1, Len(q)))
<1> DEFINE u == SubSeq(q, n + 1, Len(q))
<1>1. Len(q) \in Nat /\ n \in Nat /\ n <= Len(q) /\ DOMAIN q = 1..Len(q)
  BY LenProperties
<1>2. /\ u \in Seq(S)
      /\ Len(u) = IF n + 1 <= Len(q) THEN Len(q) - (n + 1) + 1 ELSE 0
      /\ \A i \in 1..Len(q) - (n + 1) + 1 : u[i] = q[n + 1 + i - 1]
  <2>1. \A i \in (n + 1)..Len(q) : q[i] \in S
    BY <1>1, ElementOfSeq
  <2>2. n + 1 \in Int /\ Len(q) \in Int
    BY <1>1
  <2> DEFINE a == n + 1
             l == Len(q)
  <2>3. a \in Int /\ l \in Int /\ \A i \in a..l : q[i] \in S
    BY <2>1, <2>2
  <2>4. u = SubSeq(q, a, l)
    OBVIOUS
  <2> HIDE DEF a, l, u
  <2>5. /\ SubSeq(q, a, l) \in Seq(S)
        /\ Len(SubSeq(q, a, l)) = IF a <= l THEN l - a + 1 ELSE 0
        /\ \A i \in 1..l - a + 1 : SubSeq(q, a, l)[i] = q[a + i - 1]
    BY <2>3, SubSeqProperties
  <2> QED BY <2>4, <2>5 DEF a, l
<1>3. DOMAIN u = 1..Len(u)
  BY <1>2, LenProperties
<1> HIDE DEF u
<1>4. ASSUME NEW i \in DOMAIN u, NEW j \in DOMAIN u, u[i] = u[j] PROVE i = j
  <2>1. i \in 1..Len(q) - n /\ j \in 1..Len(q) - n
    <3>1. \A b, k \in Int : b - (k + 1) + 1 = b - k
      OBVIOUS
    <3>2. \A b, k \in Int : k <= b /\ ~(k + 1 <= b) => b - k = 0
      OBVIOUS
    <3>3. Len(q) \in Int /\ n \in Int
      BY <1>1
    <3>4. Len(u) = Len(q) - n
      BY <1>1, <1>2, <3>1, <3>2, <3>3, Zenon
    <3> QED BY <1>3, <3>4
  <2>2. /\ i \in 1..Len(q) - (n + 1) + 1 /\ j \in 1..Len(q) - (n + 1) + 1
        /\ n + 1 + i - 1 = n + i /\ n + 1 + j - 1 = n + j
        /\ n + i \in DOMAIN q /\ n + j \in DOMAIN q
    <3>1. \A l \in Nat : \A k \in 1..l - n :
            k \in 1..l - (n + 1) + 1 /\ n + 1 + k - 1 = n + k /\ n + k \in 1..l
      BY <1>1
    <3> QED BY <1>1, <2>1, <3>1
  <2>3. u[i] = q[n + i] /\ u[j] = q[n + j]
    <3>1. u[i] = q[n + 1 + i - 1] /\ u[j] = q[n + 1 + j - 1]
      BY <1>2, <2>2
    <3> QED BY <2>2, <3>1
  <2>4. n + i = n + j
    BY <1>4, <2>2, <2>3 DEF IsInjective
  <2> QED BY <1>1, <2>1, <2>4
<1> QED BY <1>4 DEF IsInjective, u

-----------------------------------------------------------------------------
(* Where the elements of a concatenation come from *)

LEMMA ConcatPlaces ==
  ASSUME NEW S, NEW p \in Seq(S), NEW q \in Seq(S)
  PROVE  /\ Len(p) \in Nat
         /\ \A i \in DOMAIN (p \o q) :
              \/ i \in DOMAIN p /\ i \in 1..Len(p) /\ (p \o q)[i] = p[i]
              \/ /\ i \in Int /\ i > Len(p) /\ i - Len(p) \in DOMAIN q
                 /\ (p \o q)[i] = q[i - Len(p)]
         /\ \A i \in DOMAIN p : i \in DOMAIN (p \o q) /\ i \in 1..Len(p) /\ (p \o q)[i] = p[i]
         /\ \A j \in DOMAIN q : /\ j \in Nat \ {0} /\ Len(p) + j \in DOMAIN (p \o q)
                                /\ (p \o q)[Len(p) + j] = q[j]
<1> DEFINE c == p \o q
<1>1. /\ Len(p) \in Nat /\ Len(q) \in Nat /\ c \in Seq(S) /\ Len(c) = Len(p) + Len(q)
      /\ \A i \in 1..Len(p) + Len(q) : c[i] = IF i <= Len(p) THEN p[i] ELSE q[i - Len(p)]
  BY ConcatProperties, LenProperties
<1>2. DOMAIN c = 1..Len(p) + Len(q) /\ DOMAIN p = 1..Len(p) /\ DOMAIN q = 1..Len(q)
  BY <1>1, LenProperties
<1> HIDE DEF c
<1>3. ASSUME NEW i \in DOMAIN c
      PROVE  \/ i \in DOMAIN p /\ i \in 1..Len(p) /\ c[i] = p[i]
             \/ i \in Int /\ i > Len(p) /\ i - Len(p) \in DOMAIN q /\ c[i] = q[i - Len(p)]
  <2>1. CASE i <= Len(p)
    BY <1>1, <1>2, <2>1
  <2>2. CASE ~(i <= Len(p))
    <3>1. i \in Int /\ i > Len(p) /\ i - Len(p) \in 1..Len(q)
      BY <1>1, <1>2, <2>2
    <3>2. c[i] = q[i - Len(p)]
      BY <1>1, <1>2, <2>2
    <3> QED BY <1>2, <3>1, <3>2
  <2> QED BY <2>1, <2>2
<1>4. ASSUME NEW i \in DOMAIN p PROVE i \in DOMAIN c /\ i \in 1..Len(p) /\ c[i] = p[i]
  BY <1>1, <1>2
<1>5. ASSUME NEW j \in DOMAIN q
      PROVE  j \in Nat \ {0} /\ Len(p) + j \in DOMAIN c /\ c[Len(p) + j] = q[j]
  <2>1. j \in Nat \ {0} /\ Len(p) + j \in DOMAIN c /\ ~(Len(p) + j <= Len(p))
        /\ (Len(p) + j) - Len(p) = j
    BY <1>1, <1>2
  <2>2. c[Len(p) + j] = q[(Len(p) + j) - Len(p)]
    BY <1>1, <1>2, <2>1
  <2> QED BY <2>1, <2>2
<1> QED BY <1>1, <1>3, <1>4, <1>5 DEF c

\* The two parts of a sequence without repetition.
LEMMA InjectiveParts ==
  ASSUME NEW S, NEW p \in Seq(S), NEW q \in Seq(S), IsInjective(p \o q)
  PROVE  IsInjective(p) /\ IsInjective(q) /\ ToSet(p) \cap ToSet(q) = {}
<1> DEFINE c == p \o q
<1>1. /\ Len(p) \in Nat
      /\ \A i \in DOMAIN p : i \in DOMAIN c /\ i \in 1..Len(p) /\ c[i] = p[i]
      /\ \A j \in DOMAIN q : j \in Nat \ {0} /\ Len(p) + j \in DOMAIN c /\ c[Len(p) + j] = q[j]
  BY ConcatPlaces
<1> HIDE DEF c
<1>2. \A i, j \in DOMAIN c : c[i] = c[j] => i = j
  BY DEF IsInjective, c
<1>3. IsInjective(p)
  BY <1>1, <1>2 DEF IsInjective
<1>4. ASSUME NEW i \in DOMAIN q, NEW j \in DOMAIN q, q[i] = q[j] PROVE i = j
  <2>1. Len(p) + i = Len(p) + j
    BY <1>1, <1>2, <1>4
  <2> QED BY <1>1, <2>1
<1>5. ASSUME NEW i \in DOMAIN p, NEW j \in DOMAIN q, p[i] = q[j] PROVE FALSE
  <2>1. i = Len(p) + j
    BY <1>1, <1>2, <1>5
  <2> QED BY <1>1, <2>1
<1> QED BY <1>3, <1>4, <1>5 DEF IsInjective, ToSet

\* A sequence without repetition is as long as it has elements.
LEMMA InjectiveLength ==
  ASSUME NEW S, NEW q \in Seq(S), IsInjective(q)
  PROVE  IsFiniteSet(ToSet(q)) /\ Cardinality(ToSet(q)) = Len(q)
<1>1. Len(q) \in Nat /\ DOMAIN q = 1..Len(q) /\ q \in [1..Len(q) -> S]
  BY LenProperties, SeqDef
<1>2. ToSet(q) = {q[i] : i \in 1..Len(q)}
  BY ToSetOfSeq
<1>3. q \in Bijection(1..Len(q), ToSet(q))
  <2>1. q \in [1..Len(q) -> ToSet(q)]
    BY <1>1, <1>2
  <2> QED BY <1>1, <1>2, <2>1 DEF Bijection, Injection, Surjection, IsInjective
<1>4. ExistsBijection(1..Len(q), ToSet(q))
  BY <1>3 DEF ExistsBijection
<1>5. IsFiniteSet(1..Len(q)) /\ Cardinality(1..Len(q)) = Len(q)
  BY <1>1, FS_Interval
<1> QED BY <1>4, <1>5, FS_Bijection

-----------------------------------------------------------------------------
(* Sequences in which only elements of a set occur twice *)

RepeatsIn(q, E) == \A i, j \in DOMAIN q : i # j /\ q[i] = q[j] => q[i] \in E

LEMMA RepeatsConcat ==
  ASSUME NEW S, NEW p \in Seq(S), NEW q \in Seq(S), NEW E, RepeatsIn(p, E),
         IsInjective(q), ToSet(p) \cap ToSet(q) \subseteq E
  PROVE  RepeatsIn(p \o q, E)
<1> DEFINE c == p \o q
<1>1. /\ Len(p) \in Nat
      /\ \A i \in DOMAIN c :
           \/ i \in DOMAIN p /\ i \in 1..Len(p) /\ c[i] = p[i]
           \/ i \in Int /\ i > Len(p) /\ i - Len(p) \in DOMAIN q /\ c[i] = q[i - Len(p)]
  BY ConcatPlaces
<1> HIDE DEF c
<1> SUFFICES ASSUME NEW i \in DOMAIN c, NEW j \in DOMAIN c, i # j, c[i] = c[j]
             PROVE  c[i] \in E
  BY DEF RepeatsIn, c
<1>2. CASE i \in DOMAIN p /\ c[i] = p[i]
  <2>1. CASE j \in DOMAIN p /\ c[j] = p[j]
    BY <1>2, <2>1 DEF RepeatsIn
  <2>2. CASE j - Len(p) \in DOMAIN q /\ c[j] = q[j - Len(p)]
    BY <1>2, <2>2 DEF ToSet
  <2> QED BY <1>1, <2>1, <2>2
<1>3. CASE i \in Int /\ i - Len(p) \in DOMAIN q /\ c[i] = q[i - Len(p)]
  <2>1. CASE j \in DOMAIN p /\ c[j] = p[j]
    BY <1>3, <2>1 DEF ToSet
  <2>2. CASE j \in Int /\ j - Len(p) \in DOMAIN q /\ c[j] = q[j - Len(p)]
    <3>1. i - Len(p) = j - Len(p)
      BY <1>3, <2>2 DEF IsInjective
    <3> QED BY <1>1, <1>3, <2>2, <3>1
  <2> QED BY <1>1, <2>1, <2>2
<1> QED BY <1>1, <1>2, <1>3

LEMMA RepeatsAppend ==
  ASSUME NEW S, NEW q \in Seq(S), NEW m \in S, NEW E, RepeatsIn(q, E),
         m \in ToSet(q) => m \in E
  PROVE  RepeatsIn(Append(q, m), E)
<1> DEFINE a == Append(q, m)
<1>1. /\ Len(q) \in Nat /\ a \in Seq(S) /\ Len(a) = Len(q) + 1
      /\ \A i \in 1..Len(q) : a[i] = q[i]
      /\ a[Len(q) + 1] = m
  BY AppendProperties, LenProperties
<1>2. DOMAIN a = 1..Len(q) + 1 /\ DOMAIN q = 1..Len(q)
  BY <1>1, LenProperties
<1> HIDE DEF a
<1> SUFFICES ASSUME NEW i \in DOMAIN a, NEW j \in DOMAIN a, i # j, a[i] = a[j]
             PROVE  a[i] \in E
  BY DEF RepeatsIn, a
<1>3. CASE i \in DOMAIN q /\ j \in DOMAIN q
  BY <1>1, <1>2, <1>3 DEF RepeatsIn
<1>4. CASE i = Len(q) + 1 \/ j = Len(q) + 1
  <2>1. a[i] = m /\ (i \in DOMAIN q \/ j \in DOMAIN q)
    BY <1>1, <1>2, <1>4
  <2>2. m \in ToSet(q)
    BY <1>1, <1>2, <2>1 DEF ToSet
  <2> QED BY <2>1, <2>2
<1> QED BY <1>1, <1>2, <1>3, <1>4

-----------------------------------------------------------------------------
(* Sequences in which the elements of one lane are in the order of their ranks *)

InOrder(q, l, r) == \A i, j \in DOMAIN q : i < j /\ l[q[i]] = l[q[j]] => r[q[i]] < r[q[j]]

LEMMA OrderAppend ==
  ASSUME NEW S, NEW q \in Seq(S), NEW m \in S, NEW l, NEW r, InOrder(q, l, r),
         \A x \in ToSet(q) : r[x] < r[m]
  PROVE  InOrder(Append(q, m), l, r)
<1> DEFINE a == Append(q, m)
<1>1. /\ Len(q) \in Nat /\ a \in Seq(S) /\ Len(a) = Len(q) + 1
      /\ \A i \in 1..Len(q) : a[i] = q[i]
      /\ a[Len(q) + 1] = m
  BY AppendProperties, LenProperties
<1>2. DOMAIN a = 1..Len(q) + 1 /\ DOMAIN q = 1..Len(q)
  BY <1>1, LenProperties
<1> HIDE DEF a
<1> SUFFICES ASSUME NEW i \in DOMAIN a, NEW j \in DOMAIN a, i < j, l[a[i]] = l[a[j]]
             PROVE  r[a[i]] < r[a[j]]
  BY DEF InOrder, a
<1>3. CASE j \in DOMAIN q
  <2>1. i \in DOMAIN q
    BY <1>1, <1>2, <1>3
  <2> QED BY <1>1, <1>2, <1>3, <2>1 DEF InOrder
<1>4. CASE j = Len(q) + 1
  <2>1. i \in DOMAIN q /\ a[i] = q[i] /\ a[j] = m
    BY <1>1, <1>2, <1>4
  <2> QED BY <2>1 DEF ToSet
<1> QED BY <1>1, <1>2, <1>3, <1>4

LEMMA OrderConcat ==
  ASSUME NEW S, NEW p \in Seq(S), NEW q \in Seq(S), NEW l, NEW r,
         InOrder(p, l, r), InOrder(q, l, r),
         \A x \in ToSet(p), y \in ToSet(q) : l[x] # l[y]
  PROVE  InOrder(p \o q, l, r)
<1> DEFINE c == p \o q
<1>1. /\ Len(p) \in Nat
      /\ \A i \in DOMAIN c :
           \/ i \in DOMAIN p /\ i \in 1..Len(p) /\ c[i] = p[i]
           \/ i \in Int /\ i > Len(p) /\ i - Len(p) \in DOMAIN q /\ c[i] = q[i - Len(p)]
  BY ConcatPlaces
<1> HIDE DEF c
<1> SUFFICES ASSUME NEW i \in DOMAIN c, NEW j \in DOMAIN c, i < j, l[c[i]] = l[c[j]]
             PROVE  r[c[i]] < r[c[j]]
  BY DEF InOrder, c
<1>2. CASE i \in DOMAIN p /\ i \in 1..Len(p) /\ c[i] = p[i]
  <2>1. CASE j \in DOMAIN p /\ c[j] = p[j]
    BY <1>2, <2>1 DEF InOrder
  <2>2. CASE j - Len(p) \in DOMAIN q /\ c[j] = q[j - Len(p)]
    BY <1>2, <2>2 DEF ToSet
  <2> QED BY <1>1, <2>1, <2>2
<1>3. CASE i \in Int /\ i > Len(p) /\ i - Len(p) \in DOMAIN q /\ c[i] = q[i - Len(p)]
  <2>1. CASE j \in 1..Len(p)
    BY <1>1, <1>3, <2>1
  <2>2. CASE j \in Int /\ j - Len(p) \in DOMAIN q /\ c[j] = q[j - Len(p)]
    <3>1. i - Len(p) < j - Len(p)
      BY <1>1, <1>3, <2>2
    <3> QED BY <1>3, <2>2, <3>1 DEF InOrder
  <2> QED BY <1>1, <2>1, <2>2
<1> QED BY <1>1, <1>2, <1>3

LEMMA OrderSuffix ==
  ASSUME NEW S, NEW p \in Seq(S), NEW q \in Seq(S), NEW l, NEW r, InOrder(p \o q, l, r)
  PROVE  InOrder(q, l, r)
<1> DEFINE c == p \o q
<1>1. /\ Len(p) \in Nat
      /\ \A j \in DOMAIN q : j \in Nat \ {0} /\ Len(p) + j \in DOMAIN c /\ c[Len(p) + j] = q[j]
  BY ConcatPlaces
<1>2. InOrder(c, l, r)
  OBVIOUS
<1> HIDE DEF c
<1> SUFFICES ASSUME NEW i \in DOMAIN q, NEW j \in DOMAIN q, i < j, l[q[i]] = l[q[j]]
             PROVE  r[q[i]] < r[q[j]]
  BY DEF InOrder
<1>3. Len(p) + i < Len(p) + j
  BY <1>1
<1>4. /\ Len(p) + i \in DOMAIN c /\ c[Len(p) + i] = q[i]
      /\ Len(p) + j \in DOMAIN c /\ c[Len(p) + j] = q[j]
  BY <1>1
<1> QED BY <1>2, <1>3, <1>4 DEF InOrder

LEMMA OrderTail ==
  ASSUME NEW S, NEW q \in Seq(S), q # <<>>, NEW l, NEW r, InOrder(q, l, r)
  PROVE  InOrder(Tail(q), l, r)
<1>1. /\ Tail(q) \in Seq(S) /\ Len(Tail(q)) = Len(q) - 1 /\ Len(q) \in Nat
      /\ \A i \in 1..Len(Tail(q)) : Tail(q)[i] = q[i + 1]
  BY HeadTailProperties, LenProperties
<1>2. DOMAIN q = 1..Len(q) /\ DOMAIN Tail(q) = 1..Len(Tail(q))
  BY <1>1, LenProperties
<1> SUFFICES ASSUME NEW i \in DOMAIN Tail(q), NEW j \in DOMAIN Tail(q), i < j,
                    l[Tail(q)[i]] = l[Tail(q)[j]]
             PROVE  r[Tail(q)[i]] < r[Tail(q)[j]]
  BY DEF InOrder
<1>3. i + 1 \in DOMAIN q /\ j + 1 \in DOMAIN q /\ i + 1 < j + 1
  BY <1>1, <1>2
<1>4. Tail(q)[i] = q[i + 1] /\ Tail(q)[j] = q[j + 1]
  BY <1>1, <1>2
<1> QED BY <1>3, <1>4 DEF InOrder

LEMMA OrderSame ==
  ASSUME NEW S, NEW q \in Seq(S), NEW l, NEW r, NEW l2, NEW r2, InOrder(q, l, r),
         \A x \in ToSet(q) : l2[x] = l[x] /\ r2[x] = r[x]
  PROVE  InOrder(q, l2, r2)
BY DEF InOrder, ToSet

-----------------------------------------------------------------------------
(* The session record *)

\* The bounded receipt history: the newest entries stay.
LEMMA TrimType ==
  ASSUME NEW q \in Seq(Message)
  PROVE  Trim(q) \in Seq(Message) /\ Len(Trim(q)) <= ReceiptLimit
<1>1. Len(q) \in Nat /\ ReceiptLimit \in Nat
  BY LenProperties, SessionConstants
<1>2. CASE Len(q) > ReceiptLimit
  <2> DEFINE a == Len(q) - ReceiptLimit + 1
  <2>1. a \in Int /\ Len(q) \in Int /\ a >= 1
    BY <1>1, <1>2
  <2>2. \A i \in a..Len(q) : q[i] \in Message
    BY <2>1, <1>1, ElementOfSeq
  <2>3. /\ SubSeq(q, a, Len(q)) \in Seq(Message)
        /\ Len(SubSeq(q, a, Len(q))) = IF a <= Len(q) THEN Len(q) - a + 1 ELSE 0
    <3> HIDE DEF a
    <3> QED BY <2>1, <2>2, SubSeqProperties
  <2> QED BY <1>1, <1>2, <2>3 DEF Trim
<1>3. CASE ~(Len(q) > ReceiptLimit)
  BY <1>1, <1>3 DEF Trim
<1> QED BY <1>2, <1>3

LEMMA RoutedType ==
  ASSUME NEW s \in Session, NEW m \in Message, NEW d,
         Len(s.receipts) <= ReceiptLimit
  PROVE  /\ Routed(s, m, d) \in Session
         /\ Len(Routed(s, m, d).receipts) <= ReceiptLimit
<1>1. /\ Append(s.receipts, m) \in Seq(Message)
      /\ Append(s.queue, m) \in Seq(Message)
      /\ Append(s.pending, m) \in Seq(Message)
  BY AppendProperties DEF Session
<1>2. /\ Trim(Append(s.receipts, m)) \in Seq(Message)
      /\ Len(Trim(Append(s.receipts, m))) <= ReceiptLimit
  BY <1>1, TrimType
<1> QED BY <1>1, <1>2 DEF Routed, Enqueued, MadePending, Session

LEMMA AtHeadType ==
  ASSUME NEW s \in Session, NEW q \in Seq(Message)
  PROVE  AtHead(s, q) \in Session
BY ConcatProperties DEF AtHead, Session

\* The terminal transition, field by field.
LEMMA EndedFields ==
  ASSUME NEW s \in Session, NEW p \in Phase
  PROVE  /\ Ended(s, p) \in Session
         /\ Ended(s, p).run = s.run
         /\ Ended(s, p).phase = p
         /\ Ended(s, p).queue = s.pending \o s.queue
         /\ Ended(s, p).pending = <<>>
         /\ Ended(s, p).receipts = s.receipts
         /\ Ended(s, p).approvals = {}
<1>1. <<>> \in Seq(Message) /\ s.pending \o s.queue \in Seq(Message)
  BY EmptySeq, ConcatProperties DEF Session
<1>2. Ended(s, p) \in Session
  BY <1>1 DEF Ended, ApprovalsExpired, Deferred, AtHead, Session
<1>3. /\ Ended(s, p).run = s.run
      /\ Ended(s, p).phase = p
      /\ Ended(s, p).queue = s.pending \o s.queue
      /\ Ended(s, p).pending = <<>>
      /\ Ended(s, p).receipts = s.receipts
      /\ Ended(s, p).approvals = {}
  BY DEF Ended, ApprovalsExpired, Deferred, AtHead, Session
<1> QED BY <1>2, <1>3

LEMMA StartedType ==
  ASSUME NEW s \in Session, NEW r \in Run, NEW rn \in Runner, s.queue # <<>>
  PROVE  Started(s, r, rn) \in Session
BY HeadTailProperties DEF Started, Session, Phase
=============================================================================
