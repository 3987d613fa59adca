------------------------------ MODULE SumTheorems ------------------------------
(***************************************************************************)
(* What a proof needs of a sum over a finite set, SumFunction of the       *)
(* community modules: how it follows a change of one summand.  The modules *)
(* keep sums of money this way, of contracts and of the demonstration.     *)
(* And what it needs of FoldLeft, by which a manifest is built of events.  *)
(*                                                                         *)
(* The proofs go by induction on the subsets of a finite set: a set of the *)
(* subsets that are good, closed under going up from all proper subsets,   *)
(* has every subset.                                                       *)
(***************************************************************************)
EXTENDS FiniteSetsExt, FiniteSetTheorems, TLAPS

\* Every subset of a finite set has what a set inherits from its proper subsets.
LEMMA SubsetInduction ==
    ASSUME NEW S, IsFiniteSet(S), NEW Good,
           \A T \in SUBSET S : (\A U \in SUBSET T : U # T => U \in Good) => T \in Good
    PROVE  SUBSET S \subseteq Good
<1>1. IsWellFoundedOn(StrictSubsetOrdering(S), SUBSET S)
    BY FS_StrictSubsetOrderingWellFounded, FS_FiniteSubsetsOfFinite
<1> DEFINE Bad == {T \in SUBSET S : T \notin Good}
<1>2. SUFFICES ASSUME Bad # {}
               PROVE  FALSE
    OBVIOUS
<1>3. Bad \subseteq SUBSET S
    OBVIOUS
<1> HIDE DEF Bad
<1>4. PICK T \in Bad : \A U \in Bad : <<U, T>> \notin StrictSubsetOrdering(S)
    BY <1>1, <1>2, <1>3, WFMin
<1>5. \A U \in SUBSET T : U # T => U \in Good
    BY <1>3, <1>4 DEF StrictSubsetOrdering, Bad
<1> QED
    BY <1>4, <1>5 DEF Bad

\* The element that the fold of the community modules takes out first.
First(T) == CHOOSE x \in T : TRUE

\* g holds the sum of a over every subset of S.
SumTable(a, S, g) ==
    g = [T \in SUBSET S |-> IF T = {} THEN 0 ELSE a[First(T)] + g[T \ {First(T)}]]

LEMMA SumIsTable ==
    ASSUME NEW a, NEW S
    PROVE  SumFunctionOnSet(a, S) = (CHOOSE g : SumTable(a, S, g))[S]
BY DEF SumFunctionOnSet, FoldFunctionOnSet, MapThenFoldSet, SumTable, First

LEMMA FirstIn == \A T : T # {} => First(T) \in T
BY DEF First

LEMMA TableUnique ==
    ASSUME NEW S, IsFiniteSet(S), NEW a, NEW g, SumTable(a, S, g), NEW h, SumTable(a, S, h)
    PROVE  g = h
<1> DEFINE Same == {T \in SUBSET S : g[T] = h[T]}
<1>1. \A T \in SUBSET S : (\A U \in SUBSET T : U # T => U \in Same) => T \in Same
    <2> SUFFICES ASSUME NEW T \in SUBSET S, \A U \in SUBSET T : U # T => U \in Same
                 PROVE  g[T] = h[T]
        OBVIOUS
    <2>1. T # {} => g[T \ {First(T)}] = h[T \ {First(T)}]
        BY FirstIn
    <2> QED
        BY <2>1 DEF SumTable
<1> HIDE DEF Same
<1>2. SUBSET S \subseteq Same
    BY <1>1, SubsetInduction
<1>3. \A T \in SUBSET S : g[T] = h[T]
    BY <1>2 DEF Same
<1> QED
    BY <1>3 DEF SumTable

LEMMA TableRestricts ==
    ASSUME NEW S, NEW a, NEW g, SumTable(a, S, g), NEW V \in SUBSET S
    PROVE  SumTable(a, V, [T \in SUBSET V |-> g[T]])
<1> DEFINE h == [T \in SUBSET V |-> g[T]]
<1>1. ASSUME NEW T \in SUBSET V
      PROVE  h[T] = IF T = {} THEN 0 ELSE a[First(T)] + h[T \ {First(T)}]
    <2>1. T \in SUBSET S /\ T \ {First(T)} \in SUBSET V
        OBVIOUS
    <2>2. h[T] = g[T] /\ h[T \ {First(T)}] = g[T \ {First(T)}]
        BY <2>1
    <2> QED
        BY <2>1, <2>2 DEF SumTable
<1> QED
    BY <1>1 DEF SumTable

LEMMA TableHoldsSums ==
    ASSUME NEW S, IsFiniteSet(S), NEW a, NEW g, SumTable(a, S, g), NEW V \in SUBSET S
    PROVE  g[V] = SumFunctionOnSet(a, V)
<1> DEFINE h == [T \in SUBSET V |-> g[T]]
           c == CHOOSE t : SumTable(a, V, t)
<1>1. SumTable(a, V, h)
    BY TableRestricts
<1>2. SumTable(a, V, c)
    BY <1>1
<1>3. IsFiniteSet(V)
    BY FS_Subset
<1> HIDE DEF h, c
<1>4. h = c
    BY <1>1, <1>2, <1>3, TableUnique
<1>5. h[V] = g[V]
    BY DEF h
<1> QED
    BY <1>4, <1>5, SumIsTable DEF c

LEMMA TableExists ==
    ASSUME NEW S, IsFiniteSet(S), NEW a
    PROVE  \E g : SumTable(a, S, g)
<1> DEFINE Have == {T \in SUBSET S : \E g : SumTable(a, T, g)}
           Sum(T) == SumFunctionOnSet(a, T)
<1>1. \A T \in SUBSET S : (\A U \in SUBSET T : U # T => U \in Have) => T \in Have
    <2> SUFFICES ASSUME NEW T \in SUBSET S, \A U \in SUBSET T : U # T => U \in Have
                 PROVE  \E g : SumTable(a, T, g)
        OBVIOUS
    <2> DEFINE Step(V) == IF V = {} THEN 0 ELSE a[First(V)] + Sum(V \ {First(V)})
               g == [V \in SUBSET T |-> Step(V)]
    <2>1. ASSUME NEW V \in SUBSET T, V # T
          PROVE  Sum(V) = Step(V)
        <3>1. PICK t : SumTable(a, V, t)
            BY <2>1
        <3>2. IsFiniteSet(V)
            BY FS_Subset
        <3>3. V \in SUBSET V /\ V \ {First(V)} \in SUBSET V
            OBVIOUS
        <3>4. t[V] = Sum(V) /\ t[V \ {First(V)}] = Sum(V \ {First(V)})
            BY <3>1, <3>2, <3>3, TableHoldsSums
        <3> QED
            BY <3>1, <3>3, <3>4 DEF SumTable
    <2>2. ASSUME NEW V \in SUBSET T, V # {}
          PROVE  g[V \ {First(V)}] = Sum(V \ {First(V)})
        <3>1. V \ {First(V)} \in SUBSET T /\ V \ {First(V)} # T
            BY <2>2, FirstIn
        <3> HIDE DEF Step
        <3> QED
            BY <3>1, <2>1
    <2>3. SumTable(a, T, g)
        <3>1. ASSUME NEW V \in SUBSET T
              PROVE  Step(V) = IF V = {} THEN 0 ELSE a[First(V)] + g[V \ {First(V)}]
            <4> HIDE DEF g
            <4> QED
                BY <2>2
        <3> HIDE DEF Step
        <3> QED
            BY <3>1 DEF SumTable
    <2> QED
        BY <2>3
<1> HIDE DEF Have
<1>2. SUBSET S \subseteq Have
    BY <1>1, SubsetInduction
<1> QED
    BY <1>2 DEF Have

LEMMA SumEquation ==
    ASSUME NEW S, IsFiniteSet(S), NEW a
    PROVE  SumFunctionOnSet(a, S) =
                IF S = {} THEN 0
                ELSE a[First(S)] + SumFunctionOnSet(a, S \ {First(S)})
<1>1. PICK g : SumTable(a, S, g)
    BY TableExists
<1>2. S \in SUBSET S /\ S \ {First(S)} \in SUBSET S
    OBVIOUS
<1>3. g[S] = SumFunctionOnSet(a, S) /\ g[S \ {First(S)}] = SumFunctionOnSet(a, S \ {First(S)})
    BY <1>1, <1>2, TableHoldsSums
<1> QED
    BY <1>1, <1>2, <1>3 DEF SumTable

\* A sum of naturals is a natural.
LEMMA SumType ==
    ASSUME NEW S, IsFiniteSet(S), NEW a, \A x \in S : a[x] \in Nat
    PROVE  SumFunctionOnSet(a, S) \in Nat
<1> DEFINE Typed == {T \in SUBSET S : SumFunctionOnSet(a, T) \in Nat}
<1>1. \A T \in SUBSET S : (\A U \in SUBSET T : U # T => U \in Typed) => T \in Typed
    <2> SUFFICES ASSUME NEW T \in SUBSET S, \A U \in SUBSET T : U # T => U \in Typed
                 PROVE  SumFunctionOnSet(a, T) \in Nat
        OBVIOUS
    <2>1. IsFiniteSet(T)
        BY FS_Subset
    <2>2. SumFunctionOnSet(a, T) =
            IF T = {} THEN 0 ELSE a[First(T)] + SumFunctionOnSet(a, T \ {First(T)})
        BY <2>1, SumEquation
    <2>3. CASE T # {}
        <3>1. a[First(T)] \in Nat /\ SumFunctionOnSet(a, T \ {First(T)}) \in Nat
            BY <2>3, FirstIn
        <3> QED
            BY <2>2, <2>3, <3>1
    <2> QED
        BY <2>2, <2>3
<1> HIDE DEF Typed
<1>2. SUBSET S \subseteq Typed
    BY <1>1, SubsetInduction
<1> QED
    BY <1>2 DEF Typed

\* Any element can be taken out of a sum.
LEMMA SumRemove ==
    ASSUME NEW S, IsFiniteSet(S), NEW a, \A x \in S : a[x] \in Nat, NEW k \in S
    PROVE  SumFunctionOnSet(a, S) = a[k] + SumFunctionOnSet(a, S \ {k})
<1> DEFINE Sum(T) == SumFunctionOnSet(a, T)
           Good == {T \in SUBSET S : \A x \in T : Sum(T) = a[x] + Sum(T \ {x})}
<1>1. \A T \in SUBSET S : (\A U \in SUBSET T : U # T => U \in Good) => T \in Good
    <2> SUFFICES ASSUME NEW T \in SUBSET S, \A U \in SUBSET T : U # T => U \in Good,
                        NEW x \in T
                 PROVE  Sum(T) = a[x] + Sum(T \ {x})
        OBVIOUS
    <2> DEFINE p == First(T)
    <2>1. p \in T
        BY FirstIn
    <2>2. Sum(T) = a[p] + Sum(T \ {p})
        BY FS_Subset, SumEquation
    <2> HIDE DEF p
    <2>3. CASE x = p
        BY <2>2, <2>3
    <2>4. CASE x # p
        <3>1. T \ {p} \in Good /\ T \ {x} \in Good
            BY <2>1
        <3>2. x \in T \ {p} /\ p \in T \ {x}
            BY <2>1, <2>4
        <3>3. (T \ {p}) \ {x} = (T \ {x}) \ {p}
            OBVIOUS
        <3> DEFINE R == (T \ {p}) \ {x}
        <3>4. Sum(T \ {p}) = a[x] + Sum(R) /\ Sum(T \ {x}) = a[p] + Sum(R)
            BY <3>1, <3>2, <3>3
        <3>5. Sum(R) \in Nat
            BY FS_Subset, SumType
        <3>6. a[p] \in Nat /\ a[x] \in Nat
            BY <2>1
        <3> HIDE DEF R, Sum, Good
        <3> QED
            BY <2>2, <3>4, <3>5, <3>6
    <2> QED
        BY <2>3, <2>4
<1> HIDE DEF Good
<1>2. SUBSET S \subseteq Good
    BY <1>1, SubsetInduction
<1> QED
    BY <1>2 DEF Good

\* A sum depends only on the values at the elements summed.
LEMMA SumSame ==
    ASSUME NEW S, IsFiniteSet(S), NEW a, NEW b, \A x \in S : a[x] = b[x]
    PROVE  SumFunctionOnSet(a, S) = SumFunctionOnSet(b, S)
<1> DEFINE Same == {T \in SUBSET S : SumFunctionOnSet(a, T) = SumFunctionOnSet(b, T)}
<1>1. \A T \in SUBSET S : (\A U \in SUBSET T : U # T => U \in Same) => T \in Same
    <2> SUFFICES ASSUME NEW T \in SUBSET S, \A U \in SUBSET T : U # T => U \in Same
                 PROVE  SumFunctionOnSet(a, T) = SumFunctionOnSet(b, T)
        OBVIOUS
    <2>1. IsFiniteSet(T)
        BY FS_Subset
    <2>2. T # {} => /\ a[First(T)] = b[First(T)]
                    /\ SumFunctionOnSet(a, T \ {First(T)}) = SumFunctionOnSet(b, T \ {First(T)})
        BY FirstIn
    <2> QED
        BY <2>1, <2>2, SumEquation
<1> HIDE DEF Same
<1>2. SUBSET S \subseteq Same
    BY <1>1, SubsetInduction
<1> QED
    BY <1>2 DEF Same

LEMMA SumEmpty == \A a : SumFunctionOnSet(a, {}) = 0
BY SumEquation, FS_EmptySet

\* Adding one element, which may be new or have been there.
LEMMA SumAdd ==
    ASSUME NEW S, IsFiniteSet(S), NEW a, NEW k, \A x \in S \cup {k} : a[x] \in Nat, k \notin S
    PROVE  SumFunctionOnSet(a, S \cup {k}) = a[k] + SumFunctionOnSet(a, S)
<1>1. IsFiniteSet(S \cup {k}) /\ (S \cup {k}) \ {k} = S
    BY FS_AddElement
<1>2. k \in S \cup {k}
    OBVIOUS
<1> QED
    BY <1>1, <1>2, SumRemove

\* Changing the value at one element.
LEMMA SumChange ==
    ASSUME NEW S, IsFiniteSet(S), NEW a, NEW b, NEW k \in S,
           \A x \in S : a[x] \in Nat, \A x \in S : b[x] \in Nat,
           \A x \in S \ {k} : a[x] = b[x]
    PROVE  SumFunctionOnSet(b, S) = SumFunctionOnSet(a, S) - a[k] + b[k]
<1> DEFINE rest == SumFunctionOnSet(a, S \ {k})
<1>1. IsFiniteSet(S \ {k})
    BY FS_Subset
<1>2. rest \in Nat /\ rest = SumFunctionOnSet(b, S \ {k})
    BY <1>1, SumType, SumSame
<1>3. SumFunctionOnSet(a, S) = a[k] + rest /\ SumFunctionOnSet(b, S) = b[k] + rest
    BY <1>2, SumRemove
<1>4. a[k] \in Nat /\ b[k] \in Nat
    OBVIOUS
<1> HIDE DEF rest
<1> QED
    BY <1>2, <1>3, <1>4

\* No element exceeds the sum.
LEMMA SumBound ==
    ASSUME NEW S, IsFiniteSet(S), NEW a, \A x \in S : a[x] \in Nat, NEW k \in S
    PROVE  a[k] <= SumFunctionOnSet(a, S)
<1>1. SumFunctionOnSet(a, S \ {k}) \in Nat
    BY FS_Subset, SumType
<1>2. SumFunctionOnSet(a, S) = a[k] + SumFunctionOnSet(a, S \ {k})
    BY SumRemove
<1> QED
    BY <1>1, <1>2

\* How a sum over a whole function follows the change of one value.
LEMMA SumFollows ==
    ASSUME NEW S, IsFiniteSet(S), NEW f \in [S -> Nat], NEW g \in [S -> Nat], NEW k \in S,
           \A x \in S \ {k} : g[x] = f[x]
    PROVE  /\ SumFunction(f) \in Nat
           /\ f[k] <= SumFunction(f)
           /\ SumFunction(g) = SumFunction(f) - f[k] + g[k]
<1>1. SumFunction(f) = SumFunctionOnSet(f, S) /\ SumFunction(g) = SumFunctionOnSet(g, S)
    BY DEF SumFunction
<1>2. \A x \in S : f[x] \in Nat /\ g[x] \in Nat
    OBVIOUS
<1>3. SumFunctionOnSet(f, S) \in Nat /\ f[k] <= SumFunctionOnSet(f, S)
    BY <1>2, SumType, SumBound
<1>4. SumFunctionOnSet(g, S) = SumFunctionOnSet(f, S) - f[k] + g[k]
    BY <1>2, SumChange
<1> QED
    BY <1>1, <1>3, <1>4

LEMMA SumOfZeros ==
    ASSUME NEW S, IsFiniteSet(S), NEW f \in [S -> {0}]
    PROVE  SumFunction(f) = 0
<1> DEFINE Zero == {T \in SUBSET S : SumFunctionOnSet(f, T) = 0}
<1>1. \A T \in SUBSET S : (\A U \in SUBSET T : U # T => U \in Zero) => T \in Zero
    <2> SUFFICES ASSUME NEW T \in SUBSET S, \A U \in SUBSET T : U # T => U \in Zero
                 PROVE  SumFunctionOnSet(f, T) = 0
        OBVIOUS
    <2>1. SumFunctionOnSet(f, T) =
            IF T = {} THEN 0 ELSE f[First(T)] + SumFunctionOnSet(f, T \ {First(T)})
        BY FS_Subset, SumEquation
    <2>2. CASE T # {}
        <3>1. f[First(T)] = 0 /\ SumFunctionOnSet(f, T \ {First(T)}) = 0
            BY <2>2, FirstIn
        <3> QED
            BY <2>1, <2>2, <3>1
    <2> QED
        BY <2>1, <2>2
<1> HIDE DEF Zero
<1>2. SUBSET S \subseteq Zero
    BY <1>1, SubsetInduction
<1> QED
    BY <1>2 DEF Zero, SumFunction

-------------------------------------------------------------------------------
(* FoldLeft of the community modules goes from the first element of a sequence to the last,  *)
(* by taking out the largest position of its domain. *)

\* g holds the result of folding F over the elements of s at every set of positions in D, in
\* the order of the positions.
LeftTable(F, base, s, D, g) ==
    g = [T \in SUBSET D |-> IF T = {} THEN base ELSE F[<<g[T \ {Max(T)}], s[Max(T)]>>]]

\* A set of positions has a largest one.
LEMMA MaxIn ==
    ASSUME NEW n \in Nat, NEW T \in SUBSET (1..n), T # {}
    PROVE  Max(T) \in T /\ \A y \in T : y <= Max(T)
<1> DEFINE D == 1..n
           Good == {U \in SUBSET D : U # {} => \E x \in U : \A y \in U : x >= y}
<1>1. \A V \in SUBSET D : (\A U \in SUBSET V : U # V => U \in Good) => V \in Good
    <2> SUFFICES ASSUME NEW V \in SUBSET D, \A U \in SUBSET V : U # V => U \in Good,
                        V # {}
                 PROVE  \E x \in V : \A y \in V : x >= y
        OBVIOUS
    <2>1. PICK z : z \in V
        OBVIOUS
    <2>2. CASE V = {z}
        BY <2>2
    <2>3. CASE V # {z}
        <3>1. V \ {z} \in Good /\ V \ {z} # {}
            BY <2>1, <2>3
        <3>2. PICK x \in V \ {z} : \A y \in V \ {z} : x >= y
            BY <3>1
        <3> QED
            BY <2>1, <3>2
    <2> QED
        BY <2>2, <2>3
<1> HIDE DEF D, Good
<1>2. IsFiniteSet(D)
    BY FS_Interval, 1 \in Int, n \in Int DEF D
<1>3. SUBSET D \subseteq Good
    BY <1>1, <1>2, SubsetInduction
<1>4. \E x \in T : \A y \in T : x >= y
    BY <1>3 DEF D, Good
<1>5. Max(T) \in T /\ \A y \in T : Max(T) >= y
    BY <1>4 DEF Max
<1> QED
    BY <1>5

\* There is such a table.
LEMMA LeftTableExists ==
    ASSUME NEW n \in Nat, NEW F, NEW base, NEW s
    PROVE  \E g : LeftTable(F, base, s, 1..n, g)
<1> DEFINE D == 1..n
           Have == {T \in SUBSET D : \E g : LeftTable(F, base, s, T, g)}
<1>1. \A T \in SUBSET D : (\A U \in SUBSET T : U # T => U \in Have) => T \in Have
    <2> SUFFICES ASSUME NEW T \in SUBSET D, \A U \in SUBSET T : U # T => U \in Have
                 PROVE  \E g : LeftTable(F, base, s, T, g)
        OBVIOUS
    <2>1. CASE T = {}
        <3> DEFINE g == [V \in SUBSET T |-> base]
        <3>1. g = [V \in SUBSET T |-> IF V = {} THEN base ELSE F[<<g[V \ {Max(V)}], s[Max(V)]>>]]
            BY <2>1
        <3> QED
            BY <3>1 DEF LeftTable
    <2>2. CASE T # {}
        <3> DEFINE m == Max(T)
                   U == T \ {m}
        <3>1. m \in T /\ \A y \in T : y <= m
            BY <2>2, MaxIn
        <3>2. PICK h : LeftTable(F, base, s, U, h)
            BY <3>1
        <3> DEFINE g == [V \in SUBSET T |-> IF m \in V THEN F[<<h[V \ {m}], s[m]>>] ELSE h[V]]
        <3> HIDE DEF m
        <3>3. ASSUME NEW V \in SUBSET T, m \in V
              PROVE  Max(V) = m
            <4>1. Max(V) \in V /\ m <= Max(V)
                BY <3>3, MaxIn
            <4>2. Max(V) \in T
                BY <4>1
            <4>3. \A y \in T : y \in Nat
                OBVIOUS
            <4>4. Max(V) <= m /\ m \in T
                BY <3>1, <4>2
            <4>5. Max(V) \in Nat /\ m \in Nat
                BY <4>2, <4>3, <4>4
            <4> QED
                BY <4>1, <4>4, <4>5
        <3>4. ASSUME NEW V \in SUBSET U
              PROVE  g[V] = h[V]
            OBVIOUS
        <3>5. ASSUME NEW V \in SUBSET T
              PROVE  g[V] = IF V = {} THEN base ELSE F[<<g[V \ {Max(V)}], s[Max(V)]>>]
            <4>1. CASE m \in V
                <5>1. g[V] = F[<<h[V \ {m}], s[m]>>]
                    BY <4>1
                <5>2. g[V \ {m}] = h[V \ {m}]
                    BY <3>4
                <5> QED
                    BY <3>3, <4>1, <5>1, <5>2
            <4>2. CASE m \notin V
                <5>1. V \in SUBSET U /\ g[V] = h[V]
                    BY <4>2
                <5>2. V # {} => g[V \ {Max(V)}] = h[V \ {Max(V)}]
                    BY <3>4, <5>1
                <5>3. h[V] = IF V = {} THEN base ELSE F[<<h[V \ {Max(V)}], s[Max(V)]>>]
                    BY <3>2, <5>1 DEF LeftTable
                <5> QED
                    BY <5>1, <5>2, <5>3
            <4> QED
                BY <4>1, <4>2
        <3>6. g = [V \in SUBSET T |-> g[V]]
            OBVIOUS
        <3> HIDE DEF g
        <3>7. LeftTable(F, base, s, T, g)
            BY <3>5, <3>6 DEF LeftTable
        <3> QED
            BY <3>7
    <2> QED
        BY <2>1, <2>2
<1> HIDE DEF D, Have
<1>2. IsFiniteSet(D)
    BY FS_Interval, 1 \in Int, n \in Int DEF D
<1>3. SUBSET D \subseteq Have
    BY <1>1, <1>2, SubsetInduction
<1> QED
    BY <1>3 DEF D, Have

\* What is folded over elements of E is in M, if F keeps M.
LEMMA LeftTableTyped ==
    ASSUME NEW n \in Nat, NEW M, NEW E, NEW F \in [M \X E -> M], NEW base \in M, NEW s,
           \A i \in 1..n : s[i] \in E, NEW g, LeftTable(F, base, s, 1..n, g)
    PROVE  \A T \in SUBSET (1..n) :
                g[T] \in M /\ (T # {} => Max(T) \in T)
<1> DEFINE D == 1..n
           Typed == {T \in SUBSET D : g[T] \in M}
<1>1. ASSUME NEW T \in SUBSET D
      PROVE  /\ T = {} => g[T] = base
             /\ T # {} => /\ Max(T) \in T
                          /\ g[T] = F[<<g[T \ {Max(T)}], s[Max(T)]>>]
    BY MaxIn DEF LeftTable
<1>2. \A T \in SUBSET D : (\A U \in SUBSET T : U # T => U \in Typed) => T \in Typed
    <2> SUFFICES ASSUME NEW T \in SUBSET D, \A U \in SUBSET T : U # T => U \in Typed
                 PROVE  g[T] \in M
        OBVIOUS
    <2>1. T # {} => g[T \ {Max(T)}] \in M /\ s[Max(T)] \in E
        BY <1>1
    <2> QED
        BY <1>1, <2>1
<1> HIDE DEF D, Typed
<1>3. IsFiniteSet(D)
    BY FS_Interval, 1 \in Int, n \in Int DEF D
<1>4. SUBSET D \subseteq Typed
    BY <1>2, <1>3, SubsetInduction
<1> QED
    BY <1>1, <1>4 DEF D, Typed
================================================================================
