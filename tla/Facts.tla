------------------------------- MODULE Facts -------------------------------
(***************************************************************************)
(* Facts the proofs share: induction over the naturals, over the subsets   *)
(* of a finite set and over sequences, sums over finite sets, the greatest *)
(* of some numbers and the ranks of an order, the spread of numbers about  *)
(* their mean, and the tables by which words are compared.                 *)
(***************************************************************************)
EXTENDS Integers, Sequences, FiniteSets, Functions, TLAPS,
        FiniteSetTheorems, SequenceTheorems, WellFoundedInduction, SequencesExt

-----------------------------------------------------------------------------
(* Induction.  The library's theorems of induction take the formula to be   *)
(* proved as an operator; these take the set of what satisfies it.          *)

LessThan == {ss \in Nat \X Nat : ss[1] < ss[2]}

\* A set of naturals has a least element.
LEMMA LeastElement ==
    ASSUME NEW T \in SUBSET Nat, T # {}
    PROVE  \E m \in T : \A n \in T : m <= n
<1>1. LessThan = OpToRel(<, Nat)
    BY Zenon DEF OpToRel, LessThan
<1>2. IsWellFoundedOn(LessThan, Nat)
    BY <1>1, NatLessThanWellFounded, Zenon
<1>3. PICK m \in T : \A n \in T : ~ (<<n, m>> \in LessThan)
    BY <1>2, WFMin
<1>4. ASSUME NEW n \in T
      PROVE  m <= n
    <2>1. ~ (<<n, m>> \in LessThan) /\ n \in Nat /\ m \in Nat
        BY <1>3
    <2>2. ~(n < m)
        BY <2>1 DEF LessThan
    <2> QED
        BY <2>1, <2>2
<1> QED
    BY <1>4

\* Induction on the naturals.
LEMMA Induct ==
    ASSUME NEW S, 0 \in S, \A n \in Nat : n \in S => n + 1 \in S
    PROVE  Nat \subseteq S
<1>1. SUFFICES ASSUME Nat \ S # {}
               PROVE  FALSE
    OBVIOUS
<1>2. PICK m \in Nat \ S : \A n \in Nat \ S : m <= n
    BY <1>1, LeastElement
<1>3. m # 0 /\ m - 1 \in Nat
    BY <1>2
<1>4. m - 1 \in S
    BY <1>2, <1>3
<1> QED
    BY <1>2, <1>3, <1>4

\* Induction on the subsets of a finite set.
LEMMA SetInduct ==
    ASSUME NEW S, IsFiniteSet(S), NEW F, {} \in F,
           \A T \in SUBSET S, x \in S : T \in F /\ x \notin T => T \cup {x} \in F
    PROVE  SUBSET S \subseteq F
<1> DEFINE N == {n \in Nat : \A T \in SUBSET S : Cardinality(T) = n => T \in F}
<1>1. 0 \in N
    <2>1. SUFFICES ASSUME NEW T \in SUBSET S, Cardinality(T) = 0
                   PROVE  T \in F
        OBVIOUS
    <2>2. IsFiniteSet(T)
        BY FS_Subset
    <2> QED
        BY <2>1, <2>2, FS_EmptySet
<1>2. ASSUME NEW n \in Nat, n \in N
      PROVE  n + 1 \in N
    <2>1. SUFFICES ASSUME NEW T \in SUBSET S, Cardinality(T) = n + 1
                   PROVE  T \in F
        OBVIOUS
    <2>2. IsFiniteSet(T)
        BY FS_Subset
    <2>3. PICK x \in T : TRUE
        BY <2>1, <2>2, FS_EmptySet
    <2>4. Cardinality(T \ {x}) = Cardinality(T) - 1
        BY <2>2, <2>3, FS_RemoveElement
    <2>5. Cardinality(T \ {x}) = n
        BY <2>1, <2>4
    <2>6. T \ {x} \in F
        BY <1>2, <2>5
    <2>7. T = (T \ {x}) \cup {x} /\ x \in S /\ x \notin T \ {x}
        BY <2>3
    <2> QED
        BY <2>6, <2>7
<1> HIDE DEF N
<1>3. Nat \subseteq N
    BY <1>1, <1>2, Induct
<1>4. ASSUME NEW T \in SUBSET S
      PROVE  T \in F
    <2>1. Cardinality(T) \in Nat
        BY FS_Subset, FS_CardinalityType
    <2> QED
        BY <1>3, <2>1 DEF N
<1> QED
    BY <1>4

\* Induction on sequences.
LEMMA SeqInduct ==
    ASSUME NEW X, NEW F, <<>> \in F,
           \A s \in Seq(X), x \in X : s \in F => Append(s, x) \in F
    PROVE  Seq(X) \subseteq F
<1> DEFINE N == {n \in Nat : \A s \in Seq(X) : Len(s) = n => s \in F}
<1>1. 0 \in N
    BY EmptySeq
<1>2. ASSUME NEW n \in Nat, n \in N
      PROVE  n + 1 \in N
    <2>1. SUFFICES ASSUME NEW s \in Seq(X), Len(s) = n + 1
                   PROVE  s \in F
        OBVIOUS
    <2>2. s # <<>>
        BY <2>1
    <2>3. PICK r \in Seq(X), x \in X : s = Append(r, x)
        BY <2>2, SequenceEmptyOrAppend
    <2>4. Len(r) = n
        BY <2>1, <2>3
    <2> QED
        BY <1>2, <2>3, <2>4
<1> HIDE DEF N
<1>3. Nat \subseteq N
    BY <1>1, <1>2, Induct
<1>4. ASSUME NEW s \in Seq(X)
      PROVE  s \in F
    BY <1>3 DEF N
<1> QED
    BY <1>4

\* The function f is defined recursively on 0 .. N, within X: step says how
\* the value at a place comes of the one before.
Recurses(f, N, X, base, step) ==
    /\ f \in [0..N -> X]
    /\ f[0] = base
    /\ \A n \in 1..N : f[n] = step[n][f[n - 1]]

StepsIn(step, N, X) == step \in [1..N -> [X -> X]]

\* There is one.
LEMMA Recursion ==
    ASSUME NEW N, N \in Nat, NEW X, NEW base, base \in X, NEW step, StepsIn(step, N, X)
    PROVE  \E f : Recurses(f, N, X, base, step)
<1> DEFINE Runs(f, m) == /\ f \in [0..m -> X] /\ f[0] = base
                         /\ \A n \in 1..m : f[n] = step[n][f[n - 1]]
           M == {m \in Nat : m <= N => \E f : Runs(f, m)}
<1> USE DEF StepsIn
<1>1. 0 \in M
    <2> DEFINE f == [n \in 0..0 |-> base]
    <2>1. Runs(f, 0)
        OBVIOUS
    <2> QED
        BY <2>1
<1>2. ASSUME NEW m \in Nat, m \in M
      PROVE  m + 1 \in M
    <2>1. SUFFICES ASSUME m + 1 <= N
                   PROVE  \E f : Runs(f, m + 1)
        OBVIOUS
    <2>2. PICK f : Runs(f, m)
        BY <1>2, <2>1
    <2> DEFINE g == [n \in 0..m + 1 |-> IF n = m + 1 THEN step[n][f[m]] ELSE f[n]]
    <2>3. f[m] \in X /\ step[m + 1] \in [X -> X] /\ step[m + 1][f[m]] \in X
        BY <2>1, <2>2
    <2>4. g \in [0..m + 1 -> X] /\ g[0] = base
        BY <2>2, <2>3
    <2>5. ASSUME NEW n \in 1..m + 1
          PROVE  g[n] = step[n][g[n - 1]]
        <3>1. CASE n = m + 1
            <4>1. n - 1 = m /\ g[m] = f[m]
                BY <3>1
            <4> QED
                BY <3>1, <4>1
        <3>2. CASE n # m + 1
            <4>1. n \in 1..m /\ n \in 0..m + 1 /\ n - 1 \in 0..m + 1 /\ n - 1 # m + 1
                BY <3>2
            <4>2. g[n] = f[n] /\ g[n - 1] = f[n - 1]
                BY <3>2, <4>1
            <4> QED
                BY <2>2, <4>1, <4>2
        <3> QED
            BY <3>1, <3>2
    <2> HIDE DEF g
    <2> QED
        BY <2>4, <2>5
<1>3. \E f : Runs(f, N)
    <2> HIDE DEF M
    <2>1. N \in M
        BY <1>1, <1>2, Induct
    <2> QED
        BY <2>1 DEF M
<1> QED
    BY <1>3 DEF Recurses

-----------------------------------------------------------------------------
(* Sums.  SumFunction(f) is the value, at the whole domain of f, of a       *)
(* function g that is defined recursively on the subsets of the domain,    *)
(* and that adds the entries up in some order.                             *)

Summand(g, f, s) ==
    IF s = {} THEN 0 ELSE f[CHOOSE x \in s : TRUE] + g[s \ {CHOOSE x \in s : TRUE}]

Unfolds(g, f, S) == g = [s \in SUBSET S |-> Summand(g, f, s)]

\* The recursion has a solution.
LEMMA SumExists ==
    ASSUME NEW S, IsFiniteSet(S), NEW f
    PROVE  \E g : Unfolds(g, f, S)
<1> DEFINE Small(n) == {s \in SUBSET S : Cardinality(s) <= n}
           N == {n \in Nat : \E g : g = [s \in Small(n) |-> Summand(g, f, s)]}
<1>1. ASSUME NEW s \in SUBSET S
      PROVE  /\ IsFiniteSet(s) /\ Cardinality(s) \in Nat
             /\ Cardinality(s) = 0 => s = {}
             /\ s # {} => /\ (CHOOSE x \in s : TRUE) \in s
                          /\ s \ {CHOOSE x \in s : TRUE} \in SUBSET S
                          /\ Cardinality(s \ {CHOOSE x \in s : TRUE}) = Cardinality(s) - 1
    <2>1. IsFiniteSet(s) /\ Cardinality(s) \in Nat
        BY <1>1, FS_Subset, FS_CardinalityType
    <2>2. s # {} => (CHOOSE x \in s : TRUE) \in s
        OBVIOUS
    <2> QED
        BY <2>1, <2>2, FS_EmptySet, FS_RemoveElement
<1>2. 0 \in N
    <2> DEFINE g == [s \in Small(0) |-> 0]
    <2>1. g = [s \in Small(0) |-> Summand(g, f, s)]
        BY <1>1 DEF Summand
    <2> QED
        BY <2>1
<1>3. ASSUME NEW n \in Nat, n \in N
      PROVE  n + 1 \in N
    <2>1. PICK g : g = [s \in Small(n) |-> Summand(g, f, s)]
        BY <1>3
    <2> DEFINE h == [s \in Small(n + 1) |-> Summand(g, f, s)]
    <2>2. ASSUME NEW s \in Small(n + 1)
          PROVE  h[s] = Summand(h, f, s)
        <3>1. CASE s = {}
            BY <3>1 DEF Summand
        <3>2. CASE s # {}
            <4> DEFINE r == s \ {CHOOSE x \in s : TRUE}
            <4>1. r \in Small(n) /\ r \in Small(n + 1)
                BY <1>1, <3>2
            <4>2. h[r] = g[r]
                BY <2>1, <4>1
            <4>3. h[s] = Summand(g, f, s)
                OBVIOUS
            <4> HIDE DEF h
            <4> QED
                BY <3>2, <4>2, <4>3 DEF Summand
        <3> QED
            BY <3>1, <3>2
    <2>3. h = [s \in Small(n + 1) |-> h[s]]
        OBVIOUS
    <2> HIDE DEF h
    <2>4. h = [s \in Small(n + 1) |-> Summand(h, f, s)]
        BY <2>2, <2>3
    <2>5. \E k : k = [s \in Small(n + 1) |-> Summand(k, f, s)]
        BY <2>4
    <2>6. n + 1 \in Nat
        OBVIOUS
    <2> QED
        BY <2>5, <2>6, Zenon
<1> HIDE DEF N
<1>4. Nat \subseteq N
    BY <1>2, <1>3, Induct
<1>5. Cardinality(S) \in N
    BY <1>4, FS_CardinalityType
<1>6. Small(Cardinality(S)) = SUBSET S
    BY FS_Subset
<1> QED
    BY <1>5, <1>6 DEF N, Unfolds

\* The sum over S comes from a solution.
LEMMA SumUnfolds ==
    ASSUME NEW S, IsFiniteSet(S), NEW f, DOMAIN f = S
    PROVE  \E g : Unfolds(g, f, S) /\ SumFunction(f) = g[S]
<1> DEFINE Fold(g) == [s \in SUBSET S |->
                         IF s = {} THEN 0
                         ELSE f[CHOOSE x \in s : TRUE] + g[s \ {CHOOSE x \in s : TRUE}]]
           sum == CHOOSE g : g = Fold(g)
<1>1. \E g : g = Fold(g)
    <2>1. PICK g : Unfolds(g, f, S)
        BY SumExists
    <2>2. g = Fold(g)
        BY <2>1 DEF Unfolds, Summand
    <2> QED
        BY <2>2
<1>2. sum = Fold(sum)
    BY <1>1
<1>3. SumFunction(f) = sum[S]
    BY DEF SumFunction, SumFunctionOnSet, FoldFunctionOnSet, MapThenFoldSet
<1>4. Unfolds(sum, f, S)
    BY <1>2 DEF Unfolds, Summand
<1> QED
    BY <1>3, <1>4

\* A solution does not depend on the order.
LEMMA AnyOrder ==
    ASSUME NEW S, IsFiniteSet(S), NEW f \in [S -> Int], NEW g, Unfolds(g, f, S)
    PROVE  /\ g[{}] = 0
           /\ \A T \in SUBSET S : g[T] \in Int
           /\ \A T \in SUBSET S : \A x \in T : g[T] = f[x] + g[T \ {x}]
<1>1. ASSUME NEW T \in SUBSET S
      PROVE  /\ T = {} => g[T] = 0
             /\ T # {} => \E x \in T : g[T] = f[x] + g[T \ {x}]
    <2>1. g[T] = Summand(g, f, T)
        BY DEF Unfolds
    <2>2. T # {} => (CHOOSE x \in T : TRUE) \in T
        OBVIOUS
    <2> QED
        BY <2>1, <2>2 DEF Summand
<1>2. ASSUME NEW T \in SUBSET S
      PROVE  /\ Cardinality(T) \in Nat
             /\ Cardinality(T) = 0 <=> T = {}
             /\ \A x \in T : T \ {x} \in SUBSET S /\ Cardinality(T \ {x}) = Cardinality(T) - 1
    BY FS_Subset, FS_CardinalityType, FS_EmptySet, FS_RemoveElement
<1> DEFINE N == {n \in Nat : \A T \in SUBSET S : Cardinality(T) <= n =>
                    g[T] \in Int /\ \A x \in T : g[T] = f[x] + g[T \ {x}]}
<1>3. 0 \in N
    BY <1>1, <1>2
<1>4. ASSUME NEW n \in Nat, n \in N
      PROVE  n + 1 \in N
    <2>1. SUFFICES ASSUME NEW T \in SUBSET S, Cardinality(T) <= n + 1, T # {}
                   PROVE  g[T] \in Int /\ \A x \in T : g[T] = f[x] + g[T \ {x}]
        BY <1>1
    <2>2. PICK y \in T : g[T] = f[y] + g[T \ {y}]
        BY <1>1, <2>1
    <2>3. ASSUME NEW x \in T
          PROVE  /\ T \ {x} \in SUBSET S /\ g[T \ {x}] \in Int /\ f[x] \in Int
                 /\ \A z \in T \ {x} : g[T \ {x}] = f[z] + g[(T \ {x}) \ {z}]
        <3>1. T \ {x} \in SUBSET S /\ Cardinality(T \ {x}) <= n
            BY <1>2, <2>1
        <3> QED
            BY <1>4, <3>1
    <2>4. g[T] \in Int
        BY <2>2, <2>3
    <2>5. ASSUME NEW x \in T, x # y
          PROVE  g[T] = f[x] + g[T \ {x}]
        <3>1. g[T \ {y}] = f[x] + g[(T \ {y}) \ {x}] /\ g[T \ {x}] = f[y] + g[(T \ {x}) \ {y}]
            BY <2>3, <2>5
        <3>2. (T \ {y}) \ {x} = (T \ {x}) \ {y}
            OBVIOUS
        <3>3. g[(T \ {y}) \ {x}] \in Int
            <4>1. (T \ {y}) \ {x} \in SUBSET S /\ Cardinality((T \ {y}) \ {x}) <= n
                <5>1. T \ {y} \in SUBSET S /\ Cardinality(T \ {y}) <= n /\ x \in T \ {y}
                    BY <1>2, <2>1, <2>5
                <5> QED
                    BY <1>2, <5>1
            <4> QED
                BY <1>4, <4>1
        <3>4. f[x] \in Int /\ f[y] \in Int
            OBVIOUS
        <3> QED
            <4>1. g[T] = f[y] + (f[x] + g[(T \ {y}) \ {x}])
                BY <2>2, <3>1
            <4>2. g[T \ {x}] = f[y] + g[(T \ {y}) \ {x}]
                BY <3>1, <3>2
            <4>3. f[y] + (f[x] + g[(T \ {y}) \ {x}]) = f[x] + (f[y] + g[(T \ {y}) \ {x}])
                BY <3>3, <3>4
            <4> QED
                BY <4>1, <4>2, <4>3
    <2> QED
        BY <2>2, <2>4, <2>5
<1> HIDE DEF N
<1>5. Nat \subseteq N
    BY <1>3, <1>4, Induct
<1>6. ASSUME NEW T \in SUBSET S
      PROVE  g[T] \in Int /\ \A x \in T : g[T] = f[x] + g[T \ {x}]
    <2>1. Cardinality(T) \in N
        BY <1>2, <1>5
    <2>2. \A U \in SUBSET S : Cardinality(U) <= Cardinality(T) =>
              g[U] \in Int /\ \A x \in U : g[U] = f[x] + g[U \ {x}]
        BY <2>1 DEF N
    <2> QED
        BY <1>2, <2>2
<1> QED
    BY <1>1, <1>6

\* Two solutions for functions that agree on T agree there.
LEMMA SameEntries ==
    ASSUME NEW S, IsFiniteSet(S), NEW f \in [S -> Int], NEW g, Unfolds(g, f, S),
           NEW T \in SUBSET S, NEW k \in [T -> Int], NEW h, Unfolds(h, k, T),
           \A x \in T : k[x] = f[x]
    PROVE  h[T] = g[T]
<1>1. IsFiniteSet(T)
    BY FS_Subset
<1>2. /\ h[{}] = 0
      /\ \A V \in SUBSET T : h[V] \in Int
      /\ \A V \in SUBSET T : \A y \in V : h[V] = k[y] + h[V \ {y}]
    BY <1>1, AnyOrder
<1>3. g[{}] = 0
    BY AnyOrder
<1> DEFINE F == {U \in SUBSET T : h[U] = g[U]}
<1>4. {} \in F
    BY <1>2, <1>3
<1>5. ASSUME NEW U \in SUBSET T, NEW x \in T, U \in F, x \notin U
      PROVE  U \cup {x} \in F
    <2>1. /\ U \cup {x} \in SUBSET T /\ U \cup {x} \in SUBSET S
          /\ (U \cup {x}) \ {x} = U /\ x \in U \cup {x}
        BY <1>5
    <2>2. h[U \cup {x}] = k[x] + h[(U \cup {x}) \ {x}]
        BY <1>2, <2>1
    <2>3. g[U \cup {x}] = f[x] + g[(U \cup {x}) \ {x}]
        BY <2>1, AnyOrder
    <2> QED
        BY <1>5, <2>1, <2>2, <2>3
<1> HIDE DEF F
<1>6. SUBSET T \subseteq F
    BY <1>1, <1>4, <1>5, SetInduct
<1> QED
    BY <1>6 DEF F

\* The sum of f is an integer, and f[x] and the sum of the rest.
LEMMA SumSplit ==
    ASSUME NEW S, IsFiniteSet(S), NEW f \in [S -> Int]
    PROVE  /\ S = {} => SumFunction(f) = 0
           /\ SumFunction(f) \in Int
           /\ \A x \in S : SumFunction(f) = f[x] + SumFunction([y \in S \ {x} |-> f[y]])
<1>1. PICK g : Unfolds(g, f, S) /\ SumFunction(f) = g[S]
    BY SumUnfolds
<1>2. /\ g[{}] = 0 /\ g[S] \in Int
      /\ \A x \in S : g[S] = f[x] + g[S \ {x}]
    BY <1>1, AnyOrder
<1>3. ASSUME NEW x \in S
      PROVE  SumFunction([y \in S \ {x} |-> f[y]]) = g[S \ {x}]
    <2> DEFINE T == S \ {x}
               k == [y \in T |-> f[y]]
    <2>1. IsFiniteSet(T) /\ k \in [T -> Int] /\ DOMAIN k = T
        BY FS_Subset
    <2>2. \A y \in T : k[y] = f[y]
        OBVIOUS
    <2>3. T \in SUBSET S
        OBVIOUS
    <2> HIDE DEF T, k
    <2>4. PICK h : Unfolds(h, k, T) /\ SumFunction(k) = h[T]
        BY <2>1, SumUnfolds
    <2>5. h[T] = g[T]
        BY <1>1, <2>1, <2>2, <2>3, <2>4, SameEntries
    <2> QED
        BY <2>4, <2>5 DEF T, k
<1> QED
    BY <1>1, <1>2, <1>3

\* One entry more.
LEMMA SumAdd ==
    ASSUME NEW S, IsFiniteSet(S), NEW f \in [S -> Int],
           NEW T \in SUBSET S, NEW x \in S \ T
    PROVE  /\ SumFunction(Restrict(f, T)) \in Int
           /\ SumFunction(Restrict(f, T \cup {x})) = f[x] + SumFunction(Restrict(f, T))
<1> DEFINE k == Restrict(f, T \cup {x})
<1>1. /\ IsFiniteSet(T) /\ IsFiniteSet(T \cup {x})
      /\ Restrict(f, T) \in [T -> Int] /\ k \in [T \cup {x} -> Int]
    BY FS_Subset DEF Restrict
<1>2. (T \cup {x}) \ {x} = T /\ x \in T \cup {x}
    OBVIOUS
<1>3. k[x] = f[x] /\ [y \in T |-> k[y]] = Restrict(f, T)
    BY DEF Restrict
<1> HIDE DEF k
<1>4. SumFunction(k) = k[x] + SumFunction([y \in (T \cup {x}) \ {x} |-> k[y]])
    BY <1>1, <1>2, SumSplit
<1> QED
    BY <1>1, <1>2, <1>3, <1>4, SumSplit DEF k

\* A sum without entries.
LEMMA SumNone ==
    ASSUME NEW f \in [{} -> Int]
    PROVE  SumFunction(f) = 0
    BY FS_EmptySet, SumSplit

\* Only the entries that are not zero count.
LEMMA SumZeros ==
    ASSUME NEW S, IsFiniteSet(S), NEW f \in [S -> Int],
           NEW T \in SUBSET S, \A x \in S \ T : f[x] = 0
    PROVE  SumFunction(f) = SumFunction(Restrict(f, T))
<1> DEFINE F == {U \in SUBSET S : SumFunction(Restrict(f, U))
                                      = SumFunction(Restrict(f, U \cap T))}
<1>1. {} \in F
    <2>1. {} \cap T = {}
        OBVIOUS
    <2> QED
        BY <2>1
<1>2. ASSUME NEW U \in SUBSET S, NEW x \in S, U \in F, x \notin U
      PROVE  U \cup {x} \in F
    <2>1. /\ SumFunction(Restrict(f, U \cup {x})) = f[x] + SumFunction(Restrict(f, U))
          /\ SumFunction(Restrict(f, U)) \in Int
        BY <1>2, SumAdd
    <2>2. SumFunction(Restrict(f, U)) = SumFunction(Restrict(f, U \cap T))
        BY <1>2
    <2>3. SumFunction(Restrict(f, U \cup {x}))
              = SumFunction(Restrict(f, (U \cup {x}) \cap T))
        <3>1. CASE x \in T
            <4>1. (U \cup {x}) \cap T = (U \cap T) \cup {x}
                BY <3>1
            <4>2. U \cap T \in SUBSET S /\ x \in S \ (U \cap T)
                BY <1>2
            <4>3. SumFunction(Restrict(f, (U \cap T) \cup {x}))
                      = f[x] + SumFunction(Restrict(f, U \cap T))
                BY <4>2, SumAdd
            <4> QED
                BY <2>1, <2>2, <4>1, <4>3
        <3>2. CASE x \notin T
            <4>1. (U \cup {x}) \cap T = U \cap T
                BY <3>2
            <4>2. f[x] = 0
                BY <3>2
            <4>3. SumFunction(Restrict(f, U \cup {x})) = SumFunction(Restrict(f, U))
                BY <2>1, <4>2
            <4> QED
                BY <2>2, <4>1, <4>3
        <3> QED
            BY <3>1, <3>2
    <2>4. U \cup {x} \in SUBSET S
        OBVIOUS
    <2> QED
        BY <2>3, <2>4
<1> HIDE DEF F
<1>3. S \in F
    BY <1>1, <1>2, SetInduct
<1>4. S \cap T = T /\ Restrict(f, S) = f
    BY DEF Restrict
<1> QED
    BY <1>3, <1>4 DEF F

\* A sum of naturals.
LEMMA SumNat ==
    ASSUME NEW S, IsFiniteSet(S), NEW f \in [S -> Nat]
    PROVE  SumFunction(f) \in Nat
<1> DEFINE F == {U \in SUBSET S : SumFunction(Restrict(f, U)) \in Nat}
<1>1. f \in [S -> Int]
    OBVIOUS
<1>2. {} \in F
    <2>1. Restrict(f, {}) \in [{} -> Int]
        BY DEF Restrict
    <2> QED
        BY <2>1, SumNone
<1>3. ASSUME NEW U \in SUBSET S, NEW x \in S, U \in F, x \notin U
      PROVE  U \cup {x} \in F
    <2>1. SumFunction(Restrict(f, U \cup {x})) = f[x] + SumFunction(Restrict(f, U))
        BY <1>1, <1>3, SumAdd
    <2>2. f[x] \in Nat /\ SumFunction(Restrict(f, U)) \in Nat
        BY <1>3
    <2> QED
        BY <2>1, <2>2
<1> HIDE DEF F
<1>4. S \in F
    BY <1>2, <1>3, SetInduct
<1>5. Restrict(f, S) = f
    BY DEF Restrict
<1> QED
    BY <1>4, <1>5 DEF F

\* A sum of zeros.
LEMMA SumZero ==
    ASSUME NEW S, IsFiniteSet(S), NEW f, f = [x \in S |-> 0]
    PROVE  SumFunction(f) = 0
<1>1. f \in [S -> Int] /\ Restrict(f, {}) \in [{} -> Int]
    BY DEF Restrict
<1>2. SumFunction(f) = SumFunction(Restrict(f, {}))
    BY <1>1, SumZeros
<1> QED
    BY <1>1, <1>2, SumNone

\* Sums add up.
LEMMA SumPlus ==
    ASSUME NEW S, IsFiniteSet(S), NEW f \in [S -> Int], NEW g \in [S -> Int],
           NEW h, h = [x \in S |-> f[x] + g[x]]
    PROVE  SumFunction(h) = SumFunction(f) + SumFunction(g)
<1> DEFINE F == {U \in SUBSET S : SumFunction(Restrict(h, U))
                    = SumFunction(Restrict(f, U)) + SumFunction(Restrict(g, U))}
<1>1. h \in [S -> Int]
    OBVIOUS
<1>2. {} \in F
    <2>1. ASSUME NEW k
          PROVE  SumFunction(Restrict(k, {})) = 0
        <3>1. Restrict(k, {}) \in [{} -> Int]
            BY DEF Restrict
        <3> QED
            BY <3>1, SumNone
    <2> QED
        BY <2>1
<1>3. ASSUME NEW U \in SUBSET S, NEW x \in S, U \in F, x \notin U
      PROVE  U \cup {x} \in F
    <2>1. /\ SumFunction(Restrict(h, U \cup {x})) = h[x] + SumFunction(Restrict(h, U))
          /\ SumFunction(Restrict(f, U \cup {x})) = f[x] + SumFunction(Restrict(f, U))
          /\ SumFunction(Restrict(g, U \cup {x})) = g[x] + SumFunction(Restrict(g, U))
          /\ SumFunction(Restrict(f, U)) \in Int /\ SumFunction(Restrict(g, U)) \in Int
        BY <1>1, <1>3, SumAdd
    <2>2. h[x] = f[x] + g[x] /\ f[x] \in Int /\ g[x] \in Int
        OBVIOUS
    <2>3. SumFunction(Restrict(h, U))
              = SumFunction(Restrict(f, U)) + SumFunction(Restrict(g, U))
        BY <1>3
    <2> QED
        BY <2>1, <2>2, <2>3
<1> HIDE DEF F
<1>4. S \in F
    BY <1>2, <1>3, SetInduct
<1>5. Restrict(f, S) = f /\ Restrict(g, S) = g /\ Restrict(h, S) = h
    BY DEF Restrict
<1> QED
    BY <1>4, <1>5 DEF F

\* The sum of the differences is the difference of the sums.
LEMMA SumMinus ==
    ASSUME NEW S, IsFiniteSet(S), NEW f \in [S -> Int], NEW g \in [S -> Int],
           NEW h, h = [x \in S |-> f[x] - g[x]]
    PROVE  SumFunction(h) = SumFunction(f) - SumFunction(g)
<1>1. h \in [S -> Int] /\ f = [x \in S |-> h[x] + g[x]]
    OBVIOUS
<1>2. SumFunction(f) = SumFunction(h) + SumFunction(g)
    BY <1>1, SumPlus
<1> QED
    BY <1>1, <1>2, SumSplit

\* A table may be added up by rows or by columns.
LEMMA SumSwap ==
    ASSUME NEW S, IsFiniteSet(S), NEW T, IsFiniteSet(T), NEW m \in [S -> [T -> Int]]
    PROVE  SumFunction([x \in S |-> SumFunction([y \in T |-> m[x][y]])])
              = SumFunction([y \in T |-> SumFunction([x \in S |-> m[x][y]])])
<1> DEFINE row == [x \in S |-> SumFunction([y \in T |-> m[x][y]])]
           part(U) == [y \in T |-> SumFunction([x \in U |-> m[x][y]])]
           F == {U \in SUBSET S : SumFunction(Restrict(row, U)) = SumFunction(part(U))}
<1>1. row \in [S -> Int]
    BY SumSplit
<1>2. {} \in F
    <2>1. Restrict(row, {}) \in [{} -> Int]
        BY DEF Restrict
    <2>2. SumFunction(Restrict(row, {})) = 0
        BY <2>1, SumNone
    <2>3. ASSUME NEW y \in T
          PROVE  SumFunction([x \in {} |-> m[x][y]]) = 0
        <3>1. [x \in {} |-> m[x][y]] \in [{} -> Int]
            OBVIOUS
        <3> QED
            BY <3>1, SumNone
    <2>4. part({}) = [y \in T |-> 0]
        BY <2>3
    <2> HIDE DEF row
    <2>5. SumFunction(part({})) = 0
        BY <2>4, SumZero
    <2> QED
        BY <2>2, <2>5
<1>3. ASSUME NEW U \in SUBSET S, NEW x \in S, U \in F, x \notin U
      PROVE  U \cup {x} \in F
    <2>0. U \cup {x} \in SUBSET S /\ x \in S \ U
        BY <1>3
    <2>1. SumFunction(Restrict(row, U \cup {x})) = row[x] + SumFunction(Restrict(row, U))
        <3> HIDE DEF row, F
        <3> QED
            BY <1>1, <2>0, SumAdd
    <2>2. ASSUME NEW y \in T
          PROVE  /\ SumFunction([z \in U |-> m[z][y]]) \in Int
                 /\ SumFunction([z \in U \cup {x} |-> m[z][y]])
                        = m[x][y] + SumFunction([z \in U |-> m[z][y]])
        <3> DEFINE column == [z \in S |-> m[z][y]]
        <3>1. column \in [S -> Int] /\ column[x] = m[x][y]
            OBVIOUS
        <3>2. /\ Restrict(column, U) = [z \in U |-> m[z][y]]
              /\ Restrict(column, U \cup {x}) = [z \in U \cup {x} |-> m[z][y]]
            BY DEF Restrict
        <3> HIDE DEF column, F
        <3>3. /\ SumFunction(Restrict(column, U)) \in Int
              /\ SumFunction(Restrict(column, U \cup {x}))
                     = column[x] + SumFunction(Restrict(column, U))
            BY <2>0, <3>1, SumAdd
        <3> QED
            BY <3>1, <3>2, <3>3
    <2> DEFINE f == [y \in T |-> m[x][y]]
               g == part(U)
               h == part(U \cup {x})
    <2>3. f \in [T -> Int] /\ g \in [T -> Int] /\ h = [y \in T |-> f[y] + g[y]]
        BY <2>2
    <2>4. row[x] = SumFunction(f)
        OBVIOUS
    <2>5. SumFunction(Restrict(row, U)) = SumFunction(g)
        BY <1>3
    <2> HIDE DEF f, g, h, row
    <2>6. SumFunction(h) = SumFunction(f) + SumFunction(g)
        BY <2>3, SumPlus
    <2>7. SumFunction(Restrict(row, U \cup {x})) = SumFunction(h)
        BY <2>1, <2>4, <2>5, <2>6
    <2> QED
        BY <2>0, <2>7 DEF h
<1>4. S \in F
    <2> HIDE DEF F
    <2> QED
        BY <1>2, <1>3, SetInduct
<1>5. Restrict(row, S) = row
    BY DEF Restrict
<1> QED
    BY <1>4, <1>5

LEMMA FewAreFinite ==
    ASSUME NEW p, NEW q, NEW r
    PROVE  IsFiniteSet({p}) /\ IsFiniteSet({p, q}) /\ IsFiniteSet({p, q, r})
<1>1. IsFiniteSet({p})
    BY FS_Singleton
<1>2. {p, q} = {p} \cup {q} /\ {p, q, r} = {p, q} \cup {r}
    OBVIOUS
<1> QED
    BY <1>1, <1>2, FS_AddElement

\* What the recursion says of one set.
LEMMA UnfoldsOnce ==
    ASSUME NEW f, NEW g, Unfolds(g, f, DOMAIN f), NEW s \in SUBSET DOMAIN f
    PROVE  /\ s = {} => g[s] = 0
           /\ s # {} => \E x \in s : g[s] = f[x] + g[s \ {x}]
<1>1. g[s] = Summand(g, f, s)
    BY DEF Unfolds
<1>2. s # {} => (CHOOSE x \in s : TRUE) \in s
    OBVIOUS
<1> QED
    BY <1>1, <1>2 DEF Summand

\* Its value at a set of two.
LEMMA UnfoldsTwice ==
    ASSUME NEW f, NEW g, Unfolds(g, f, DOMAIN f), NEW p, NEW q, p # q,
           p \in DOMAIN f, q \in DOMAIN f, f[p] \in Int, f[q] \in Int
    PROVE  g[{p, q}] = f[p] + f[q]
<1>1. g[{}] = 0
    BY UnfoldsOnce
<1>2. ASSUME NEW x \in {p, q}
      PROVE  g[{x}] = f[x]
    <2>1. {x} \in SUBSET DOMAIN f /\ {x} # {}
        OBVIOUS
    <2>2. PICK y \in {x} : g[{x}] = f[y] + g[{x} \ {y}]
        BY <2>1, UnfoldsOnce
    <2>3. y = x /\ {x} \ {x} = {} /\ f[x] + 0 = f[x]
        OBVIOUS
    <2> QED
        BY <1>1, <2>2, <2>3
<1>3. \E x \in {p, q} : g[{p, q}] = f[x] + g[{p, q} \ {x}]
    <2>1. {p, q} \in SUBSET DOMAIN f /\ {p, q} # {}
        OBVIOUS
    <2> QED
        BY <2>1, UnfoldsOnce
<1>4. {p, q} \ {p} = {q} /\ {p, q} \ {q} = {p}
    OBVIOUS
<1>5. f[q] + f[p] = f[p] + f[q]
    OBVIOUS
<1>6. PICK x \in {p, q} : g[{p, q}] = f[x] + g[{p, q} \ {x}]
    BY <1>3
<1>7. CASE x = p
    BY <1>2, <1>4, <1>6, <1>7
<1>8. CASE x = q
    BY <1>2, <1>4, <1>5, <1>6, <1>8
<1> QED
    BY <1>6, <1>7, <1>8

\* The sum of two entries.
LEMMA TwoEntries ==
    ASSUME NEW f, NEW p, NEW q, p # q,
           DOMAIN f = {p, q}, f[p] \in Int, f[q] \in Int
    PROVE  SumFunction(f) = f[p] + f[q]
<1>1. IsFiniteSet({p, q})
    BY FewAreFinite
<1>2. PICK g : Unfolds(g, f, DOMAIN f) /\ SumFunction(f) = g[DOMAIN f]
    BY <1>1, SumUnfolds
<1>3. p # q /\ p \in DOMAIN f /\ q \in DOMAIN f /\ f[p] \in Int /\ f[q] \in Int
    OBVIOUS
<1>4. g[{p, q}] = f[p] + f[q]
    BY ONLY <1>2, <1>3, UnfoldsTwice
<1> QED
    BY <1>2, <1>4

\* The sum of three entries.
LEMMA ThreeEntries ==
    ASSUME NEW f, NEW p, NEW q, NEW r, p # q, p # r, q # r,
           DOMAIN f = {p, q, r}, f[p] \in Int, f[q] \in Int, f[r] \in Int
    PROVE  SumFunction(f) = f[p] + f[q] + f[r]
<1>1. IsFiniteSet({p, q, r})
    BY FewAreFinite
<1>2. PICK g : Unfolds(g, f, DOMAIN f) /\ SumFunction(f) = g[DOMAIN f]
    BY <1>1, SumUnfolds
<1>4. \E x \in {p, q, r} : g[{p, q, r}] = f[x] + g[{p, q, r} \ {x}]
    BY <1>2, UnfoldsOnce
<1>5. {p, q, r} \ {p} = {q, r} /\ {p, q, r} \ {q} = {p, r} /\ {p, q, r} \ {r} = {p, q}
    OBVIOUS
<1>6. /\ g[{q, r}] = f[q] + f[r]
      /\ g[{p, r}] = f[p] + f[r]
      /\ g[{p, q}] = f[p] + f[q]
    <2>1. /\ p \in DOMAIN f /\ q \in DOMAIN f /\ r \in DOMAIN f
          /\ f[p] \in Int /\ f[q] \in Int /\ f[r] \in Int
          /\ p # q /\ p # r /\ q # r
        OBVIOUS
    <2>2. g[{q, r}] = f[q] + f[r]
        BY ONLY <1>2, <2>1, UnfoldsTwice
    <2>3. g[{p, r}] = f[p] + f[r]
        BY ONLY <1>2, <2>1, UnfoldsTwice
    <2>4. g[{p, q}] = f[p] + f[q]
        BY ONLY <1>2, <2>1, UnfoldsTwice
    <2> QED
        BY <2>2, <2>3, <2>4
<1>7. PICK x \in {p, q, r} : g[{p, q, r}] = f[x] + g[{p, q, r} \ {x}]
    BY <1>4
<1>8. /\ f[q] + (f[p] + f[r]) = f[p] + f[q] + f[r]
      /\ f[p] + (f[q] + f[r]) = f[p] + f[q] + f[r]
      /\ f[r] + (f[p] + f[q]) = f[p] + f[q] + f[r]
    OBVIOUS
<1>9. g[{p, q, r}] = f[p] + f[q] + f[r]
    BY ONLY <1>5, <1>6, <1>7, <1>8
<1> QED
    BY <1>2, <1>9

-----------------------------------------------------------------------------
(* Sums by parts, by groups, and over what names its entries.               *)

\* The entries in T and the others.
LEMMA SumParts ==
  ASSUME NEW S, IsFiniteSet(S), NEW f \in [S -> Int], NEW T \in SUBSET S
  PROVE  /\ SumFunction(f) = SumFunction(Restrict(f, T)) + SumFunction(Restrict(f, S \ T))
         /\ SumFunction(Restrict(f, T)) \in Int /\ SumFunction(Restrict(f, S \ T)) \in Int
<1> DEFINE g == [x \in S |-> IF x \in T THEN f[x] ELSE 0]
           h == [x \in S |-> IF x \in T THEN 0 ELSE f[x]]
<1>1. g \in [S -> Int] /\ h \in [S -> Int] /\ f = [x \in S |-> g[x] + h[x]]
  OBVIOUS
<1>2. Restrict(g, T) = Restrict(f, T) /\ Restrict(h, S \ T) = Restrict(f, S \ T)
  BY DEF Restrict
<1>3. (\A x \in S \ T : g[x] = 0) /\ (\A x \in S \ (S \ T) : h[x] = 0)
  OBVIOUS
<1> HIDE DEF g, h
<1>4. SumFunction(f) = SumFunction(g) + SumFunction(h)
  BY <1>1, SumPlus
<1>5. SumFunction(g) = SumFunction(Restrict(g, T))
  BY <1>1, <1>3, SumZeros
<1>6. S \ T \in SUBSET S
  OBVIOUS
<1>7. SumFunction(h) = SumFunction(Restrict(h, S \ T))
  BY <1>1, <1>3, <1>6, SumZeros
<1>8. SumFunction(g) \in Int /\ SumFunction(h) \in Int
  BY <1>1, SumSplit
<1> QED
  BY <1>2, <1>4, <1>5, <1>7, <1>8

\* An entry more.
LEMMA SumMore ==
  ASSUME NEW S, IsFiniteSet(S), NEW x, x \notin S, NEW f \in [S \cup {x} -> Int]
  PROVE  /\ SumFunction(f) = f[x] + SumFunction(Restrict(f, S))
         /\ SumFunction(f) \in Int /\ SumFunction(Restrict(f, S)) \in Int
         /\ IsFiniteSet(S \cup {x})
<1>1. IsFiniteSet(S \cup {x}) /\ S \in SUBSET (S \cup {x}) /\ x \in (S \cup {x}) \ S
  BY FS_AddElement
<1>2. Restrict(f, S \cup {x}) = f
  BY DEF Restrict
<1>3. SumFunction(f) \in Int
  BY <1>1, SumSplit
<1> QED
  BY <1>1, <1>2, <1>3, SumAdd

\* Group by group.
LEMMA SumGroups ==
  ASSUME NEW S, IsFiniteSet(S), NEW K, IsFiniteSet(K),
         NEW f \in [S -> Int], NEW group \in [S -> K]
  PROVE  /\ \A k \in K : SumFunction([x \in {y \in S : group[y] = k} |-> f[x]]) \in Int
         /\ SumFunction([k \in K |-> SumFunction([x \in {y \in S : group[y] = k} |-> f[x]])])
              = SumFunction(f)
<1> DEFINE m == [k \in K |-> [x \in S |-> IF group[x] = k THEN f[x] ELSE 0]]
<1>1. m \in [K -> [S -> Int]]
  OBVIOUS
<1>2. ASSUME NEW k \in K
      PROVE  /\ SumFunction([x \in S |-> m[k][x]]) = SumFunction([x \in {y \in S : group[y] = k} |-> f[x]])
             /\ SumFunction([x \in {y \in S : group[y] = k} |-> f[x]]) \in Int
  <2> DEFINE T == {y \in S : group[y] = k}
             r == [x \in S |-> m[k][x]]
  <2>1. r \in [S -> Int] /\ T \in SUBSET S /\ \A x \in S \ T : r[x] = 0
    OBVIOUS
  <2>2. Restrict(r, T) = [x \in T |-> f[x]]
    BY DEF Restrict
  <2> HIDE DEF r, T
  <2>3. SumFunction(r) = SumFunction(Restrict(r, T)) /\ SumFunction(r) \in Int
    BY <2>1, SumZeros, SumSplit
  <2> QED
    BY <2>2, <2>3 DEF r, T
<1>3. ASSUME NEW x \in S
      PROVE  SumFunction([k \in K |-> m[k][x]]) = f[x]
  <2> DEFINE r == [k \in K |-> m[k][x]]
             g == group[x]
  <2>1. r \in [K -> Int] /\ g \in K /\ r[g] = f[x]
    OBVIOUS
  <2>2. \A k \in K \ {g} : r[k] = 0
    OBVIOUS
  <2>3. [k \in K \ {g} |-> r[k]] = [k \in K \ {g} |-> 0]
    BY <2>2
  <2> HIDE DEF r, g
  <2>4. SumFunction(r) = r[g] + SumFunction([k \in K \ {g} |-> r[k]])
    <3>1. \A z \in K : SumFunction(r) = r[z] + SumFunction([k \in K \ {z} |-> r[k]])
      BY <2>1, SumSplit
    <3> QED
      BY <2>1, <3>1
  <2>5. IsFiniteSet(K \ {g})
    BY FS_RemoveElement
  <2>6. SumFunction([k \in K \ {g} |-> 0]) = 0
    BY <2>5, SumZero
  <2> QED
    BY <2>1, <2>3, <2>4, <2>6 DEF r
<1>4. SumFunction([k \in K |-> SumFunction([x \in S |-> m[k][x]])])
        = SumFunction([x \in S |-> SumFunction([k \in K |-> m[k][x]])])
  <2> HIDE DEF m
  <2> QED
    BY <1>1, SumSwap
<1>5. [k \in K |-> SumFunction([x \in S |-> m[k][x]])]
        = [k \in K |-> SumFunction([x \in {y \in S : group[y] = k} |-> f[x]])]
  BY <1>2
<1>6. [x \in S |-> SumFunction([k \in K |-> m[k][x]])] = f
  BY <1>3
<1> QED
  BY <1>2, <1>4, <1>5, <1>6

LEMMA SumGrouped ==
  ASSUME NEW S, IsFiniteSet(S), NEW K, IsFiniteSet(K),
         NEW f \in [S -> Int], NEW group \in [S -> K],
         NEW part \in [K -> SUBSET S], \A k \in K : \A y \in S : y \in part[k] <=> group[y] = k,
         NEW sums \in [K -> Int], \A k \in K : sums[k] = SumFunction(Restrict(f, part[k]))
  PROVE  SumFunction(sums) = SumFunction(f)
<1>1. ASSUME NEW k \in K
      PROVE  sums[k] = SumFunction([x \in {y \in S : group[y] = k} |-> f[x]])
  <2>1. part[k] = {y \in S : group[y] = k}
    OBVIOUS
  <2>2. Restrict(f, part[k]) = [x \in {y \in S : group[y] = k} |-> f[x]]
    BY <2>1 DEF Restrict
  <2> QED
    BY <2>2
<1>2. sums = [k \in K |-> SumFunction([x \in {y \in S : group[y] = k} |-> f[x]])]
  BY <1>1
<1>3. SumFunction([k \in K |-> SumFunction([x \in {y \in S : group[y] = k} |-> f[x]])])
        = SumFunction(f)
  BY SumGroups
<1> QED
  BY <1>2, <1>3

\* Entries that are named apart are added up by their names.
LEMMA SumNames ==
  ASSUME NEW S, IsFiniteSet(S), NEW N, NEW f \in [N -> Int], NEW name \in [S -> N],
         \A x, y \in S : name[x] = name[y] => x = y
  PROVE  SumFunction([x \in S |-> f[name[x]]]) = SumFunction([n \in {name[x] : x \in S} |-> f[n]])
<1> DEFINE Names(U) == {name[x] : x \in U}
           F == {U \in SUBSET S : /\ IsFiniteSet(Names(U))
                                  /\ SumFunction([x \in U |-> f[name[x]]]) = SumFunction([n \in Names(U) |-> f[n]])}
<1>1. {} \in F
  <2>1. Names({}) = {} /\ IsFiniteSet({})
    BY FS_EmptySet
  <2>2. [x \in {} |-> f[name[x]]] \in [{} -> Int] /\ [n \in {} |-> f[n]] \in [{} -> Int]
    OBVIOUS
  <2>3. SumFunction([x \in {} |-> f[name[x]]]) = 0
    BY <2>2, SumNone
  <2>4. SumFunction([n \in {} |-> f[n]]) = 0
    BY <2>2, SumNone
  <2> QED
    BY <2>1, <2>3, <2>4
<1>2. ASSUME NEW U \in SUBSET S, NEW x \in S, U \in F, x \notin U
      PROVE  U \cup {x} \in F
  <2> DEFINE a == [y \in U \cup {x} |-> f[name[y]]]
             v == name[x]
             V == Names(U)
             b == [n \in V \cup {v} |-> f[n]]
  <2>1. IsFiniteSet(U) /\ IsFiniteSet(V) /\ x \notin U
    BY <1>2, FS_Subset
  <2>2. v \notin V /\ Names(U \cup {x}) = V \cup {v}
    BY <1>2
  <2>3. a \in [U \cup {x} -> Int] /\ b \in [V \cup {v} -> Int]
    BY <1>2
  <2>4. /\ a[x] = f[v] /\ Restrict(a, U) = [y \in U |-> f[name[y]]]
        /\ b[v] = f[v] /\ Restrict(b, V) = [n \in V |-> f[n]]
    BY DEF Restrict
  <2>5. SumFunction(a) = a[x] + SumFunction(Restrict(a, U))
    <3> HIDE DEF a, b, v, V, F, Names
    <3> QED
      BY <2>1, <2>3, SumMore
  <2>6. SumFunction(b) = b[v] + SumFunction(Restrict(b, V)) /\ IsFiniteSet(V \cup {v})
    <3> HIDE DEF a, b, v, V, F, Names
    <3> QED
      BY <2>1, <2>2, <2>3, SumMore
  <2>7. SumFunction([y \in U |-> f[name[y]]]) = SumFunction([n \in Names(U) |-> f[n]])
    BY <1>2
  <2>8. SumFunction(a) = SumFunction(b)
    BY <2>4, <2>5, <2>6, <2>7
  <2> QED
    BY <1>2, <2>2, <2>6, <2>8
<1> HIDE DEF F
<1>3. S \in F
  BY <1>1, <1>2, SetInduct
<1> QED
  BY <1>3 DEF F

\* Sums that differ in one entry.
LEMMA SumDiffers ==
  ASSUME NEW S, IsFiniteSet(S), NEW f \in [S -> Int], NEW g \in [S -> Int], NEW k \in S,
         NEW d \in Int, \A i \in S : f[i] - g[i] = IF i = k THEN d ELSE 0
  PROVE  SumFunction(f) - SumFunction(g) = d
<1> DEFINE h == [i \in S |-> f[i] - g[i]]
           K == {k}
           none == {}
           one == Restrict(h, K)
<1>1. h \in [S -> Int] /\ h = [i \in S |-> f[i] - g[i]] /\ h[k] = d
      /\ K \in SUBSET S /\ \A i \in S \ K : h[i] = 0
  OBVIOUS
<1>2. /\ one \in [none \cup {k} -> Int] /\ one[k] = h[k] /\ Restrict(one, none) \in [none -> Int]
      /\ IsFiniteSet(none) /\ k \notin none
  <2> HIDE DEF h
  <2> QED
    BY <1>1, FS_EmptySet DEF Restrict
<1> HIDE DEF h, K, one
<1>3. SumFunction(Restrict(one, none)) = 0
  BY <1>2, SumNone
<1> HIDE DEF none
<1>4. SumFunction(one) = one[k] + SumFunction(Restrict(one, none))
  BY <1>2, SumMore
<1>5. SumFunction(h) = SumFunction(one)
  BY <1>1, SumZeros DEF one
<1>6. SumFunction(h) = SumFunction(f) - SumFunction(g)
  BY <1>1, SumMinus
<1> QED
  BY <1>1, <1>2, <1>3, <1>4, <1>5, <1>6

-----------------------------------------------------------------------------
(* Sequences that are put together.                                         *)

\* Sequences are put together one after the other.
LEMMA FlattenUnfold ==
  ASSUME NEW X, NEW s \in Seq(Seq(X))
  PROVE  \E f : /\ FlattenSeq(s) = f[Len(s)] /\ f[0] = << >>
                /\ \A i \in 1 .. Len(s) : f[i] = f[i - 1] \o s[i]
                /\ \A i \in 0 .. Len(s) : f[i] \in Seq(X)
<1> DEFINE N == Len(s)
           Y == Seq(X)
           base == << >>
           step == [i \in 1 .. N |-> [r \in Y |-> r \o s[i]]]
           Flat(f) == f = [i \in 1 .. N |-> IF i = 1 THEN s[i] ELSE f[i - 1] \o s[i]]
           flatten == CHOOSE f : Flat(f)
<1>1. N \in Nat /\ DOMAIN s = 1 .. N /\ \A i \in 1 .. N : s[i] \in Seq(X)
  OBVIOUS
<1>2. \A r \in Y, t \in Y : r \o t \in Y
  OBVIOUS
<1>3. StepsIn(step, N, Y)
  BY <1>1, <1>2 DEF StepsIn
<1>4. base \in Y
  OBVIOUS
<1>5. PICK f : Recurses(f, N, Y, base, step)
  <2> HIDE DEF N, Y, base, step
  <2> QED
    BY <1>1, <1>3, <1>4, Recursion
<1>6. f \in [0 .. N -> Y] /\ f[0] = << >>
  BY <1>5 DEF Recurses
<1>7. ASSUME NEW i \in 1 .. N
      PROVE  f[i] = f[i - 1] \o s[i]
  <2>1. i - 1 \in 0 .. N
    BY <1>1
  <2>2. f[i - 1] \in Y
    BY <1>6, <2>1
  <2>3. step[i] = [r \in Y |-> r \o s[i]]
    OBVIOUS
  <2>4. f[i] = step[i][f[i - 1]]
    BY <1>5 DEF Recurses
  <2> HIDE DEF step, Y
  <2> QED
    BY <2>2, <2>3, <2>4
<1> DEFINE g == [i \in 1 .. N |-> f[i]]
<1>8. Flat(g)
  <2>1. ASSUME NEW i \in 1 .. N
        PROVE  g[i] = IF i = 1 THEN s[i] ELSE g[i - 1] \o s[i]
    <3>1. CASE i = 1
      <4>0. 1 \in 1 .. N /\ 1 - 1 = 0
        BY <3>1
      <4>1. f[1] = << >> \o s[1] /\ s[1] \in Seq(X)
        BY <1>1, <1>6, <1>7, <4>0
      <4>2. << >> \o s[1] = s[1]
        BY <4>1, ConcatEmptySeq
      <4> QED
        BY <3>1, <4>1, <4>2
    <3>2. CASE i # 1
      <4>1. i - 1 \in 1 .. N
        BY <1>1, <3>2
      <4> QED
        BY <1>7, <3>2, <4>1
    <3> QED
      BY <3>1, <3>2
  <2> QED
    BY <2>1
<1>9. Flat(flatten)
  <2> HIDE DEF Flat
  <2> QED
    BY <1>8
<1>10. FlattenSeq(s) = IF N = 0 THEN s ELSE flatten[N]
  BY DEF FlattenSeq
<1> HIDE DEF flatten
<1>11. \A i \in 1 .. N : flatten[i] = f[i]
  <2> DEFINE M == {n \in Nat : n + 1 <= N => flatten[n + 1] = f[n + 1]}
  <2>1. 0 \in M
    <3>1. SUFFICES ASSUME 1 <= N
                   PROVE  flatten[1] = f[1]
      OBVIOUS
    <3>2. 1 \in 1 .. N
      BY <1>1, <3>1
    <3>3. flatten[1] = s[1] /\ g[1] = s[1] /\ g[1] = f[1]
      BY <1>8, <1>9, <3>2
    <3> QED
      BY <3>3
  <2>2. ASSUME NEW n \in Nat, n \in M
        PROVE  n + 1 \in M
    <3>1. SUFFICES ASSUME n + 2 <= N
                   PROVE  flatten[n + 2] = f[n + 2]
      BY <1>1
    <3>2. n + 2 \in 1 .. N /\ n + 2 # 1 /\ (n + 2) - 1 = n + 1 /\ n + 1 <= N
      BY <1>1, <3>1
    <3>3. flatten[n + 2] = flatten[n + 1] \o s[n + 2]
      BY <1>9, <3>2
    <3>4. f[n + 2] = f[n + 1] \o s[n + 2]
      BY <1>7, <3>2
    <3> QED
      BY <2>2, <3>2, <3>3, <3>4
  <2> HIDE DEF M
  <2>3. Nat \subseteq M
    BY <2>1, <2>2, Induct
  <2>4. ASSUME NEW i \in 1 .. N
        PROVE  flatten[i] = f[i]
    <3>1. i - 1 \in M /\ (i - 1) + 1 = i
      BY <1>1, <2>3
    <3> QED
      BY <1>1, <3>1 DEF M
  <2> QED
    BY <2>4
<1>12. FlattenSeq(s) = f[N]
  <2>1. CASE N = 0
    <3>1. s = << >>
      BY <2>1
    <3> QED
      BY <1>6, <1>10, <2>1, <3>1
  <2>2. CASE N # 0
    <3>1. N \in 1 .. N
      BY <1>1, <2>2
    <3> QED
      BY <1>10, <1>11, <2>2, <3>1
  <2> QED
    BY <2>1, <2>2
<1> QED
  BY <1>6, <1>7, <1>12

LEMMA Joined ==
  ASSUME NEW x, NEW y, NEW z
  PROVE  <<x>> \o <<y>> = <<x, y>> /\ <<x>> \o <<y>> \o <<z>> = <<x, y, z>>
<1> DEFINE S == {x, y, z}
<1>1. <<x>> \in Seq(S) /\ <<y>> \in Seq(S) /\ <<z>> \in Seq(S)
      /\ <<x, y>> \in Seq(S) /\ <<x, y, z>> \in Seq(S)
  OBVIOUS
<1>2. <<x>> \o <<y>> = <<x, y>>
  <2>1. /\ <<x>> \o <<y>> \in Seq(S) /\ Len(<<x>> \o <<y>>) = 2
        /\ \A i \in 1 .. 2 : (<<x>> \o <<y>>)[i] = IF i <= 1 THEN <<x>>[i] ELSE <<y>>[i - 1]
    BY <1>1, ConcatProperties
  <2>2. \A i \in 1 .. 2 : (<<x>> \o <<y>>)[i] = <<x, y>>[i]
    BY <2>1
  <2> QED
    BY <1>1, <2>1, <2>2, SeqEqual
<1>3. <<x, y>> \o <<z>> = <<x, y, z>>
  <2>1. /\ <<x, y>> \o <<z>> \in Seq(S) /\ Len(<<x, y>> \o <<z>>) = 3
        /\ \A i \in 1 .. 3 : (<<x, y>> \o <<z>>)[i] = IF i <= 2 THEN <<x, y>>[i] ELSE <<z>>[i - 2]
    BY <1>1, ConcatProperties
  <2>2. \A i \in 1 .. 3 : (<<x, y>> \o <<z>>)[i] = <<x, y, z>>[i]
    BY <2>1
  <2> QED
    BY <1>1, <2>1, <2>2, SeqEqual
<1> QED
  BY <1>2, <1>3

-----------------------------------------------------------------------------
(* The greatest, and the rank.                                              *)

\* The first of the highest.
LEMMA FirstHighest ==
  ASSUME NEW I \in SUBSET Nat, I # {}, NEW score \in [I -> 0 .. 210]
  PROVE  \E i \in I : \A j \in I : score[i] > score[j] \/ (score[i] = score[j] /\ i <= j)
<1> DEFINE lacks == {210 - score[i] : i \in I}
<1>0. \A i \in I : score[i] \in Nat /\ score[i] <= 210 /\ 210 - score[i] \in Nat
  <2>1. \A n \in 0 .. 210 : n \in Nat /\ n <= 210 /\ 210 - n \in Nat
    OBVIOUS
  <2> QED
    BY <2>1
<1>1. lacks \in SUBSET Nat /\ lacks # {}
  <2>1. lacks \subseteq Nat
    BY <1>0
  <2>2. PICK i : i \in I
    OBVIOUS
  <2>3. 210 - score[i] \in lacks
    BY <2>2
  <2> QED
    BY <2>1, <2>3
<1>2. PICK least \in lacks : \A n \in lacks : least <= n
  <2> HIDE DEF lacks
  <2> QED
    BY <1>1, LeastElement
<1>3. PICK k \in I : least = 210 - score[k]
  OBVIOUS
<1>4. \A j \in I : score[j] <= score[k]
  BY <1>0, <1>2, <1>3
<1> DEFINE tops == {i \in I : score[i] = score[k]}
<1>5. tops \in SUBSET Nat /\ tops # {}
  OBVIOUS
<1>6. PICK i \in tops : \A j \in tops : i <= j
  <2> HIDE DEF tops
  <2> QED
    BY <1>5, LeastElement
<1>7. ASSUME NEW j \in I
      PROVE  score[i] > score[j] \/ (score[i] = score[j] /\ i <= j)
  <2>1. CASE score[j] = score[k]
    BY <1>6, <2>1
  <2>2. CASE score[j] # score[k]
    BY <1>0, <1>4, <1>6, <2>2
  <2> QED
    BY <2>1, <2>2
<1> QED
  BY <1>7

LEMMA HighestIs ==
  ASSUME NEW S \in SUBSET Nat, IsFiniteSet(S)
  PROVE  Max({0} \cup S) \in Nat /\ \A y \in S : y <= Max({0} \cup S)
<1> DEFINE F == {T \in SUBSET S : \E x \in {0} \cup T : \A y \in {0} \cup T : x >= y}
<1>1. {} \in F
  OBVIOUS
<1>2. ASSUME NEW T \in SUBSET S, NEW z \in S, T \in F
      PROVE  T \cup {z} \in F
  <2>1. PICK x \in {0} \cup T : \A y \in {0} \cup T : x >= y
    BY <1>2
  <2>2. CASE x >= z
    BY <2>1, <2>2
  <2>3. CASE ~(x >= z)
    <3>1. z \in Nat /\ x \in Nat /\ \A y \in {0} \cup T : y \in Nat
      OBVIOUS
    <3>2. \A y \in {0} \cup (T \cup {z}) : z >= y
      BY <2>1, <2>3, <3>1
    <3> QED
      BY <3>2
  <2> QED
    BY <2>2, <2>3
<1> HIDE DEF F
<1>3. SUBSET S \subseteq F
  BY <1>1, <1>2, SetInduct
<1>4. S \in F
  BY <1>3
<1>5. PICK x \in {0} \cup S : \A y \in {0} \cup S : x >= y
  BY <1>4 DEF F
<1> DEFINE top == Max({0} \cup S)
<1>6. top \in {0} \cup S /\ \A y \in {0} \cup S : top >= y
  BY <1>5 DEF Max
<1> HIDE DEF top
<1>7. top \in Nat /\ \A y \in S : y <= top
  BY <1>6
<1> QED
  BY <1>7 DEF top

\* Of finitely many numbers one is the greatest.
LEMMA Greatest ==
  ASSUME NEW S, IsFiniteSet(S), S # {}, NEW f \in [S -> Int]
  PROVE  \E x \in S : \A y \in S : f[y] <= f[x]
<1> DEFINE F == {T \in SUBSET S : T = {} \/ \E x \in T : \A y \in T : f[y] <= f[x]}
<1>1. {} \in F
  OBVIOUS
<1>2. ASSUME NEW T \in SUBSET S, NEW z \in S, T \in F, z \notin T
      PROVE  T \cup {z} \in F
  <2>1. f[z] \in Int /\ \A y \in T : f[y] \in Int
    OBVIOUS
  <2>2. \A y \in T \cup {z} : y \in T \/ y = z
    OBVIOUS
  <2>3. CASE T = {}
    <3>1. \A y \in T \cup {z} : f[y] <= f[z]
      BY <2>1, <2>3
    <3> QED
      BY <3>1
  <2>4. CASE T # {}
    <3>1. PICK x \in T : \A y \in T : f[y] <= f[x]
      BY <1>2, <2>4
    <3>2. CASE f[z] <= f[x]
      <4>1. \A y \in T \cup {z} : f[y] <= f[x]
        BY <2>2, <3>1, <3>2
      <4> QED
        BY <3>1, <4>1
    <3>3. CASE ~(f[z] <= f[x])
      <4>1. \A y \in T \cup {z} : f[y] <= f[z]
        BY <2>1, <2>2, <3>1, <3>3
      <4> QED
        BY <4>1
    <3> QED
      BY <3>2, <3>3
  <2> QED
    BY <2>3, <2>4
<1> HIDE DEF F
<1>3. SUBSET S \subseteq F
  BY <1>1, <1>2, SetInduct
<1>4. S \in F
  BY <1>3
<1> QED
  BY <1>4 DEF F

\* In a strict order of n places, there is one place of each rank.
LEMMA RankIs ==
  ASSUME NEW n \in Nat, NEW before \in [1 .. n -> SUBSET (1 .. n)],
         \A i \in 1 .. n : i \notin before[i],
         \A i, j \in 1 .. n : i # j => i \in before[j] \/ j \in before[i],
         \A i, j \in 1 .. n : j \in before[i] => before[j] \subseteq before[i]
  PROVE  /\ \A i \in 1 .. n : Cardinality(before[i]) \in Nat /\ Cardinality(before[i]) + 1 \in 1 .. n
         /\ \A i, j \in 1 .. n : j \in before[i] => Cardinality(before[j]) < Cardinality(before[i])
         /\ \A k \in 1 .. n : \E i \in 1 .. n : Cardinality(before[i]) = k - 1
<1>1. IsFiniteSet(1 .. n) /\ Cardinality(1 .. n) = n
  BY FS_Interval
<1>2. ASSUME NEW i \in 1 .. n
      PROVE  /\ IsFiniteSet(before[i]) /\ Cardinality(before[i]) \in Nat
             /\ Cardinality(before[i]) + 1 \in 1 .. n
  <2>1. before[i] \in SUBSET ((1 .. n) \ {i})
    OBVIOUS
  <2>2. IsFiniteSet((1 .. n) \ {i}) /\ Cardinality((1 .. n) \ {i}) = n - 1
    BY <1>1, FS_RemoveElement
  <2>3. IsFiniteSet(before[i]) /\ Cardinality(before[i]) <= n - 1
    BY <2>1, <2>2, FS_Subset
  <2>4. Cardinality(before[i]) \in Nat
    BY <2>3, FS_CardinalityType
  <2> QED
    BY <2>3, <2>4
<1>3. ASSUME NEW i \in 1 .. n, NEW j \in 1 .. n, j \in before[i]
      PROVE  Cardinality(before[j]) < Cardinality(before[i])
  <2>1. before[j] \in SUBSET before[i] /\ before[j] # before[i]
    BY <1>3
  <2>2. /\ Cardinality(before[j]) <= Cardinality(before[i])
        /\ Cardinality(before[i]) # Cardinality(before[j])
    BY <1>2, <2>1, FS_Subset
  <2> QED
    BY <1>2, <2>2
<1>4. ASSUME NEW k \in 1 .. n
      PROVE  \E i \in 1 .. n : Cardinality(before[i]) = k - 1
  <2> DEFINE f == [i \in 1 .. n |-> Cardinality(before[i]) + 1]
  <2>1. f \in [1 .. n -> 1 .. n]
    BY <1>2
  <2>2. \A i, j \in 1 .. n : f[i] = f[j] => i = j
    <3> SUFFICES ASSUME NEW i \in 1 .. n, NEW j \in 1 .. n, f[i] = f[j], i # j
                 PROVE  FALSE
      OBVIOUS
    <3>1. Cardinality(before[i]) = Cardinality(before[j])
      BY <1>2
    <3>2. i \in before[j] \/ j \in before[i]
      OBVIOUS
    <3> QED
      BY <1>2, <1>3, <3>1, <3>2
  <2>6. \A i \in 1 .. n : f[i] = Cardinality(before[i]) + 1
    OBVIOUS
  <2> HIDE DEF f
  <2>3. f \in Injection(1 .. n, 1 .. n)
    BY <2>1, <2>2 DEF Injection, IsInjective
  <2>4. f \in Surjection(1 .. n, 1 .. n)
    BY <1>1, <2>3, FS_Injection
  <2>5. PICK i \in 1 .. n : f[i] = k
    BY <2>4 DEF Surjection
  <2> QED
    <3>1. Cardinality(before[i]) + 1 = k
      BY <2>5, <2>6
    <3>3. Cardinality(before[i]) \in Nat
      BY <1>2
    <3>2. Cardinality(before[i]) = k - 1
      BY <3>1, <3>3
    <3> QED
      BY <3>2
<1> QED
  BY <1>2, <1>3, <1>4

-----------------------------------------------------------------------------
(* Products, remainders and squares.                                        *)

LEMMA Scaled ==
  ASSUME NEW a \in Int, NEW b \in Int, NEW c \in Nat \ {0}
  PROVE  a <= b <=> a * c <= b * c
<1>1. a * c \in Int /\ b * c \in Int
  OBVIOUS
<1>2. a <= b => a * c <= b * c
  OBVIOUS
<1>3. b < a => b * c < a * c
  OBVIOUS
<1> QED
  BY <1>1, <1>2, <1>3

LEMMA Monotone ==
  ASSUME NEW x \in Nat, NEW y \in Nat, x <= y, NEW z \in Nat
  PROVE  x * z <= y * z /\ x * x <= y * y /\ x * z \in Nat /\ y * z \in Nat /\ x * x \in Nat
  OBVIOUS

LEMMA LeapStep ==
  ASSUME NEW y \in Int
  PROVE  /\ (y \div 4) - ((y - 1) \div 4) = IF y % 4 = 0 THEN 1 ELSE 0
         /\ (y \div 100) - ((y - 1) \div 100) = IF y % 100 = 0 THEN 1 ELSE 0
         /\ (y \div 400) - ((y - 1) \div 400) = IF y % 400 = 0 THEN 1 ELSE 0
         /\ (y % 100 = 0 => y % 4 = 0) /\ (y % 400 = 0 => y % 100 = 0)
<1>1. (y \div 4) - ((y - 1) \div 4) = IF y % 4 = 0 THEN 1 ELSE 0
  OBVIOUS
<1>2. (y \div 100) - ((y - 1) \div 100) = IF y % 100 = 0 THEN 1 ELSE 0
  OBVIOUS
<1>3. (y \div 400) - ((y - 1) \div 400) = IF y % 400 = 0 THEN 1 ELSE 0
  OBVIOUS
<1>4. y % 100 = 0 => y % 4 = 0
  OBVIOUS
<1>5. y % 400 = 0 => y % 100 = 0
  OBVIOUS
<1> QED
  BY <1>1, <1>2, <1>3, <1>4, <1>5

LEMMA CauchyStep ==
  ASSUME NEW a \in Int, NEW k \in Nat \ {0}, NEW r \in Int, NEW v \in Int, a * a <= k * r
  PROVE  (a + v) * (a + v) <= (k + 1) * (r + v * v)
<1> DEFINE x == (k + 1) * (r + v * v) - (a + v) * (a + v)
           w == a - k * v
<1>1. x \in Int /\ w \in Int
  OBVIOUS
<1>2. k * x = (k + 1) * (k * r - a * a) + w * w
  OBVIOUS
<1>3. (k + 1) * (k * r - a * a) >= 0
  OBVIOUS
<1>4. w * w >= 0
  OBVIOUS
<1>5. k * x >= 0
  BY <1>2, <1>3, <1>4
<1> HIDE DEF x
<1>6. x >= 0
  BY <1>1, <1>5
<1> QED
  BY <1>6 DEF x

\* The square of a sum is at most as many times the sum of the squares.
LEMMA Cauchy ==
  ASSUME NEW S, IsFiniteSet(S), NEW f \in [S -> Int], NEW g, g = [j \in S |-> f[j] * f[j]]
  PROVE  /\ SumFunction(f) \in Int /\ SumFunction(g) \in Int /\ Cardinality(S) \in Nat
         /\ SumFunction(f) * SumFunction(f) <= Cardinality(S) * SumFunction(g)
<1> DEFINE P(T) == SumFunction(Restrict(f, T))
           Q(T) == SumFunction(Restrict(g, T))
           F == {T \in SUBSET S : /\ P(T) \in Int /\ Q(T) \in Int /\ Cardinality(T) \in Nat
                                  /\ P(T) * P(T) <= Cardinality(T) * Q(T)
                                  /\ Cardinality(T) = 0 => P(T) = 0 /\ Q(T) = 0}
<1>1. g \in [S -> Int] /\ \A j \in S : g[j] = f[j] * f[j] /\ f[j] \in Int /\ g[j] \in Int
  OBVIOUS
<1>2. {} \in F
  <2>1. Restrict(f, {}) \in [{} -> Int] /\ Restrict(g, {}) \in [{} -> Int]
    BY DEF Restrict
  <2>2. P({}) = 0 /\ Q({}) = 0
    BY <2>1, SumNone
  <2>3. Cardinality({}) = 0
    BY FS_EmptySet
  <2> HIDE DEF P, Q
  <2> QED
    BY <2>2, <2>3
<1>3. ASSUME NEW T \in SUBSET S, NEW x \in S, T \in F, x \notin T
      PROVE  T \cup {x} \in F
  <2>1. P(T \cup {x}) = f[x] + P(T) /\ Q(T \cup {x}) = g[x] + Q(T)
    <3>1. x \in S \ T
      BY <1>3
    <3> QED
      BY <1>1, <3>1, SumAdd
  <2>2. Cardinality(T \cup {x}) = Cardinality(T) + 1
    BY <1>3, FS_Subset, FS_AddElement
  <2> DEFINE k == Cardinality(T)
             a == P(T)
             r == Q(T)
             v == f[x]
  <2>3. /\ a \in Int /\ r \in Int /\ k \in Nat /\ a * a <= k * r
        /\ k = 0 => a = 0 /\ r = 0
    BY <1>3
  <2>4. v \in Int /\ g[x] = v * v
    BY <1>1
  <2>5. P(T \cup {x}) = a + v /\ Q(T \cup {x}) = r + v * v /\ Cardinality(T \cup {x}) = k + 1
    BY <1>1, <2>1, <2>2, <2>3, <2>4
  <2> HIDE DEF P, Q, k, a, r, v
  <2>6. (a + v) * (a + v) <= (k + 1) * (r + v * v)
    <3>1. CASE k = 0
      BY <2>3, <2>4, <3>1
    <3>2. CASE k # 0
      BY <2>3, <2>4, <3>2, CauchyStep
    <3> QED
      BY <3>1, <3>2
  <2>7. a + v \in Int /\ r + v * v \in Int /\ k + 1 \in Nat /\ k + 1 # 0
    BY <2>3, <2>4
  <2> QED
    BY <2>5, <2>6, <2>7
<1> HIDE DEF F
<1>4. SUBSET S \subseteq F
  BY <1>2, <1>3, SetInduct
<1>5. S \in F
  BY <1>4
<1>6. Restrict(f, S) = f /\ Restrict(g, S) = g
  BY <1>1 DEF Restrict
<1> QED
  BY <1>5, <1>6 DEF F

LEMMA Deviation ==
  ASSUME NEW b \in Int, NEW m \in Nat, NEW r \in Int, NEW v \in Int, b * b <= m * r
  PROVE  (m * v - b) * (m * v - b) <= m * ((m + 1) * (r + v * v) - (b + v) * (b + v))
<1>1. m * ((m + 1) * (r + v * v) - (b + v) * (b + v)) - (m * v - b) * (m * v - b)
        = (m + 1) * (m * r - b * b)
  OBVIOUS
<1>2. (m + 1) * (m * r - b * b) >= 0
  OBVIOUS
<1> QED
  BY <1>1, <1>2

LEMMA Excess ==
  ASSUME NEW a \in Int, NEW v \in Int, a <= v, NEW b \in Int, NEW m \in Nat
  PROVE  (m + 1) * a - (v + b) <= m * v - b
<1>1. m + 1 \in Nat \ {0} /\ (m + 1) * v = m * v + v /\ m * v \in Int
  OBVIOUS
<1>2. (m + 1) * a \in Int /\ (m + 1) * a = a * (m + 1) /\ (m + 1) * v = v * (m + 1)
  OBVIOUS
<1>3. a * (m + 1) <= v * (m + 1)
  BY <1>1, Scaled
<1> QED
  BY <1>1, <1>2, <1>3

\* Samuelson's inequality: no number is further from the mean of n numbers
\* than the square root of n - 1 deviations.
LEMMA Samuelson ==
  ASSUME NEW S, IsFiniteSet(S), NEW f \in [S -> Int], NEW g, g = [j \in S |-> f[j] * f[j]],
         NEW a \in Int, NEW k \in Nat, Cardinality(S) <= k * k + 1, NEW j \in S,
         NEW above, above = Cardinality(S) * a - SumFunction(f), above > 0,
         NEW variance, variance > 0, above * above > k * k * variance,
         variance = Cardinality(S) * SumFunction(g) - SumFunction(f) * SumFunction(f)
  PROVE  f[j] < a
<1> SUFFICES ASSUME f[j] >= a
             PROVE  FALSE
  <2>1. f[j] \in Int
    OBVIOUS
  <2> QED
    BY <2>1
<1> DEFINE T == S \ {j}
           m == Cardinality(T)
           b == SumFunction(Restrict(f, T))
           r == SumFunction(Restrict(g, T))
           v == f[j]
           dd == k * k
<1>1. g \in [S -> Int] /\ g[j] = v * v /\ v \in Int
  OBVIOUS
<1>2. above > 0 /\ variance > 0 /\ above * above > dd * variance
  OBVIOUS
<1>3. IsFiniteSet(T) /\ m \in Nat /\ Cardinality(S) = m + 1
  <2>1. IsFiniteSet(T) /\ m = Cardinality(S) - 1
    BY FS_RemoveElement
  <2>2. Cardinality(S) \in Nat /\ m \in Nat
    BY <2>1, FS_CardinalityType
  <2> QED
    BY <2>1, <2>2
<1>4. b \in Int /\ r \in Int /\ b * b <= m * r
  <2> DEFINE p == Restrict(f, T)
             q == Restrict(g, T)
  <2>1. p \in [T -> Int] /\ q = [i \in T |-> p[i] * p[i]]
    BY DEF Restrict
  <2> HIDE DEF T, p, q
  <2>2. SumFunction(p) \in Int /\ SumFunction(q) \in Int
        /\ SumFunction(p) * SumFunction(p) <= Cardinality(T) * SumFunction(q)
    BY <1>3, <2>1, Cauchy
  <2> QED
    BY <2>2 DEF p, q
<1>5. SumFunction(f) = v + b /\ SumFunction(g) = v * v + r
  <2>1. j \in S \ T /\ T \in SUBSET S /\ T \cup {j} = S
    OBVIOUS
  <2> HIDE DEF T
  <2>2. /\ SumFunction(Restrict(f, T \cup {j})) = f[j] + SumFunction(Restrict(f, T))
        /\ SumFunction(Restrict(g, T \cup {j})) = g[j] + SumFunction(Restrict(g, T))
    <3>1. ASSUME NEW h \in [S -> Int]
          PROVE  SumFunction(Restrict(h, T \cup {j})) = h[j] + SumFunction(Restrict(h, T))
      BY <2>1, SumAdd
    <3> QED
      BY <1>1, <3>1
  <2>3. Restrict(f, S) = f /\ Restrict(g, S) = g
    BY <1>1 DEF Restrict
  <2> QED
    BY <1>1, <2>1, <2>2, <2>3
<1>6. above = (m + 1) * a - (v + b) /\ variance = (m + 1) * (v * v + r) - (v + b) * (v + b)
  BY <1>3, <1>5
<1>7. m <= dd /\ dd \in Nat
  BY <1>3
<1> HIDE DEF T, m, b, r, v, dd
<1>8. v >= a
  BY DEF v
<1> DEFINE y == m * v - b
<1>9. y * y <= m * variance
  <2>1. y * y <= m * ((m + 1) * (r + v * v) - (b + v) * (b + v))
    BY <1>1, <1>3, <1>4, Deviation
  <2>2. (m + 1) * (r + v * v) - (b + v) * (b + v) = variance
    BY <1>1, <1>3, <1>4, <1>6
  <2> QED
    BY <2>1, <2>2
<1>10. y \in Int /\ above \in Int /\ variance \in Int
  BY <1>1, <1>3, <1>4, <1>6
<1>11. above <= y
  <2>1. y = m * v - b
    OBVIOUS
  <2> HIDE DEF y
  <2>2. (m + 1) * a - (v + b) <= m * v - b
    BY <1>1, <1>3, <1>4, <1>8, Excess
  <2> QED
    BY <1>6, <2>1, <2>2
<1> HIDE DEF y
<1>12. above \in Nat /\ variance \in Nat /\ y \in Nat
  BY <1>2, <1>10, <1>11
<1>13. above * above <= y * y /\ m * variance <= dd * variance
       /\ above * above \in Nat /\ y * y \in Nat /\ m * variance \in Nat /\ dd * variance \in Nat
  BY <1>3, <1>7, <1>11, <1>12, Monotone
<1> QED
  BY <1>2, <1>9, <1>13

-----------------------------------------------------------------------------
(* Three bytes and four digits to the base of 64.                             *)

Byte == 0 .. 255

\* Four digits say what the three bytes were.
LEMMA FourDigits ==
  ASSUME NEW n \in Nat
  PROVE  (n \div 262144) * 262144 + ((n \div 4096) % 64) * 4096 + ((n \div 64) % 64) * 64 + (n % 64) = n
<1>1. n = (n \div 64) * 64 + (n % 64)
  BY SMT
<1>2. /\ n \div 64 \in Nat /\ (n \div 64) \div 64 = n \div 4096
      /\ n \div 64 = (n \div 4096) * 64 + ((n \div 64) % 64)
  BY SMT
<1>3. /\ n \div 4096 \in Nat /\ (n \div 4096) \div 64 = n \div 262144
      /\ n \div 4096 = (n \div 262144) * 64 + ((n \div 4096) % 64)
  BY SMT
<1> QED
  BY <1>1, <1>2, <1>3, SMT

LEMMA ThreeBytes ==
  ASSUME NEW a \in Byte, NEW b \in Byte, NEW c \in Byte, NEW n, n = a * 65536 + b * 256 + c
  PROVE  /\ n \in Nat
         /\ n \div 65536 = a /\ (n \div 256) % 256 = b /\ n % 256 = c
         /\ c = 0 => n % 64 = 0
         /\ b = 0 /\ c = 0 => (n \div 64) % 64 = 0
         /\ n \div 262144 \in 0 .. 63
<1> USE DEF Byte
<1>1. n \in Nat
  BY SMT
<1>2. n \div 65536 = a
  BY SMT
<1>3. n \div 256 = a * 256 + b
  BY SMT
<1>4. (n \div 256) % 256 = b
  BY <1>3, SMT
<1>5. n % 256 = c
  BY SMT
<1>6. c = 0 => n % 64 = 0
  BY SMT
<1>7. b = 0 /\ c = 0 => (n \div 64) % 64 = 0
  <2>1. b = 0 /\ c = 0 => n \div 64 = a * 1024
    BY SMT
  <2> QED
    BY <2>1, SMT
<1>8. n \div 262144 \in 0 .. 63
  BY <1>1, SMT
<1> QED
  BY <1>1, <1>2, <1>4, <1>5, <1>6, <1>7, <1>8, SMT

-----------------------------------------------------------------------------
(* The tables of distances of two words: each entry comes from one of its   *)
(* neighbours, by a letter more, a letter less, or another letter.          *)

Lesser(x, y) == IF x < y THEN x ELSE y
Unlike(x, y) == IF x = y THEN 0 ELSE 1

Letter(a, i) == SubSeq(a, i, i)

\* D holds the distances of the beginnings of a and b.
IsTable(D, a, b) ==
  /\ D \in [0 .. Len(a) -> [0 .. Len(b) -> Nat]]
  /\ \A i \in 0 .. Len(a) : D[i][0] = i
  /\ \A j \in 0 .. Len(b) : D[0][j] = j
  /\ \A i \in 1 .. Len(a), j \in 1 .. Len(b) :
       D[i][j] = Lesser(Lesser(D[i - 1][j], D[i][j - 1]) + 1,
                        D[i - 1][j - 1] + Unlike(Letter(a, i), Letter(b, j)))

\* An entry is the least of what it may come from, and comes from one of them.
LEMMA Attained ==
  ASSUME NEW a, NEW b, Len(a) \in Nat, Len(b) \in Nat, NEW D, IsTable(D, a, b),
         NEW i \in 1 .. Len(a), NEW j \in 1 .. Len(b)
  PROVE  /\ i \in Nat /\ j \in Nat /\ i - 1 \in 0 .. Len(a) /\ j - 1 \in 0 .. Len(b)
         /\ i \in 0 .. Len(a) /\ j \in 0 .. Len(b)
         /\ D[i][j] \in Nat /\ D[i - 1][j] \in Nat /\ D[i][j - 1] \in Nat
         /\ D[i - 1][j - 1] \in Nat
         /\ D[i][j] <= D[i - 1][j] + 1 /\ D[i][j] <= D[i][j - 1] + 1
         /\ D[i][j] <= D[i - 1][j - 1] + Unlike(Letter(a, i), Letter(b, j))
         /\ \/ D[i][j] = D[i - 1][j] + 1
            \/ D[i][j] = D[i][j - 1] + 1
            \/ D[i][j] = D[i - 1][j - 1] + Unlike(Letter(a, i), Letter(b, j))
<1> DEFINE x == D[i - 1][j]
           y == D[i][j - 1]
           z == D[i - 1][j - 1]
           k == Unlike(Letter(a, i), Letter(b, j))
<1>1. /\ i \in Nat /\ j \in Nat /\ i - 1 \in 0 .. Len(a) /\ j - 1 \in 0 .. Len(b)
      /\ i \in 0 .. Len(a) /\ j \in 0 .. Len(b)
  OBVIOUS
<1>2. D[i][j] \in Nat /\ x \in Nat /\ y \in Nat /\ z \in Nat
  <2>1. D \in [0 .. Len(a) -> [0 .. Len(b) -> Nat]]
    BY DEF IsTable
  <2>2. \A v \in 0 .. Len(a), w \in 0 .. Len(b) : D[v][w] \in Nat
    BY <2>1
  <2> QED
    BY <1>1, <2>2
<1>3. D[i][j] = Lesser(Lesser(x, y) + 1, z + k)
  BY DEF IsTable
<1>4. k \in {0, 1}
  BY DEF Unlike
<1> HIDE DEF x, y, z, k
<1>5. /\ D[i][j] <= x + 1 /\ D[i][j] <= y + 1 /\ D[i][j] <= z + k
      /\ D[i][j] = x + 1 \/ D[i][j] = y + 1 \/ D[i][j] = z + k
  BY <1>2, <1>3, <1>4 DEF Lesser
<1> QED
  BY <1>1, <1>2, <1>5 DEF x, y, z, k

\* A distance is at least the difference of the lengths, and at most the longer.
LEMMA TableBounds ==
  ASSUME NEW a, NEW b, Len(a) \in Nat, Len(b) \in Nat, NEW D, IsTable(D, a, b)
  PROVE  \A i \in 0 .. Len(a), j \in 0 .. Len(b) :
           /\ D[i][j] \in Nat /\ i - j <= D[i][j] /\ j - i <= D[i][j]
           /\ D[i][j] <= i \/ D[i][j] <= j
<1> DEFINE Agree(i, j) == /\ D[i][j] \in Nat /\ i - j <= D[i][j] /\ j - i <= D[i][j]
                          /\ D[i][j] <= i \/ D[i][j] <= j
           N == {n \in Nat : \A i \in 0 .. Len(a), j \in 0 .. Len(b) : i + j <= n => Agree(i, j)}
<1>1. ASSUME NEW i \in 0 .. Len(a), NEW j \in 0 .. Len(b), i = 0 \/ j = 0
      PROVE  Agree(i, j)
  <2>1. i \in Nat /\ j \in Nat /\ D[i][j] \in Nat
    BY DEF IsTable
  <2>2. CASE i = 0
    BY <2>1, <2>2 DEF IsTable
  <2>3. CASE j = 0
    BY <2>1, <2>3 DEF IsTable
  <2> QED
    BY <1>1, <2>2, <2>3
<1>2. ASSUME NEW i \in 1 .. Len(a), NEW j \in 1 .. Len(b),
             Agree(i - 1, j), Agree(i, j - 1), Agree(i - 1, j - 1)
      PROVE  Agree(i, j)
  <2>1. Unlike(Letter(a, i), Letter(b, j)) \in {0, 1}
    BY DEF Unlike
  <2> DEFINE w == D[i][j]
             x == D[i - 1][j]
             y == D[i][j - 1]
             z == D[i - 1][j - 1]
             k == Unlike(Letter(a, i), Letter(b, j))
  <2>2. /\ i \in Nat /\ j \in Nat
        /\ w \in Nat /\ x \in Nat /\ y \in Nat /\ z \in Nat
        /\ w <= x + 1 /\ w <= y + 1 /\ w <= z + k
        /\ w = x + 1 \/ w = y + 1 \/ w = z + k
    BY Attained
  <2>3. /\ i - 1 - j <= x /\ j - (i - 1) <= x
        /\ i - (j - 1) <= y /\ j - 1 - i <= y
        /\ i - 1 - (j - 1) <= z /\ j - 1 - (i - 1) <= z
        /\ z <= i - 1 \/ z <= j - 1
    BY <1>2
  <2>4. k \in {0, 1}
    BY <2>1
  <2> HIDE DEF w, x, y, z, k
  <2>5. i - j <= w /\ j - i <= w /\ (w <= i \/ w <= j)
    BY <2>2, <2>3, <2>4
  <2> QED
    BY <2>2, <2>5 DEF w
<1> HIDE DEF Agree
<1>3. 0 \in N
  <2>1. ASSUME NEW i \in 0 .. Len(a), NEW j \in 0 .. Len(b), i + j <= 0
        PROVE  Agree(i, j)
    <3>1. i = 0
      BY <2>1
    <3> QED
      BY <1>1, <3>1
  <2> QED
    BY <2>1
<1>4. ASSUME NEW n \in Nat, n \in N
      PROVE  n + 1 \in N
  <2>1. ASSUME NEW i \in 0 .. Len(a), NEW j \in 0 .. Len(b), i + j <= n + 1
        PROVE  Agree(i, j)
    <3>1. CASE i = 0 \/ j = 0
      BY <1>1, <3>1
    <3>2. CASE i # 0 /\ j # 0
      <4>1. /\ i \in 1 .. Len(a) /\ j \in 1 .. Len(b)
            /\ i - 1 \in 0 .. Len(a) /\ j - 1 \in 0 .. Len(b)
            /\ i - 1 + j <= n /\ i + (j - 1) <= n /\ i - 1 + (j - 1) <= n
        BY <2>1, <3>2
      <4> QED
        BY <1>2, <1>4, <4>1
    <3> QED
      BY <3>1, <3>2
  <2> QED
    BY <2>1
<1> HIDE DEF N
<1>5. Nat \subseteq N
  BY <1>3, <1>4, Induct
<1>6. ASSUME NEW i \in 0 .. Len(a), NEW j \in 0 .. Len(b)
      PROVE  Agree(i, j)
  <2>1. i + j \in Nat /\ i + j <= i + j
    OBVIOUS
  <2> QED
    BY <1>5, <2>1 DEF N
<1> QED
  BY <1>6 DEF Agree

\* It is the same both ways.
LEMMA TableTurned ==
  ASSUME NEW a, NEW b, Len(a) \in Nat, Len(b) \in Nat,
         NEW D, IsTable(D, a, b), NEW E, IsTable(E, b, a)
  PROVE  \A i \in 0 .. Len(a), j \in 0 .. Len(b) : D[i][j] = E[j][i]
<1> DEFINE Agree(i, j) == D[i][j] = E[j][i]
           N == {n \in Nat : \A i \in 0 .. Len(a), j \in 0 .. Len(b) : i + j <= n => Agree(i, j)}
<1>1. ASSUME NEW i \in 0 .. Len(a), NEW j \in 0 .. Len(b), i = 0 \/ j = 0
      PROVE  Agree(i, j)
  BY <1>1 DEF IsTable
<1>2. ASSUME NEW i \in 1 .. Len(a), NEW j \in 1 .. Len(b),
             Agree(i - 1, j), Agree(i, j - 1), Agree(i - 1, j - 1)
      PROVE  Agree(i, j)
  <2>1. /\ D[i - 1][j] \in Nat /\ D[i][j - 1] \in Nat /\ D[i - 1][j - 1] \in Nat
    BY Attained
  <2>2. D[i][j] = Lesser(Lesser(D[i - 1][j], D[i][j - 1]) + 1,
                         D[i - 1][j - 1] + Unlike(Letter(a, i), Letter(b, j)))
    BY DEF IsTable
  <2>3. E[j][i] = Lesser(Lesser(E[j - 1][i], E[j][i - 1]) + 1,
                         E[j - 1][i - 1] + Unlike(Letter(b, j), Letter(a, i)))
    BY DEF IsTable
  <2>4. Unlike(Letter(b, j), Letter(a, i)) = Unlike(Letter(a, i), Letter(b, j))
    BY DEF Unlike
  <2>5. D[i - 1][j] = E[j][i - 1] /\ D[i][j - 1] = E[j - 1][i] /\ D[i - 1][j - 1] = E[j - 1][i - 1]
    BY <1>2
  <2>6. Lesser(D[i - 1][j], D[i][j - 1]) = Lesser(D[i][j - 1], D[i - 1][j])
    BY <2>1 DEF Lesser
  <2> QED
    BY <2>2, <2>3, <2>4, <2>5, <2>6
<1> HIDE DEF Agree
<1>3. 0 \in N
  <2>1. ASSUME NEW i \in 0 .. Len(a), NEW j \in 0 .. Len(b), i + j <= 0
        PROVE  Agree(i, j)
    <3>1. i = 0
      BY <2>1
    <3> QED
      BY <1>1, <3>1
  <2> QED
    BY <2>1
<1>4. ASSUME NEW n \in Nat, n \in N
      PROVE  n + 1 \in N
  <2>1. ASSUME NEW i \in 0 .. Len(a), NEW j \in 0 .. Len(b), i + j <= n + 1
        PROVE  Agree(i, j)
    <3>1. CASE i = 0 \/ j = 0
      BY <1>1, <3>1
    <3>2. CASE i # 0 /\ j # 0
      <4>1. /\ i \in 1 .. Len(a) /\ j \in 1 .. Len(b)
            /\ i - 1 \in 0 .. Len(a) /\ j - 1 \in 0 .. Len(b)
            /\ i - 1 + j <= n /\ i + (j - 1) <= n /\ i - 1 + (j - 1) <= n
        BY <2>1, <3>2
      <4> QED
        BY <1>2, <1>4, <4>1
    <3> QED
      BY <3>1, <3>2
  <2> QED
    BY <2>1
<1> HIDE DEF N
<1>5. Nat \subseteq N
  BY <1>3, <1>4, Induct
<1>6. ASSUME NEW i \in 0 .. Len(a), NEW j \in 0 .. Len(b)
      PROVE  Agree(i, j)
  <2>1. i + j \in Nat /\ i + j <= i + j
    OBVIOUS
  <2> QED
    BY <1>5, <2>1 DEF N
<1> QED
  BY <1>6 DEF Agree

\* Beginnings of one length have none if and only if their letters are the same.
LEMMA TableZero ==
  ASSUME NEW a, NEW b, Len(a) \in Nat, Len(b) \in Nat, NEW D, IsTable(D, a, b),
         NEW m \in 0 .. Len(a), m \in 0 .. Len(b)
  PROVE  D[m][m] = 0 <=> \A l \in 1 .. m : Letter(a, l) = Letter(b, l)
<1> DEFINE Same(n) == \A l \in 1 .. n : Letter(a, l) = Letter(b, l)
           N == {n \in Nat : n <= m => (D[n][n] = 0 <=> Same(n))}
<1>1. 0 \in N
  <2>1. D[0][0] = 0
    BY DEF IsTable
  <2> QED
    BY <2>1
<1>2. ASSUME NEW n \in Nat, n \in N
      PROVE  n + 1 \in N
  <2> SUFFICES ASSUME n + 1 <= m
               PROVE  D[n + 1][n + 1] = 0 <=> Same(n + 1)
    OBVIOUS
  <2> DEFINE i == n + 1
             k == Unlike(Letter(a, i), Letter(b, i))
  <2>1. i \in 1 .. Len(a) /\ i \in 1 .. Len(b) /\ i - 1 = n
    OBVIOUS
  <2>2. /\ D[i][i] \in Nat /\ D[n][i] \in Nat /\ D[i][n] \in Nat /\ D[n][n] \in Nat
        /\ D[i][i] <= D[n][n] + k
        /\ D[i][i] = D[n][i] + 1 \/ D[i][i] = D[i][n] + 1 \/ D[i][i] = D[n][n] + k
    <3> HIDE DEF i
    <3>1. /\ i \in Nat /\ i \in Nat /\ i - 1 \in 0 .. Len(a) /\ i - 1 \in 0 .. Len(b)
          /\ i \in 0 .. Len(a) /\ i \in 0 .. Len(b)
          /\ D[i][i] \in Nat /\ D[i - 1][i] \in Nat /\ D[i][i - 1] \in Nat
          /\ D[i - 1][i - 1] \in Nat
          /\ D[i][i] <= D[i - 1][i] + 1 /\ D[i][i] <= D[i][i - 1] + 1
          /\ D[i][i] <= D[i - 1][i - 1] + Unlike(Letter(a, i), Letter(b, i))
          /\ \/ D[i][i] = D[i - 1][i] + 1
             \/ D[i][i] = D[i][i - 1] + 1
             \/ D[i][i] = D[i - 1][i - 1] + Unlike(Letter(a, i), Letter(b, i))
      BY <2>1, Attained
    <3> QED
      BY <2>1, <3>1
  <2>3. k \in {0, 1} /\ (k = 0 <=> Letter(a, i) = Letter(b, i))
    BY DEF Unlike
  <2>4. Same(i) <=> Same(n) /\ Letter(a, i) = Letter(b, i)
    <3>1. \A l : l \in 1 .. i <=> l \in 1 .. n \/ l = i
      OBVIOUS
    <3> HIDE DEF i
    <3> QED
      BY <3>1
  <2>5. D[n][n] = 0 <=> Same(n)
    BY <1>2
  <2> HIDE DEF k, i, Same
  <2>6. D[i][i] = 0 <=> D[n][n] = 0 /\ k = 0
    <3> DEFINE x == D[i][i]
               y == D[n][n]
               z == D[n][i]
               w == D[i][n]
    <3>1. /\ x \in Nat /\ y \in Nat /\ z \in Nat /\ w \in Nat /\ k \in {0, 1}
          /\ x <= y + k /\ (x = z + 1 \/ x = w + 1 \/ x = y + k)
      BY <2>2, <2>3
    <3> HIDE DEF x, y, z, w
    <3>2. x = 0 <=> y = 0 /\ k = 0
      BY <3>1
    <3> QED
      BY <3>2 DEF x, y
  <2> QED
    BY <2>3, <2>4, <2>5, <2>6 DEF i
<1> HIDE DEF N
<1>3. Nat \subseteq N
  BY <1>1, <1>2, Induct
<1>4. m \in Nat /\ m <= m
  OBVIOUS
<1> QED
  BY <1>3, <1>4 DEF N

\* It is no longer than by a third word.
LEMMA TableTriangle ==
  ASSUME NEW a, NEW b, NEW c, Len(a) \in Nat, Len(b) \in Nat, Len(c) \in Nat,
         NEW D, IsTable(D, a, b), NEW E, IsTable(E, b, c), NEW F, IsTable(F, a, c)
  PROVE  \A i \in 0 .. Len(a), j \in 0 .. Len(b), k \in 0 .. Len(c) : F[i][k] <= D[i][j] + E[j][k]
<1> DEFINE Agree(i, j, k) == F[i][k] <= D[i][j] + E[j][k]
           N == {n \in Nat : \A i \in 0 .. Len(a), j \in 0 .. Len(b), k \in 0 .. Len(c) :
                               i + j + k <= n => Agree(i, j, k)}
<1>1. ASSUME NEW i \in 0 .. Len(a), NEW j \in 0 .. Len(b), NEW k \in 0 .. Len(c),
             i = 0 \/ j = 0 \/ k = 0
      PROVE  Agree(i, j, k)
  <2>1. i \in Nat /\ j \in Nat /\ k \in Nat
    OBVIOUS
  <2>2. /\ D[i][j] \in Nat /\ E[j][k] \in Nat /\ F[i][k] \in Nat
        /\ i - j <= D[i][j] /\ k - j <= E[j][k]
        /\ F[i][k] <= i \/ F[i][k] <= k
    BY TableBounds
  <2>3. CASE i = 0
    <3>1. F[i][k] = k /\ D[i][j] = j
      BY <2>3 DEF IsTable
    <3> QED
      BY <2>1, <2>2, <3>1
  <2>4. CASE j = 0
    <3>1. D[i][j] = i /\ E[j][k] = k
      BY <2>4 DEF IsTable
    <3> QED
      BY <2>1, <2>2, <3>1
  <2>5. CASE k = 0
    <3>1. F[i][k] = i /\ E[j][k] = j
      BY <2>5 DEF IsTable
    <3> QED
      BY <2>1, <2>2, <3>1
  <2> QED
    BY <1>1, <2>3, <2>4, <2>5
<1>2. ASSUME NEW i \in 1 .. Len(a), NEW j \in 1 .. Len(b), NEW k \in 1 .. Len(c),
             Agree(i - 1, j, k), Agree(i, j, k - 1), Agree(i, j - 1, k - 1),
             Agree(i - 1, j - 1, k), Agree(i, j - 1, k), Agree(i - 1, j - 1, k - 1)
      PROVE  Agree(i, j, k)
  <2> DEFINE ab == Unlike(Letter(a, i), Letter(b, j))
             bc == Unlike(Letter(b, j), Letter(c, k))
             ac == Unlike(Letter(a, i), Letter(c, k))
  <2>1. ab \in {0, 1} /\ bc \in {0, 1} /\ ac \in {0, 1} /\ ac <= ab + bc
    BY DEF Unlike
  <2>2. /\ D[i][j] \in Nat /\ D[i - 1][j] \in Nat /\ D[i][j - 1] \in Nat /\ D[i - 1][j - 1] \in Nat
        /\ D[i][j] = D[i - 1][j] + 1 \/ D[i][j] = D[i][j - 1] + 1 \/ D[i][j] = D[i - 1][j - 1] + ab
    BY Attained
  <2>3. /\ E[j][k] \in Nat /\ E[j - 1][k] \in Nat /\ E[j][k - 1] \in Nat /\ E[j - 1][k - 1] \in Nat
        /\ E[j][k] = E[j - 1][k] + 1 \/ E[j][k] = E[j][k - 1] + 1 \/ E[j][k] = E[j - 1][k - 1] + bc
    BY Attained
  <2>4. /\ F[i][k] \in Nat /\ F[i - 1][k] \in Nat /\ F[i][k - 1] \in Nat /\ F[i - 1][k - 1] \in Nat
        /\ F[i][k] <= F[i - 1][k] + 1 /\ F[i][k] <= F[i][k - 1] + 1 /\ F[i][k] <= F[i - 1][k - 1] + ac
    BY Attained
  <2> DEFINE d == D[i][j]
             d1 == D[i - 1][j]
             d2 == D[i][j - 1]
             d3 == D[i - 1][j - 1]
             e == E[j][k]
             e1 == E[j - 1][k]
             e2 == E[j][k - 1]
             e3 == E[j - 1][k - 1]
             f == F[i][k]
             f1 == F[i - 1][k]
             f2 == F[i][k - 1]
             f3 == F[i - 1][k - 1]
  <2>5. /\ f1 <= d1 + e /\ f2 <= d + e2 /\ f2 <= d2 + e3
        /\ f1 <= d3 + e1 /\ f <= d2 + e1 /\ f3 <= d3 + e3
    BY <1>2
  <2>6. d \in Nat /\ d1 \in Nat /\ d2 \in Nat /\ d3 \in Nat
        /\ (d = d1 + 1 \/ d = d2 + 1 \/ d = d3 + ab)
    BY <2>2
  <2>7. e \in Nat /\ e1 \in Nat /\ e2 \in Nat /\ e3 \in Nat
        /\ (e = e1 + 1 \/ e = e2 + 1 \/ e = e3 + bc)
    BY <2>3
  <2>8. f \in Nat /\ f1 \in Nat /\ f2 \in Nat /\ f3 \in Nat
        /\ f <= f1 + 1 /\ f <= f2 + 1 /\ f <= f3 + ac
    BY <2>4
  <2>9. f <= d + e
    <3> HIDE DEF ab, bc, ac, d, d1, d2, d3, e, e1, e2, e3, f, f1, f2, f3
    <3> QED
      BY <2>1, <2>5, <2>6, <2>7, <2>8
  <2> QED
    BY <2>9
<1> HIDE DEF Agree
<1>3. 0 \in N
  <2>1. ASSUME NEW i \in 0 .. Len(a), NEW j \in 0 .. Len(b), NEW k \in 0 .. Len(c), i + j + k <= 0
        PROVE  Agree(i, j, k)
    <3>1. i = 0
      BY <2>1
    <3> QED
      BY <1>1, <3>1
  <2> QED
    BY <2>1
<1>4. ASSUME NEW n \in Nat, n \in N
      PROVE  n + 1 \in N
  <2>1. ASSUME NEW i \in 0 .. Len(a), NEW j \in 0 .. Len(b), NEW k \in 0 .. Len(c),
               i + j + k <= n + 1
        PROVE  Agree(i, j, k)
    <3>1. CASE i = 0 \/ j = 0 \/ k = 0
      BY <1>1, <3>1
    <3>2. CASE i # 0 /\ j # 0 /\ k # 0
      <4>1. /\ i \in 1 .. Len(a) /\ j \in 1 .. Len(b) /\ k \in 1 .. Len(c)
            /\ i - 1 \in 0 .. Len(a) /\ j - 1 \in 0 .. Len(b) /\ k - 1 \in 0 .. Len(c)
        BY <3>2
      <4>2. /\ i - 1 + j + k <= n /\ i + j + (k - 1) <= n /\ i + (j - 1) + (k - 1) <= n
            /\ i - 1 + (j - 1) + k <= n /\ i + (j - 1) + k <= n
            /\ i - 1 + (j - 1) + (k - 1) <= n
        BY <2>1, <4>1
      <4>3. /\ Agree(i - 1, j, k) /\ Agree(i, j, k - 1) /\ Agree(i, j - 1, k - 1)
            /\ Agree(i - 1, j - 1, k) /\ Agree(i, j - 1, k) /\ Agree(i - 1, j - 1, k - 1)
        BY <1>4, <4>1, <4>2
      <4> QED
        BY <1>2, <4>1, <4>3
    <3> QED
      BY <3>1, <3>2
  <2> QED
    BY <2>1
<1> HIDE DEF N
<1>5. Nat \subseteq N
  BY <1>3, <1>4, Induct
<1>6. ASSUME NEW i \in 0 .. Len(a), NEW j \in 0 .. Len(b), NEW k \in 0 .. Len(c)
      PROVE  Agree(i, j, k)
  <2>1. i + j + k \in Nat /\ i + j + k <= i + j + k
    OBVIOUS
  <2> QED
    BY <1>5, <2>1 DEF N
<1> QED
  BY <1>6 DEF Agree

\* The row after prev is that of the table.
Follows(row, prev, i, a, b) ==
  /\ row \in Seq(Nat) /\ Len(row) = Len(b) + 1 /\ row[1] = i
  /\ \A j \in 1 .. Len(b) :
       row[j + 1] = Lesser(Lesser(prev[j + 1], row[j]) + 1,
                          prev[j] + Unlike(Letter(a, i), Letter(b, j)))

\* A row that is built entry by entry.
RowBy(f, prev, i, a, b) ==
  f = [j \in 0 .. Len(b) |->
         IF j = 0 THEN <<i>>
         ELSE Append(f[j - 1],
                     Lesser(Lesser(prev[j + 1], f[j - 1][j]) + 1,
                            prev[j] + Unlike(SubSeq(a, i, i), SubSeq(b, j, j))))]

LEMMA RowBuilt ==
  ASSUME NEW a, NEW b, Len(a) \in Nat, Len(b) \in Nat, NEW i \in Nat,
         NEW prev \in Seq(Nat), Len(prev) = Len(b) + 1,
         NEW upTo, (\E f : RowBy(f, prev, i, a, b)) => RowBy(upTo, prev, i, a, b)
  PROVE  Follows(upTo[Len(b)], prev, i, a, b)
<1> DEFINE n == Len(b)
           Entry(j, x) == Lesser(Lesser(prev[j + 1], x) + 1, prev[j] + Unlike(Letter(a, i), Letter(b, j)))
           X == Seq(Nat)
           step == [j \in 1 .. n |-> [r \in X |-> IF Len(r) = j THEN Append(r, Entry(j, r[j])) ELSE r]]
           Unfolded(f) ==
             f = [j \in 0 .. Len(b) |->
                    IF j = 0 THEN <<i>>
                    ELSE Append(f[j - 1],
                                Lesser(Lesser(prev[j + 1], f[j - 1][j]) + 1,
                                      prev[j] + Unlike(SubSeq(a, i, i), SubSeq(b, j, j))))]
<1>1. n \in Nat /\ \A j \in 1 .. n : prev[j] \in Nat /\ prev[j + 1] \in Nat
  OBVIOUS
<1>2. ASSUME NEW j \in 1 .. n, NEW x \in Nat
      PROVE  Entry(j, x) \in Nat
  <2>1. Unlike(Letter(a, i), Letter(b, j)) \in {0, 1}
    BY DEF Unlike
  <2>2. prev[j] \in Nat /\ prev[j + 1] \in Nat
    BY <1>1
  <2>3. Lesser(prev[j + 1], x) + 1 \in Nat
    BY <2>2 DEF Lesser
  <2>4. prev[j] + Unlike(Letter(a, i), Letter(b, j)) \in Nat
    BY <2>1, <2>2
  <2>5. \A v, w \in Nat : Lesser(v, w) \in Nat
    BY DEF Lesser
  <2> QED
    BY <2>3, <2>4, <2>5
<1>3. \A j \in 1 .. n, r \in X : Len(r) = j => r[j] \in Nat
  OBVIOUS
<1>4. \A j, x : Entry(j, x) =
        Lesser(Lesser(prev[j + 1], x) + 1, prev[j] + Unlike(SubSeq(a, i, i), SubSeq(b, j, j)))
  BY DEF Letter
<1> HIDE DEF Entry
<1>5. \E f : Unfolded(f)
  <2> DEFINE base == <<i>>
  <2>1. step \in [1 .. n -> [X -> X]]
    <3>1. ASSUME NEW j \in 1 .. n, NEW r \in X, Len(r) = j
          PROVE  Append(r, Entry(j, r[j])) \in X
      BY <1>2, <1>3, <3>1
    <3> HIDE DEF X
    <3> QED
      BY <3>1
  <2>2. base \in X
    OBVIOUS
  <2> HIDE DEF step
  <2>3. StepsIn(step, n, X)
    BY <2>1 DEF StepsIn
  <2>4. PICK f : Recurses(f, n, X, base, step)
    <3> HIDE DEF n, X, base, Unfolded
    <3> QED
      BY <1>1, <2>2, <2>3, Recursion
  <2>5. f \in [0 .. n -> X] /\ f[0] = base
        /\ \A j \in 1 .. n : f[j] = step[j][f[j - 1]]
    BY <2>4 DEF Recurses
  <2>6. ASSUME NEW j \in 1 .. n, Len(f[j - 1]) = j
        PROVE  f[j] = Append(f[j - 1], Entry(j, f[j - 1][j])) /\ Len(f[j]) = j + 1
    <3>1. f[j - 1] \in X
      <4>1. j - 1 \in 0 .. n
        BY <1>1
      <4> HIDE DEF X, n, base
      <4> QED
        BY <2>5, <4>1
    <3>2. step[j] = [r \in X |-> IF Len(r) = j THEN Append(r, Entry(j, r[j])) ELSE r]
      BY DEF step
    <3>3. f[j] = Append(f[j - 1], Entry(j, f[j - 1][j]))
      BY <2>5, <2>6, <3>1, <3>2
    <3> QED
      BY <2>6, <3>1, <3>3
  <2> DEFINE M == {m \in Nat : m <= n => Len(f[m]) = m + 1}
  <2>7. 0 \in M
    <3>1. Len(f[0]) = 1
      BY <2>5
    <3> HIDE DEF base, n
    <3> QED
      BY <3>1
  <2>8. ASSUME NEW m \in Nat, m \in M
        PROVE  m + 1 \in M
    <3> SUFFICES ASSUME m + 1 <= n
                 PROVE  Len(f[m + 1]) = m + 1 + 1
      OBVIOUS
    <3>1. m + 1 \in 1 .. n /\ m + 1 - 1 = m
      BY <1>1
    <3>2. Len(f[m]) = m + 1
      BY <1>1, <2>8
    <3> HIDE DEF M, n
    <3> QED
      BY <2>6, <3>1, <3>2
  <2>9. Nat \subseteq M
    <3> HIDE DEF M
    <3> QED
      BY <2>7, <2>8, Induct
  <2>10. ASSUME NEW j \in 0 .. n
         PROVE  f[j] = IF j = 0 THEN <<i>>
                       ELSE Append(f[j - 1],
                                   Lesser(Lesser(prev[j + 1], f[j - 1][j]) + 1,
                                         prev[j] + Unlike(SubSeq(a, i, i), SubSeq(b, j, j))))
    <3>1. CASE j = 0
      BY <2>5, <3>1
    <3>2. CASE j # 0
      <4>1. j \in 1 .. n /\ j - 1 \in Nat /\ j - 1 <= n
        BY <1>1, <3>2
      <4>2. Len(f[j - 1]) = j
        <5>1. j - 1 \in M
          BY <2>9, <4>1
        <5>2. Len(f[j - 1]) = j - 1 + 1
          BY <4>1, <5>1
        <5> QED
          BY <4>1, <5>2
      <4>3. f[j] = Append(f[j - 1], Entry(j, f[j - 1][j]))
        BY <2>6, <4>1, <4>2
      <4> QED
        BY <1>4, <3>2, <4>3
    <3> QED
      BY <3>1, <3>2
  <2>11. f = [j \in 0 .. n |-> f[j]]
    BY <2>5
  <2>12. Unfolded(f)
    BY <2>10, <2>11
  <2> QED
    BY <2>12
<1>6. Unfolded(upTo)
  <2>1. \A f : Unfolded(f) <=> RowBy(f, prev, i, a, b)
    BY DEF RowBy
  <2>2. \E f : RowBy(f, prev, i, a, b)
    BY <1>5, <2>1
  <2> HIDE DEF Unfolded
  <2> QED
    BY <2>1, <2>2
<1>7. Len(b) = n
  OBVIOUS
<1>8. upTo[0] = <<i>>
  BY <1>1, <1>6
<1>9. ASSUME NEW j \in 1 .. n
      PROVE  upTo[j] = Append(upTo[j - 1], Entry(j, upTo[j - 1][j]))
  <2>1. j \in 0 .. Len(b) /\ j # 0
    BY <1>1
  <2> QED
    BY <1>4, <1>6, <2>1
<1> DEFINE Good(m) == /\ upTo[m] \in Seq(Nat) /\ Len(upTo[m]) = m + 1 /\ upTo[m][1] = i
                      /\ \A j \in 1 .. m : upTo[m][j + 1] = Entry(j, upTo[m][j])
           M == {m \in Nat : m <= n => Good(m)}
<1> HIDE DEF Unfolded, step
<1>10. 0 \in M
  <2>1. <<i>> \in Seq(Nat) /\ Len(<<i>>) = 1 /\ <<i>>[1] = i
    OBVIOUS
  <2>2. Good(0)
    BY <1>8, <2>1
  <2> HIDE DEF Good
  <2> QED
    BY <2>2
<1>11. ASSUME NEW m \in Nat, m \in M
       PROVE  m + 1 \in M
  <2> SUFFICES ASSUME m + 1 <= n
               PROVE  Good(m + 1)
    <3>1. m + 1 \in Nat
      OBVIOUS
    <3> HIDE DEF Good, n
    <3> QED
      BY <3>1
  <2>1. Good(m)
    BY <1>1, <1>11
  <2>2. m + 1 \in 1 .. n /\ m + 1 - 1 = m
    BY <1>1
  <2> DEFINE r == upTo[m]
             e == Entry(m + 1, r[m + 1])
             s == upTo[m + 1]
  <2>3. s = Append(r, e)
    BY <1>9, <2>2
  <2>4. r \in Seq(Nat) /\ Len(r) = m + 1 /\ r[1] = i /\ \A j \in 1 .. m : r[j + 1] = Entry(j, r[j])
    BY <2>1
  <2>5. e \in Nat
    <3>1. r[m + 1] \in Nat
      <4> HIDE DEF r, n, M, Good
      <4>1. m + 1 \in 1 .. Len(r)
        BY <2>4
      <4> QED
        BY <2>4, <4>1
    <3> QED
      BY <1>2, <2>2, <3>1
  <2> HIDE DEF n, s, r, M, Good, Unfolded
  <2>6. e = Entry(m + 1, r[m + 1])
    OBVIOUS
  <2> HIDE DEF e
  <2>7. s \in Seq(Nat) /\ Len(s) = m + 2 /\ s[1] = i /\ s[m + 2] = e
        /\ \A j \in 1 .. m + 1 : s[j] = r[j]
    BY <2>3, <2>4, <2>5
  <2>8. ASSUME NEW j \in 1 .. m + 1
        PROVE  s[j + 1] = Entry(j, s[j])
    <3>1. CASE j = m + 1
      BY <2>6, <2>7, <3>1
    <3>2. CASE j # m + 1
      <4>1. j \in 1 .. m /\ j + 1 \in 1 .. m + 1
        BY <3>2
      <4> QED
        BY <2>4, <2>7, <4>1
    <3> QED
      BY <3>1, <3>2
  <2> QED
    BY <2>7, <2>8 DEF Good, s
<1>12. Nat \subseteq M
  <2> HIDE DEF M
  <2> QED
    BY <1>10, <1>11, Induct
<1>13. Good(n)
  <2>1. n \in M
    <3> HIDE DEF M, n
    <3> QED
      BY <1>1, <1>12
  <2> HIDE DEF Good, n
  <2> QED
    BY <1>1, <2>1
<1> QED
  BY <1>7, <1>13 DEF Entry, Follows

=============================================================================
