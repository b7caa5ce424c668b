----------------------- MODULE TemplateRuntimeProofs -----------------------
(***************************************************************************)
(* Proofs about the pieces of the template runtime: their data stays       *)
(* apart, no spend makes money, kitties keep their family tree, amoebas    *)
(* only divide, the oldest claim stays, and the code in storage is the one *)
(* referred to.                                                            *)
(***************************************************************************)
EXTENDS TemplateRuntime, FiniteSetTheorems, WellFoundedInduction, TLAPS

-----------------------------------------------------------------------------
(* Induction, stated with sets in place of the operator parameters of the  *)
(* library's theorems: a set that holds zero and is closed under successor *)
(* holds every number, and one that holds the empty set and is closed      *)
(* under adding an element holds every finite set.  Then what it shows of  *)
(* sums.                                                                   *)

\* A set of numbers that is not empty has a least one.
LEMMA LeastNumber ==
    ASSUME NEW T \in SUBSET Nat, T # {}
    PROVE  \E m \in T : \A k \in T : m <= k
<1>1. \E R : IsWellFoundedOn(R, Nat) /\ \A x, y \in Nat : <<x, y>> \in R <=> x < y
    <2> DEFINE R == OpToRel(<, Nat)
    <2>1. IsWellFoundedOn(R, Nat)
        BY NatLessThanWellFounded
    <2>2. \A x, y \in Nat : <<x, y>> \in R <=> x < y
        BY DEF OpToRel
    <2> HIDE DEF R
    <2> QED  BY <2>1, <2>2
<1>2. PICK R : IsWellFoundedOn(R, Nat) /\ \A x, y \in Nat : <<x, y>> \in R <=> x < y
    BY <1>1
<1>3. T \subseteq Nat /\ IsWellFoundedOn(R, Nat)
    BY <1>2
<1>4. PICK m \in T : \A y \in T : ~(<<y, m>> \in R)
    BY <1>3, WFMin, Zenon
<1>5. ASSUME NEW k \in T PROVE m <= k
    <2>1. ~(k < m) /\ k \in Nat /\ m \in Nat
        BY <1>2, <1>3, <1>4
    <2> QED  BY <2>1
<1> QED  BY <1>5

\* Induction over the numbers.
LEMMA NumbersByInduction ==
    ASSUME NEW T, 0 \in T, \A n \in Nat : n \in T => n + 1 \in T
    PROVE  Nat \subseteq T
<1> SUFFICES ASSUME NEW x \in Nat, x \notin T PROVE FALSE
    OBVIOUS
<1>1. PICK m \in Nat \ T : \A k \in Nat \ T : m <= k
    <2>1. Nat \ T \in SUBSET Nat /\ Nat \ T # {}
        OBVIOUS
    <2> QED  BY <2>1, LeastNumber
<1>2. m # 0 /\ m - 1 \in Nat
    BY <1>1
<1>3. m - 1 \in T
    BY <1>1, <1>2
<1> QED  BY <1>2, <1>3

\* Induction over the subsets of a finite set.
LEMMA SetsByInduction ==
    ASSUME NEW S, IsFiniteSet(S), NEW T, {} \in T,
           \A U \in SUBSET S, x \in S : U \in T /\ x \notin U => U \cup {x} \in T
    PROVE  SUBSET S \subseteq T
<1> SUFFICES ASSUME NEW X \in SUBSET S, ~(X \in T) PROVE FALSE
    OBVIOUS
<1>1. IsWellFoundedOn(StrictSubsetOrdering(S), SUBSET S)
    BY FS_StrictSubsetOrderingWellFounded, FS_FiniteSubsetsOfFinite
<1>2. \E W : W \subseteq SUBSET S /\ W # {} /\ \A U \in SUBSET S : U \in W <=> ~(U \in T)
    <2> WITNESS {U \in SUBSET S : ~(U \in T)}
    <2> QED  OBVIOUS
<1>3. PICK W : W \subseteq SUBSET S /\ W # {} /\ \A U \in SUBSET S : U \in W <=> ~(U \in T)
    BY <1>2
<1>4. PICK V \in W : \A U \in W : ~(<<U, V>> \in StrictSubsetOrdering(S))
    BY <1>1, <1>3, WFMin, Zenon
<1>5. V \in SUBSET S /\ ~(V \in T) /\ V # {}
    BY <1>3, <1>4
<1>6. PICK x \in V : TRUE
    BY <1>5
<1>7. <<V \ {x}, V>> \in StrictSubsetOrdering(S)
    BY <1>5, <1>6 DEF StrictSubsetOrdering
<1>8. V \ {x} \in SUBSET S /\ V \ {x} \in T
    BY <1>3, <1>4, <1>5, <1>7
<1>9. (V \ {x}) \cup {x} = V /\ x \in S /\ x \notin V \ {x}
    BY <1>5, <1>6
<1> QED  BY <1>5, <1>8, <1>9

-----------------------------------------------------------------------------
(* Sums over finite sets, as the folds of the community modules make them. *)

\* J has, for every subset of S, the sum of F over it, one chosen element at a time.
Sums(J, F, S) ==
    J = [s \in SUBSET S |-> IF s = {} THEN 0
                            ELSE F[CHOOSE x \in s : TRUE] + J[s \ {CHOOSE x \in s : TRUE}]]

Numbers(F, S) == \A x \in S : F[x] \in Nat

\* J adds up, in whatever order.
Adds(J, F, S) ==
    /\ J \in [SUBSET S -> Nat] /\ J[{}] = 0
    /\ \A s \in SUBSET S, x \in S : x \notin s => J[s \cup {x}] = F[x] + J[s]

\* A subset without its chosen element.
Less(s) == s \ {CHOOSE x \in s : TRUE}

LEMMA LessIsSmaller ==
    ASSUME NEW S, IsFiniteSet(S), NEW s \in SUBSET S, s # {}
    PROVE  /\ Less(s) \in SUBSET S /\ (CHOOSE x \in s : TRUE) \in s
           /\ Cardinality(s) \in Nat \ {0} /\ Cardinality(Less(s)) = Cardinality(s) - 1
<1>1. PICK c : c = CHOOSE x \in s : TRUE
    OBVIOUS
<1>2. c \in s
    BY <1>1
<1>3. IsFiniteSet(s)
    BY FS_Subset
<1>4. Cardinality(s) \in Nat /\ Cardinality(s) # 0
    BY <1>3, FS_CardinalityType, FS_EmptySet
<1>5. Cardinality(s \ {c}) = Cardinality(s) - 1
    BY <1>2, <1>3, FS_RemoveElement
<1> QED  BY <1>1, <1>2, <1>4, <1>5 DEF Less

\* The recursion that a fold over a finite set is defined by has a solution.
LEMMA SumsExist ==
    ASSUME NEW S, IsFiniteSet(S), NEW F
    PROVE  \E J : Sums(J, F, S)
<1> DEFINE Upto(n) == {s \in SUBSET S : Cardinality(s) <= n}
           Step(J, s) == IF s = {} THEN 0 ELSE F[CHOOSE x \in s : TRUE] + J[Less(s)]
           T == {n \in Nat : \E J : J = [s \in Upto(n) |-> Step(J, s)]}
<1>1. \A s \in SUBSET S : Cardinality(s) \in Nat /\ (Cardinality(s) = 0 <=> s = {})
    BY FS_Subset, FS_CardinalityType, FS_EmptySet
<1>2. 0 \in T
    <2>1. PICK J : J = [s \in Upto(0) |-> 0]
        OBVIOUS
    <2>2. \A s \in Upto(0) : Step(J, s) = 0
        BY <1>1
    <2>3. J = [s \in Upto(0) |-> Step(J, s)]
        <3> HIDE DEF Upto, Step
        <3> QED  BY <2>1, <2>2
    <2> QED  BY <2>3
<1>3. ASSUME NEW n \in Nat, n \in T PROVE n + 1 \in T
    <2>1. PICK J : J = [s \in Upto(n) |-> Step(J, s)]
        BY <1>3
    <2>2. PICK K : K = [s \in Upto(n + 1) |-> Step(J, s)]
        OBVIOUS
    <2>3. \A s \in Upto(n) : s \in Upto(n + 1)
        BY <1>1
    <2>4. \A s \in Upto(n) : K[s] = J[s]
        <3> HIDE DEF Upto, Step
        <3> QED  BY <2>1, <2>2, <2>3
    <2>5. \A s \in Upto(n + 1) : s # {} => Less(s) \in Upto(n)
        BY LessIsSmaller
    <2>6. \A s \in Upto(n + 1) : Step(J, s) = Step(K, s)
        BY <2>4, <2>5
    <2>7. K = [s \in Upto(n + 1) |-> Step(K, s)]
        <3> HIDE DEF Upto, Step
        <3> QED  BY <2>2, <2>6
    <2>8. n + 1 \in Nat
        OBVIOUS
    <2> HIDE DEF Upto, Step
    <2> QED  BY <2>7, <2>8
<1>4. Nat \subseteq T
    <2> HIDE DEF T
    <2> QED  BY <1>2, <1>3, NumbersByInduction
<1>5. Cardinality(S) \in T
    BY <1>4, FS_CardinalityType
<1>6. Upto(Cardinality(S)) = SUBSET S
    BY FS_Subset
<1>7. PICK J : J = [s \in SUBSET S |-> Step(J, s)]
    BY <1>5, <1>6
<1> QED  BY <1>7 DEF Sums, Less

\* The order does not matter to such a sum.
LEMMA SumsAdd ==
    ASSUME NEW S, IsFiniteSet(S), NEW F, \A x \in S : F[x] \in Nat, NEW J, Sums(J, F, S)
    PROVE  Adds(J, F, S)
<1>1. /\ J = [s \in SUBSET S |-> J[s]] /\ J[{}] = 0
      /\ \A s \in SUBSET S : s # {} => J[s] = F[CHOOSE x \in s : TRUE] + J[Less(s)]
    <2> DEFINE Step(s) == IF s = {} THEN 0 ELSE F[CHOOSE x \in s : TRUE] + J[Less(s)]
    <2>1. J = [s \in SUBSET S |-> Step(s)]
        BY DEF Sums, Less
    <2>2. J = [s \in SUBSET S |-> J[s]] /\ \A s \in SUBSET S : J[s] = Step(s)
        <3> HIDE DEF Step
        <3> QED  BY <2>1
    <2> QED  BY <2>2
<1> DEFINE P(s) == J[s] \in Nat /\ \A x \in S : x \notin s => J[s \cup {x}] = F[x] + J[s]
           T == {n \in Nat : \A s \in SUBSET S : Cardinality(s) = n => P(s)}
<1>2. \A s \in SUBSET S : Cardinality(s) \in Nat /\ (Cardinality(s) = 0 <=> s = {})
    BY FS_Subset, FS_CardinalityType, FS_EmptySet
<1>3. 0 \in T
    <2>1. ASSUME NEW x \in S PROVE J[{} \cup {x}] = F[x] + J[{}]
        <3>1. {x} # {} /\ {x} \in SUBSET S /\ (CHOOSE y \in {x} : TRUE) = x /\ Less({x}) = {}
            BY DEF Less
        <3>2. J[{x}] = F[x] + J[{}]
            BY <1>1, <3>1
        <3>3. {} \cup {x} = {x}
            OBVIOUS
        <3> QED  BY <3>2, <3>3
    <2>2. P({})
        BY <1>1, <2>1
    <2> HIDE DEF P
    <2> QED  BY <1>2, <2>2
<1>4. ASSUME NEW n \in Nat, n \in T PROVE n + 1 \in T
    <2> SUFFICES ASSUME NEW s \in SUBSET S, Cardinality(s) = n + 1 PROVE P(s)
        OBVIOUS
    <2>1. s # {}
        BY <1>2
    <2>2. ASSUME NEW c \in s PROVE P(s \ {c}) /\ J[s] = F[c] + J[s \ {c}]
        <3>1. IsFiniteSet(s)
            BY FS_Subset
        <3>2. Cardinality(s \ {c}) = n /\ s \ {c} \in SUBSET S
            <4>1. Cardinality(s \ {c}) = Cardinality(s) - 1
                BY <3>1, FS_RemoveElement
            <4> QED  BY <4>1
        <3>3. P(s \ {c})
            BY <1>4, <3>2
        <3>4. c \in S /\ c \notin s \ {c} /\ (s \ {c}) \cup {c} = s
            OBVIOUS
        <3>5. J[(s \ {c}) \cup {c}] = F[c] + J[s \ {c}]
            BY <3>3, <3>4
        <3> HIDE DEF P
        <3> QED  BY <3>3, <3>4, <3>5
    <2>3. J[s] \in Nat
        <3>1. PICK c \in s : TRUE
            BY <2>1
        <3>2. J[s \ {c}] \in Nat /\ F[c] \in Nat /\ J[s] = F[c] + J[s \ {c}]
            BY <2>2
        <3> QED  BY <3>2
    <2>4. ASSUME NEW x \in S, x \notin s PROVE J[s \cup {x}] = F[x] + J[s]
        <3>1. PICK t : t = s \cup {x}
            OBVIOUS
        <3>2. PICK c : c = CHOOSE y \in t : TRUE
            OBVIOUS
        <3>3. t \in SUBSET S /\ t # {} /\ c \in t
            BY <3>1, <3>2
        <3>4. J[t] = F[c] + J[t \ {c}]
            BY <1>1, <3>2, <3>3 DEF Less
        <3>5. CASE c = x
            <4>1. t \ {c} = s
                BY <2>4, <3>1, <3>5
            <4> QED  BY <3>1, <3>4, <3>5, <4>1
        <3>6. CASE c # x
            <4>1. c \in s /\ x \notin s \ {c} /\ t \ {c} = (s \ {c}) \cup {x}
                BY <2>4, <3>1, <3>3, <3>6
            <4>2. P(s \ {c}) /\ J[s] = F[c] + J[s \ {c}]
                BY <2>2, <4>1
            <4>3. J[(s \ {c}) \cup {x}] = F[x] + J[s \ {c}] /\ J[s \ {c}] \in Nat
                BY <4>1, <4>2
            <4>4. F[c] \in Nat /\ F[x] \in Nat
                BY <3>3, <4>1
            <4>5. J[t] = F[c] + (F[x] + J[s \ {c}])
                BY <3>4, <4>1, <4>3
            <4>6. J[t] = F[x] + J[s]
                BY <4>2, <4>3, <4>4, <4>5
            <4> QED  BY <3>1, <4>6
        <3> QED  BY <3>5, <3>6
    <2> QED  BY <2>3, <2>4
<1>5. Nat \subseteq T
    <2> HIDE DEF T
    <2> QED  BY <1>3, <1>4, NumbersByInduction
<1>6. \A s \in SUBSET S : P(s)
    <2> HIDE DEF P
    <2> QED  BY <1>2, <1>5
<1>7. J \in [SUBSET S -> Nat]
    BY <1>1, <1>6
<1> QED  BY <1>1, <1>6, <1>7 DEF Adds

Agree(J, K, F, G, S, R, C) ==
    /\ Adds(J, F, S) /\ Adds(K, G, R) /\ C \subseteq S /\ C \subseteq R /\ IsFiniteSet(C)
    /\ \A x \in C : F[x] = G[x]

\* Sums of functions that agree on a set are the same over it.
LEMMA SumsAgree ==
    ASSUME NEW S, NEW R, NEW F, NEW G, NEW J, NEW K, NEW C, Agree(J, K, F, G, S, R, C)
    PROVE  J[C] = K[C]
<1> /\ Adds(J, F, S) /\ Adds(K, G, R) /\ C \subseteq S /\ C \subseteq R /\ IsFiniteSet(C)
    /\ \A x \in C : F[x] = G[x]
    BY DEF Agree
<1> DEFINE T == {s \in SUBSET C : J[s] = K[s]}
<1>1. {} \in T
    BY DEF Adds
<1>2. ASSUME NEW U \in SUBSET C, NEW x \in C, U \in T, x \notin U PROVE U \cup {x} \in T
    <2>1. J[U \cup {x}] = F[x] + J[U]
        BY <1>2 DEF Adds
    <2>2. K[U \cup {x}] = G[x] + K[U]
        BY <1>2 DEF Adds
    <2> QED  BY <1>2, <2>1, <2>2
<1>3. SUBSET C \subseteq T
    <2> HIDE DEF T
    <2> QED  BY <1>1, <1>2, SetsByInduction
<1> QED  BY <1>3

Parts(J, F, S, A, B) ==
    /\ Adds(J, F, S) /\ Numbers(F, S)
    /\ A \subseteq S /\ B \subseteq S /\ IsFiniteSet(B) /\ A \cap B = {}

\* The sum over two sets that are apart.
LEMMA SumOfUnion ==
    ASSUME NEW S, NEW F, NEW J, NEW A, NEW B, Parts(J, F, S, A, B)
    PROVE  J[A \cup B] = J[A] + J[B] /\ J[A] \in Nat /\ J[B] \in Nat
<1> /\ Adds(J, F, S) /\ \A x \in S : F[x] \in Nat
    /\ A \in SUBSET S /\ B \in SUBSET S /\ IsFiniteSet(B) /\ A \cap B = {}
    BY DEF Parts, Numbers
<1>1. ASSUME NEW s \in SUBSET S PROVE J[s] \in Nat
    BY DEF Adds
<1> DEFINE T == {b \in SUBSET B : J[A \cup b] = J[A] + J[b]}
<1>2. {} \in T
    <2>1. A \cup {} = A /\ J[{}] = 0 /\ J[A] \in Nat
        BY <1>1 DEF Adds
    <2> QED  BY <2>1
<1>3. ASSUME NEW U \in SUBSET B, NEW x \in B, U \in T, x \notin U PROVE U \cup {x} \in T
    <2>1. U \in SUBSET S /\ x \in S /\ A \cup U \in SUBSET S /\ x \notin A \cup U
        BY <1>3
    <2>2. J[U \cup {x}] = F[x] + J[U] /\ J[(A \cup U) \cup {x}] = F[x] + J[A \cup U]
        BY <1>3, <2>1 DEF Adds
    <2>3. A \cup (U \cup {x}) = (A \cup U) \cup {x}
        OBVIOUS
    <2>4. J[A] \in Nat /\ J[U] \in Nat /\ F[x] \in Nat /\ J[A \cup U] = J[A] + J[U]
        BY <1>1, <1>3, <2>1
    <2>5. J[A \cup (U \cup {x})] = J[A] + J[U \cup {x}]
        <3>1. J[A \cup (U \cup {x})] = F[x] + J[A \cup U]
            BY <2>2, <2>3, Zenon
        <3>2. PICK a, u, z, l, r : /\ a = J[A] /\ u = J[U] /\ z = J[A \cup U]
                                  /\ l = J[A \cup (U \cup {x})] /\ r = J[U \cup {x}]
            OBVIOUS
        <3>3. a \in Nat /\ u \in Nat /\ F[x] \in Nat /\ z = a + u /\ l = F[x] + z /\ r = F[x] + u
            BY <2>2, <2>4, <3>1, <3>2
        <3>4. l = a + r
            BY <3>3
        <3> QED  BY <3>2, <3>4
    <2> QED  BY <2>5
<1>4. SUBSET B \subseteq T
    <2> HIDE DEF T
    <2> QED  BY <1>2, <1>3, SetsByInduction
<1> QED  BY <1>1, <1>4

PartialSums(g, V, n) == g = [i \in 0 .. n |-> IF i = 0 THEN 0 ELSE g[i - 1] + V[i]]

\* The partial sums of a sequence of numbers are well defined.
LEMMA PartialSumsExist ==
    ASSUME NEW V, NEW n \in Nat
    PROVE  \E g : PartialSums(g, V, n)
<1> DEFINE Step(g, i) == IF i = 0 THEN 0 ELSE g[i - 1] + V[i]
           T == {m \in Nat : \E g : g = [i \in 0 .. m |-> Step(g, i)]}
<1>1. 0 \in T
    <2>1. PICK g : g = [i \in 0 .. 0 |-> 0]
        OBVIOUS
    <2>2. g = [i \in 0 .. 0 |-> Step(g, i)]
        BY <2>1
    <2> HIDE DEF Step
    <2> QED  BY <2>2
<1>2. ASSUME NEW m \in Nat, m \in T PROVE m + 1 \in T
    <2>1. PICK g : g = [i \in 0 .. m |-> Step(g, i)]
        BY <1>2
    <2>2. PICK h : h = [i \in 0 .. m + 1 |-> Step(g, i)]
        OBVIOUS
    <2>3. \A i \in 0 .. m : h[i] = g[i]
        <3> HIDE DEF Step
        <3> QED  BY <2>1, <2>2
    <2>4. \A i \in 0 .. m + 1 : Step(h, i) = Step(g, i)
        BY <2>3
    <2>5. h = [i \in 0 .. m + 1 |-> Step(h, i)] /\ m + 1 \in Nat
        <3> HIDE DEF Step
        <3> QED  BY <2>2, <2>4
    <2> HIDE DEF Step
    <2> QED  BY <2>5
<1>3. n \in T
    <2> HIDE DEF T
    <2> QED  BY <1>1, <1>2, NumbersByInduction
<1> QED  BY <1>3 DEF PartialSums

Powers(g, n) == g = [i \in 0 .. n |-> IF i = 0 THEN 1 ELSE 2 * g[i - 1]]

\* So are the powers of two.
LEMMA PowersExist ==
    ASSUME NEW n \in Nat
    PROVE  \E g : Powers(g, n)
<1> DEFINE Step(g, i) == IF i = 0 THEN 1 ELSE 2 * g[i - 1]
           T == {m \in Nat : \E g : g = [i \in 0 .. m |-> Step(g, i)]}
<1>1. 0 \in T
    <2>1. PICK g : g = [i \in 0 .. 0 |-> 1]
        OBVIOUS
    <2>2. g = [i \in 0 .. 0 |-> Step(g, i)]
        BY <2>1
    <2> HIDE DEF Step
    <2> QED  BY <2>2
<1>2. ASSUME NEW m \in Nat, m \in T PROVE m + 1 \in T
    <2>1. PICK g : g = [i \in 0 .. m |-> Step(g, i)]
        BY <1>2
    <2>2. PICK h : h = [i \in 0 .. m + 1 |-> Step(g, i)]
        OBVIOUS
    <2>3. \A i \in 0 .. m : h[i] = g[i]
        <3> HIDE DEF Step
        <3> QED  BY <2>1, <2>2
    <2>4. \A i \in 0 .. m + 1 : Step(h, i) = Step(g, i)
        BY <2>3
    <2>5. h = [i \in 0 .. m + 1 |-> Step(h, i)] /\ m + 1 \in Nat
        <3> HIDE DEF Step
        <3> QED  BY <2>2, <2>4
    <2> HIDE DEF Step
    <2> QED  BY <2>5
<1>3. n \in T
    <2> HIDE DEF T
    <2> QED  BY <1>1, <1>2, NumbersByInduction
<1> QED  BY <1>3 DEF Powers

Named(f, n) == {f[i] : i \in 1 .. n}

\* f names elements of S, each once, and g has the partial sums of F along it.
RunsThrough(f, n, F, S, g, J) ==
    /\ Adds(J, F, S) /\ Numbers(F, S) /\ n \in Nat /\ \A i \in 1 .. n : f[i] \in S
    /\ \A i, j \in 1 .. n : i # j => f[i] # f[j]
    /\ g[0] = 0 /\ \A i \in 1 .. n : g[i] = g[i - 1] + F[f[i]]

\* The sum over the elements that a sequence without repetitions names is the last of
\* its partial sums.
LEMMA SumAlongSequence ==
    ASSUME NEW S, NEW F, NEW J, NEW n, NEW f, NEW g, RunsThrough(f, n, F, S, g, J)
    PROVE  J[Named(f, n)] = g[n]
<1> /\ Adds(J, F, S) /\ n \in Nat /\ \A i \in 1 .. n : f[i] \in S
    /\ \A i, j \in 1 .. n : i # j => f[i] # f[j]
    /\ g[0] = 0 /\ \A i \in 1 .. n : g[i] = g[i - 1] + F[f[i]]
    /\ \A x \in S : F[x] \in Nat
    BY DEF RunsThrough, Numbers
<1> DEFINE Upto(m) == {f[i] : i \in 1 .. m}
           T == {m \in Nat : m <= n => J[Upto(m)] = g[m]}
<1>1. 0 \in T
    <2>1. Upto(0) = {}
        OBVIOUS
    <2> QED  BY <2>1 DEF Adds
<1>2. ASSUME NEW m \in Nat, m \in T PROVE m + 1 \in T
    <2> SUFFICES ASSUME m + 1 <= n PROVE J[Upto(m + 1)] = g[m + 1]
        OBVIOUS
    <2>1. m + 1 \in 1 .. n /\ (m + 1) - 1 = m /\ \A i \in 1 .. m : i \in 1 .. n /\ i # m + 1
        OBVIOUS
    <2>2. f[m + 1] \in S /\ Upto(m) \in SUBSET S /\ f[m + 1] \notin Upto(m)
        BY <2>1
    <2>3. Upto(m + 1) = Upto(m) \cup {f[m + 1]}
        <3>1. 1 .. m + 1 = (1 .. m) \cup {m + 1}
            OBVIOUS
        <3> QED  BY <3>1
    <2>4. J[Upto(m) \cup {f[m + 1]}] = F[f[m + 1]] + J[Upto(m)]
        <3> HIDE DEF Upto
        <3> QED  BY <2>2 DEF Adds
    <2>5. g[m + 1] = g[m] + F[f[m + 1]]
        BY <2>1
    <2>6. J[Upto(m)] = g[m] /\ J[Upto(m)] \in Nat /\ F[f[m + 1]] \in Nat
        <3>1. J[Upto(m)] = g[m]
            BY <1>2
        <3> HIDE DEF Upto
        <3> QED  BY <2>2, <3>1 DEF Adds
    <2> HIDE DEF Upto
    <2>7. J[Upto(m + 1)] = F[f[m + 1]] + J[Upto(m)]
        BY <2>3, <2>4, Zenon
    <2>8. PICK a, b : a = J[Upto(m)] /\ b = F[f[m + 1]]
        OBVIOUS
    <2>9. g[m + 1] = a + b /\ J[Upto(m + 1)] = b + a /\ a \in Nat /\ b \in Nat
        BY <2>5, <2>6, <2>7, <2>8
    <2>10. b + a = a + b
        BY <2>9
    <2> QED  BY <2>9, <2>10
<1>3. n \in T
    <2> HIDE DEF T
    <2> QED  BY <1>1, <1>2, NumbersByInduction
<1> QED  BY <1>3 DEF Named

\* B is A with new in place of gone, F over A and G over B agree on the rest.
Exchanged(A, B, gone, new, F, G, J, K) ==
    /\ Adds(J, F, A) /\ Adds(K, G, B) /\ IsFiniteSet(A) /\ IsFiniteSet(B)
    /\ gone \subseteq A /\ new \cap A = {} /\ B = (A \ gone) \cup new
    /\ Numbers(F, A) /\ Numbers(G, B) /\ \A x \in A \ gone : F[x] = G[x]

\* Exchanging a part of a set for another changes its sum by theirs.
LEMMA SumOfExchange ==
    ASSUME NEW A, NEW B, NEW gone, NEW new, NEW F, NEW G, NEW J, NEW K,
           Exchanged(A, B, gone, new, F, G, J, K)
    PROVE  /\ J[A] \in Nat /\ J[gone] \in Nat /\ K[new] \in Nat
           /\ K[B] = J[A] - J[gone] + K[new]
<1> /\ Adds(J, F, A) /\ Adds(K, G, B) /\ IsFiniteSet(A) /\ IsFiniteSet(B)
    /\ gone \subseteq A /\ new \cap A = {} /\ B = (A \ gone) \cup new
    /\ (\A x \in A : F[x] \in Nat) /\ (\A x \in B : G[x] \in Nat)
    /\ \A x \in A \ gone : F[x] = G[x]
    BY DEF Exchanged, Numbers
<1>1. PICK kept : kept = A \ gone
    OBVIOUS
<1>2. /\ kept \in SUBSET A /\ gone \in SUBSET A /\ kept \in SUBSET B /\ new \in SUBSET B
      /\ kept \cap gone = {} /\ kept \cap new = {} /\ kept \cup gone = A /\ kept \cup new = B
    BY <1>1
<1>3. IsFiniteSet(kept) /\ IsFiniteSet(gone) /\ IsFiniteSet(new)
    BY <1>2, FS_Subset
<1>4. J[kept \cup gone] = J[kept] + J[gone] /\ J[kept] \in Nat /\ J[gone] \in Nat
    <2>1. Parts(J, F, A, kept, gone)
        BY <1>2, <1>3 DEF Parts, Numbers
    <2> QED  BY <2>1, SumOfUnion
<1>5. K[kept \cup new] = K[kept] + K[new] /\ K[kept] \in Nat /\ K[new] \in Nat
    <2>1. Parts(K, G, B, kept, new)
        BY <1>2, <1>3 DEF Parts, Numbers
    <2> QED  BY <2>1, SumOfUnion
<1>6. J[kept] = K[kept]
    <2>1. \A x \in kept : F[x] = G[x]
        BY <1>1
    <2>2. kept \subseteq A /\ kept \subseteq B
        BY <1>2
    <2>3. Agree(J, K, F, G, A, B, kept)
        BY <1>3, <2>1, <2>2 DEF Agree
    <2> QED  BY <2>3, SumsAgree
<1>7. J[A] = J[kept] + J[gone] /\ K[B] = K[kept] + K[new]
    BY <1>2, <1>4, <1>5
<1> QED  BY <1>4, <1>5, <1>6, <1>7

LEMMA PowersDouble ==
    ASSUME NEW g, NEW n \in Nat, Powers(g, n)
    PROVE  \A i \in 0 .. n : g[i] \in Nat /\ (i # 0 => g[i] = 2 * g[i - 1])
<1>1. \A i \in 0 .. n : g[i] = IF i = 0 THEN 1 ELSE 2 * g[i - 1]
    <2> DEFINE Step(i) == IF i = 0 THEN 1 ELSE 2 * g[i - 1]
    <2>1. g = [i \in 0 .. n |-> Step(i)]
        BY DEF Powers
    <2>2. \A i \in 0 .. n : g[i] = Step(i)
        <3> HIDE DEF Step
        <3> QED  BY <2>1
    <2> QED  BY <2>2
<1> DEFINE T == {m \in Nat : m <= n => g[m] \in Nat}
<1>2. 0 \in T
    BY <1>1
<1>3. ASSUME NEW m \in Nat, m \in T PROVE m + 1 \in T
    <2> SUFFICES ASSUME m + 1 <= n PROVE g[m + 1] \in Nat
        OBVIOUS
    <2>1. m + 1 \in 0 .. n /\ m + 1 # 0 /\ (m + 1) - 1 = m /\ g[m] \in Nat
        BY <1>3
    <2>2. g[m + 1] = 2 * g[m]
        BY <1>1, <2>1
    <2> QED  BY <2>1, <2>2
<1>4. Nat \subseteq T
    <2> HIDE DEF T
    <2> QED  BY <1>2, <1>3, NumbersByInduction
<1> QED  BY <1>1, <1>4

\* Sums over at most two elements.
LEMMA SmallSums ==
    ASSUME NEW J, NEW F, NEW S, Adds(J, F, S), Numbers(F, S)
    PROVE  /\ J[{}] = 0 /\ \A x \in S : J[{x}] = F[x]
           /\ \A x, y \in S : x # y => J[{x, y}] = F[x] + F[y]
<1>1. J[{}] = 0 /\ \A s \in SUBSET S, x \in S : x \notin s => J[s \cup {x}] = F[x] + J[s]
    BY DEF Adds
<1>2. ASSUME NEW x \in S PROVE J[{x}] = F[x] /\ F[x] \in Nat
    <2>1. {} \cup {x} = {x} /\ {} \in SUBSET S /\ x \notin {}
        OBVIOUS
    <2>2. J[{} \cup {x}] = F[x] + J[{}]
        BY <1>1, <2>1
    <2>3. J[{x}] = F[x] + 0 /\ F[x] \in Nat
        BY <1>1, <2>1, <2>2 DEF Numbers
    <2> QED  BY <2>3
<1>3. ASSUME NEW x \in S, NEW y \in S, x # y PROVE J[{x, y}] = F[x] + F[y]
    <2>1. {y} \cup {x} = {x, y} /\ {y} \in SUBSET S /\ x \notin {y}
        BY <1>3
    <2>2. J[{y} \cup {x}] = F[x] + J[{y}]
        BY <1>1, <2>1
    <2>3. J[{x, y}] = F[x] + J[{y}]
        BY <2>1, <2>2, Zenon
    <2> QED  BY <1>2, <2>3
<1> QED  BY <1>1, <1>2, <1>3

-----------------------------------------------------------------------------
(* What a transaction does to the UTXO set.                                *)

\* The type of the data that a checker extracts.
TypeOf(checker) ==
    IF checker \in {"Spend", "Mint"} THEN "Coin"
    ELSE IF checker = "FreeKitty" THEN "Kitty"
    ELSE IF checker \in {"AmoebaMitosis", "AmoebaDeath", "AmoebaCreation"} THEN "Amoeba"
    ELSE IF checker \in {"PoeClaim", "PoeRevoke", "PoeDispute"} THEN "Claim"
    ELSE "RuntimeRef"

\* What a transaction is given: its inputs, evicted inputs and peeks are there.
Given(inputs, evicted, peeks, full_wasm) ==
    /\ inputs \in Seq(DOMAIN utxos) /\ evicted \in Seq(DOMAIN utxos) /\ peeks \in Seq(DOMAIN utxos)
    /\ full_wasm \in Wasm \cup {code}

Gone(inputs, evicted) ==
    {inputs[i] : i \in 1 .. Len(inputs)} \cup {evicted[i] : i \in 1 .. Len(evicted)}
NewRefs(outputs) == {txs + 1} \X (1 .. Len(outputs))

\* What ApplyTransaction does with the references of the inputs alone.
Applied(checker, inputs, evicted, peeks, outputs, full_wasm) ==
    /\ WellFormed(outputs)
    /\ OuterCheck(checker, Data(inputs), Data(evicted), Data(peeks), outputs, full_wasm)
    /\ code' = IF checker = "RuntimeUpgrade" THEN full_wasm ELSE code
    /\ txs' = txs + 1
    /\ last' = checker /\ doubled' = ~Distinct(inputs \o evicted)
    /\ utxos' = LET gone == Gone(inputs, evicted)
                    new  == Outputs(txs + 1, outputs)
                IN  [r \in (DOMAIN utxos \ gone) \cup DOMAIN new |->
                        IF r \in DOMAIN new THEN new[r] ELSE utxos[r]]
    /\ UNCHANGED <<chain, height>>

\* References are to the transactions so far.
RefsOK == DOMAIN utxos \subseteq OutputRef /\ txs \in Nat /\ \A r \in DOMAIN utxos : r[1] <= txs

\* Data of one type is exchanged for data of the same type under new references.
Exchange(type, gone, outputs) ==
    /\ gone \subseteq OfType(utxos, type)
    /\ WellFormed(outputs) /\ ExtractAll(outputs, type)
    /\ DOMAIN utxos' = (DOMAIN utxos \ gone) \cup NewRefs(outputs)
    /\ \A r \in DOMAIN utxos \ gone : utxos'[r] = utxos[r]
    /\ \A r \in NewRefs(outputs) :
           /\ r \notin DOMAIN utxos /\ utxos'[r] = outputs[r[2]]
           /\ r[1] = txs + 1 /\ r[2] \in 1 .. Len(outputs)

LEMMA TransactIsGiven ==
    ASSUME NEW checker, Transact(checker)
    PROVE  \E inputs, evicted, peeks, full_wasm, outputs :
               /\ Given(inputs, evicted, peeks, full_wasm)
               /\ checker = "RuntimeUpgrade" => full_wasm \in Wasm
               /\ txs < chain.txs
               /\ Applied(checker, inputs, evicted, peeks, outputs, full_wasm)
<1>1. PICK redeemed \in UNION {[1 .. n -> Redeemed] : n \in 0 .. MaxInputs},
           evicted \in {<<>>} \cup {<<r>> : r \in DOMAIN utxos},
           peeks   \in IF checker = "PoeDispute"
                       THEN {<<>>} \cup {<<r>> : r \in DOMAIN utxos} ELSE {<<>>},
           full_wasm \in IF checker = "RuntimeUpgrade" THEN Wasm ELSE {code} :
           \E outputs \in Offers(checker, Data(Refs(redeemed)), height) :
               ApplyTransaction(checker, redeemed, evicted, peeks, outputs, full_wasm)
    BY Zenon DEF Transact
<1>2. PICK outputs : ApplyTransaction(checker, redeemed, evicted, peeks, outputs, full_wasm)
    BY <1>1
<1>3. PICK inputs : inputs = Refs(redeemed)
    OBVIOUS
<1>4. Applied(checker, inputs, evicted, peeks, outputs, full_wasm)
    BY <1>2, <1>3 DEF ApplyTransaction, Applied, Gone
<1>5. inputs \in Seq(DOMAIN utxos)
    <2>1. PICK n \in 0 .. MaxInputs : redeemed \in [1 .. n -> Redeemed]
        OBVIOUS
    <2>2. n \in Nat
        BY TemplateRuntimeAssumption
    <2>3. Len(redeemed) = n
        BY <2>1, <2>2
    <2>4. \A i \in 1 .. n : redeemed[i].output_ref \in DOMAIN utxos
        BY <2>1 DEF Redeemed, Input
    <2> QED  BY <1>3, <2>2, <2>3, <2>4 DEF Refs
<1>6. evicted \in Seq(DOMAIN utxos) /\ peeks \in Seq(DOMAIN utxos)
    <2>1. \A s \in {<<>>} \cup {<<r>> : r \in DOMAIN utxos} : s \in Seq(DOMAIN utxos)
        <3>1. <<>> \in Seq(DOMAIN utxos) /\ \A r \in DOMAIN utxos : <<r>> \in Seq(DOMAIN utxos)
            OBVIOUS
        <3> QED  BY <3>1, Zenon
    <2>2. peeks \in {<<>>} \cup {<<r>> : r \in DOMAIN utxos}
        OBVIOUS
    <2> QED  BY <2>1, <2>2
<1>7. txs < chain.txs
    BY DEF Transact
<1> QED  BY <1>4, <1>5, <1>6, <1>7 DEF Given

\* A checker looks at data of one type alone.
LEMMA ChecksOneType ==
    ASSUME NEW checker \in Checkers, NEW inputs, NEW evicted, NEW peeks, NEW outputs, NEW full_wasm,
           OuterCheck(checker, inputs, evicted, peeks, outputs, full_wasm)
    PROVE  /\ ExtractAll(inputs, TypeOf(checker)) /\ ExtractAll(evicted, TypeOf(checker))
           /\ ExtractAll(outputs, TypeOf(checker))
<1>1. \A type : ExtractAll(<<>>, type)
    BY DEF ExtractAll
<1>2. CASE checker \in {"Spend", "Mint"}
    BY <1>1, <1>2, Zenon DEF OuterCheck, TypeOf, Spend, Mint
<1>3. CASE checker = "FreeKitty"
    BY <1>1, <1>3 DEF OuterCheck, TypeOf, FreeKitty
<1>4. CASE checker \in {"AmoebaMitosis", "AmoebaDeath", "AmoebaCreation"}
    BY <1>1, <1>4, Zenon DEF OuterCheck, TypeOf, Mitosis, Death, Creation
<1>5. CASE checker \in {"PoeClaim", "PoeRevoke", "PoeDispute"}
    BY <1>1, <1>5, Zenon DEF OuterCheck, TypeOf, Claim, Revoke, Dispute
<1>6. CASE checker = "RuntimeUpgrade"
    BY <1>1, <1>6 DEF OuterCheck, TypeOf, Upgrade
<1> QED  BY <1>2, <1>3, <1>4, <1>5, <1>6 DEF Checkers

LEMMA ApplyExchanges ==
    ASSUME NEW checker \in Checkers, NEW inputs, NEW evicted, NEW peeks, NEW outputs, NEW full_wasm,
           RefsOK, Given(inputs, evicted, peeks, full_wasm),
           Applied(checker, inputs, evicted, peeks, outputs, full_wasm)
    PROVE  Exchange(TypeOf(checker), Gone(inputs, evicted), outputs)
<1>1. PICK gone, new, type : /\ gone = Gone(inputs, evicted) /\ new = NewRefs(outputs)
                             /\ type = TypeOf(checker)
    OBVIOUS
<1>2. ExtractAll(Data(inputs), type) /\ ExtractAll(Data(evicted), type) /\ ExtractAll(outputs, type)
    BY <1>1, ChecksOneType DEF Applied
<1>3. ASSUME NEW s \in Seq(DOMAIN utxos), ExtractAll(Data(s), type), NEW i \in 1 .. Len(s)
      PROVE  s[i] \in OfType(utxos, type)
    <2>1. Len(Data(s)) = Len(s) /\ Data(s)[i] = utxos[s[i]] /\ s[i] \in DOMAIN utxos
        BY DEF Data
    <2>2. Extracts(Data(s)[i], type)
        BY <1>3, <2>1 DEF ExtractAll
    <2> QED  BY <2>1, <2>2 DEF OfType
<1>4. gone \subseteq OfType(utxos, type)
    BY <1>1, <1>2, <1>3 DEF Given, Gone
<1>5. WellFormed(outputs) /\ Len(outputs) \in Nat
    BY TemplateRuntimeAssumption DEF Applied, WellFormed
<1>6. ASSUME NEW r \in new
      PROVE  r \notin DOMAIN utxos /\ r[1] = txs + 1 /\ r[2] \in 1 .. Len(outputs)
    BY <1>1, <1>5 DEF RefsOK, NewRefs
<1>7. utxos' = [r \in (DOMAIN utxos \ gone) \cup new |->
                   IF r \in new THEN outputs[r[2]] ELSE utxos[r]]
    <2>1. PICK created : created = Outputs(txs + 1, outputs)
        OBVIOUS
    <2>2. DOMAIN created = new /\ \A r \in new : created[r] = outputs[r[2]]
        BY <1>1, <2>1 DEF Outputs, NewRefs
    <2>3. utxos' = [r \in (DOMAIN utxos \ gone) \cup DOMAIN created |->
                       IF r \in DOMAIN created THEN created[r] ELSE utxos[r]]
        BY <1>1, <2>1 DEF Applied
    <2> QED  BY <2>2, <2>3
<1>8. /\ DOMAIN utxos' = (DOMAIN utxos \ gone) \cup new
      /\ \A r \in new : utxos'[r] = outputs[r[2]]
      /\ \A r \in DOMAIN utxos \ gone : utxos'[r] = utxos[r]
    BY <1>6, <1>7
<1> QED  BY <1>1, <1>2, <1>4, <1>5, <1>6, <1>8 DEF Exchange

\* Data of the other types stays as it is.
LEMMA OthersStay ==
    ASSUME NEW type, NEW other, other # type, NEW gone, NEW outputs, Exchange(type, gone, outputs)
    PROVE  /\ OfType(utxos', other) = OfType(utxos, other)
           /\ \A r \in OfType(utxos, other) : utxos'[r] = utxos[r]
<1>1. ASSUME NEW r \in OfType(utxos, other) PROVE r \in OfType(utxos', other) /\ utxos'[r] = utxos[r]
    <2>1. r \in DOMAIN utxos /\ utxos[r].type = other /\ r \notin gone
        BY <1>1 DEF Exchange, OfType, Extracts
    <2>2. utxos'[r] = utxos[r] /\ r \in DOMAIN utxos'
        BY <2>1 DEF Exchange
    <2> QED  BY <2>1, <2>2 DEF OfType, Extracts
<1>2. ASSUME NEW r \in OfType(utxos', other) PROVE r \in OfType(utxos, other)
    <2>1. r \in DOMAIN utxos' /\ utxos'[r].type = other
        BY <1>2 DEF OfType, Extracts
    <2>2. r \notin NewRefs(outputs)
        BY <2>1 DEF Exchange, ExtractAll, Extracts
    <2>3. r \in DOMAIN utxos \ gone /\ utxos'[r] = utxos[r]
        BY <2>1, <2>2 DEF Exchange
    <2> QED  BY <2>1, <2>3 DEF OfType, Extracts
<1> QED  BY <1>1, <1>2

\* Data of the type exchanged is kept or one of the outputs.
LEMMA OwnIsKeptOrNew ==
    ASSUME NEW type, NEW gone, NEW outputs, Exchange(type, gone, outputs)
    PROVE  /\ OfType(utxos', type) = (OfType(utxos, type) \ gone) \cup NewRefs(outputs)
           /\ \A r \in OfType(utxos, type) \ gone : utxos'[r] = utxos[r] /\ r \notin NewRefs(outputs)
           /\ \A r \in NewRefs(outputs) :
                  utxos'[r] = outputs[r[2]] /\ r[1] = txs + 1 /\ r[2] \in 1 .. Len(outputs)
<1>1. ASSUME NEW r \in NewRefs(outputs)
      PROVE  /\ r \in OfType(utxos', type) /\ utxos'[r] = outputs[r[2]] /\ r \notin DOMAIN utxos
             /\ r[1] = txs + 1 /\ r[2] \in 1 .. Len(outputs)
    BY <1>1 DEF Exchange, OfType, ExtractAll, Extracts
<1>2. ASSUME NEW r \in OfType(utxos, type), r \notin gone
      PROVE  r \in OfType(utxos', type) /\ utxos'[r] = utxos[r] /\ r \notin NewRefs(outputs)
    BY <1>1, <1>2 DEF Exchange, OfType, Extracts
<1>3. ASSUME NEW r \in OfType(utxos', type), r \notin NewRefs(outputs)
      PROVE  r \in OfType(utxos, type) \ gone
    BY <1>3 DEF Exchange, OfType, Extracts
<1> QED  BY <1>1, <1>2, <1>3

\* The data that the checkers of a piece exchange.
LEMMA TypeOfPiece ==
    ASSUME NEW checker \in Checkers
    PROVE  /\ TypeOf(checker) \in {"Coin", "Kitty", "Amoeba", "Claim", "RuntimeRef"}
           /\ checker \in Piece(TypeOf(checker))
BY DEF Checkers, TypeOf, Piece

-----------------------------------------------------------------------------
(* The inductive invariant.                                                *)

\* A bred kitty carries a number of breedings that its mom has reached.
BredBefore ==
    \A r \in OfType(utxos, "Kitty") : Bred(utxos[r].dna) =>
        /\ utxos[r].dna[3] \in Nat
        /\ \A s \in OfType(utxos, "Kitty") : utxos[r].dna[1] = utxos[s].dna =>
               utxos[r].dna[3] <= utxos[s].num_breedings

OneReference ==
    /\ \A r, s \in OfType(utxos, "RuntimeRef") : r = s
    /\ \A r \in OfType(utxos, "RuntimeRef") : utxos[r].wasm = code

\* An amoeba has at most as many ancestors as there were transactions.
Generations == \A r \in OfType(utxos, "Amoeba") : utxos[r].generation <= txs

PiecesInv ==
    /\ TypeOK /\ chain \in Chains /\ RefsOK
    /\ \A r \in DOMAIN utxos : Decodes(utxos[r])
    /\ FamilyTree /\ BredBefore /\ OneReference /\ Generations

\* Breeding: the parents are replaced by themselves, one breeding on, and a child whose
\* DNA has their new numbers of breedings is like no kitty that is there.
LEMMA FamilyStep ==
    ASSUME FamilyTree, BredBefore,
           \A r \in OfType(utxos, "Kitty") : utxos[r].num_breedings \in Nat,
           NEW m \in OfType(utxos, "Kitty"), NEW d \in OfType(utxos, "Kitty"), m # d,
           NEW outputs, Len(outputs) = 3, Exchange("Kitty", {m, d}, outputs), txs \in Nat,
           outputs[1].dna = utxos[m].dna, outputs[1].num_breedings = utxos[m].num_breedings + 1,
           outputs[2].dna = utxos[d].dna, outputs[2].num_breedings = utxos[d].num_breedings + 1,
           outputs[3].dna = <<outputs[1].dna, outputs[2].dna,
                              outputs[1].num_breedings, outputs[2].num_breedings>>
    PROVE  FamilyTree' /\ BredBefore'
<1>1. PICK old, now, a, b, c, child :
          /\ old = OfType(utxos, "Kitty") /\ now = OfType(utxos', "Kitty")
          /\ a = <<txs + 1, 1>> /\ b = <<txs + 1, 2>> /\ c = <<txs + 1, 3>> /\ child = outputs[3].dna
    BY Zenon
<1>2. now = (old \ {m, d}) \cup {a, b, c} /\ a # b /\ a # c /\ b # c
    <2>1. NewRefs(outputs) = {a, b, c}
        BY <1>1 DEF NewRefs
    <2> QED  BY <1>1, <2>1, OwnIsKeptOrNew
<1>3. /\ utxos'[a] = outputs[1] /\ utxos'[b] = outputs[2] /\ utxos'[c] = outputs[3]
      /\ a \notin old /\ b \notin old /\ c \notin old
      /\ \A r \in old \ {m, d} : utxos'[r] = utxos[r]
    <2>1. a \in NewRefs(outputs) /\ b \in NewRefs(outputs) /\ c \in NewRefs(outputs)
        BY <1>1 DEF NewRefs
    <2>2. a[2] = 1 /\ b[2] = 2 /\ c[2] = 3
        BY <1>1
    <2>3. old \subseteq DOMAIN utxos
        BY <1>1 DEF OfType
    <2> QED  BY <1>1, <2>1, <2>2, <2>3 DEF Exchange
<1>4. /\ Bred(child) /\ child[1] = utxos[m].dna /\ child[2] = utxos[d].dna
      /\ child[3] = utxos[m].num_breedings + 1
    BY <1>1 DEF Bred
<1>5. ASSUME NEW r \in old PROVE utxos[r].dna # child
    <2> SUFFICES ASSUME utxos[r].dna = child PROVE FALSE
        OBVIOUS
    <2>1. child[3] <= utxos[m].num_breedings
        BY <1>1, <1>4 DEF BredBefore
    <2>2. utxos[m].num_breedings \in Nat
        OBVIOUS
    <2> QED  BY <1>4, <2>1, <2>2
<1>6. PICK was : was = [r \in now |-> IF r = a THEN m ELSE IF r = b THEN d ELSE r]
    BY Zenon
<1>7. ASSUME NEW r \in now, r # c
      PROVE  /\ was[r] \in old /\ utxos'[r].dna = utxos[was[r]].dna
             /\ utxos[was[r]].num_breedings \in Nat /\ utxos'[r].num_breedings \in Nat
             /\ utxos[was[r]].num_breedings <= utxos'[r].num_breedings
    <2>1. CASE r = a
        BY <1>1, <1>3, <1>6, <2>1
    <2>2. CASE r = b
        BY <1>1, <1>2, <1>3, <1>6, <2>2
    <2>3. CASE r # a /\ r # b
        <3>1. r \in old \ {m, d} /\ was[r] = r
            BY <1>2, <1>6, <1>7, <2>3
        <3> QED  BY <1>1, <1>3, <3>1
    <2> QED  BY <2>1, <2>2, <2>3
<1>8. ASSUME NEW r \in now, NEW s \in now, r # c, s # c, r # s PROVE was[r] # was[s]
    BY <1>2, <1>6, <1>8
<1>9. ASSUME NEW r \in now, NEW s \in now, utxos'[r].dna = utxos'[s].dna PROVE r = s
    <2>1. ASSUME NEW t \in now, t # c PROVE utxos'[t].dna # utxos'[c].dna
        BY <1>1, <1>3, <1>5, <1>7, <2>1
    <2>2. CASE r = c \/ s = c
        BY <1>9, <2>1, <2>2
    <2>3. CASE r # c /\ s # c
        <3>1. utxos[was[r]].dna = utxos[was[s]].dna /\ was[r] \in old /\ was[s] \in old
            BY <1>7, <1>9, <2>3
        <3>2. was[r] = was[s]
            BY <1>1, <3>1 DEF FamilyTree
        <3> QED  BY <1>8, <2>3, <3>2
    <2> QED  BY <2>2, <2>3
<1>10. a \in now /\ b \in now /\ c \in now /\ was[a] = m
    BY <1>2, <1>6
<1>11. Dnas(utxos') = Dnas(utxos) \cup {child}
    <2>1. ASSUME NEW r \in old PROVE \E s \in now : utxos'[s].dna = utxos[r].dna
        <3>1. CASE r = m
            BY <1>3, <1>10, <3>1
        <3>2. CASE r = d
            BY <1>3, <1>10, <3>2
        <3>3. CASE r # m /\ r # d
            BY <1>2, <1>3, <3>3
        <3> QED  BY <3>1, <3>2, <3>3
    <2>2. ASSUME NEW s \in now PROVE utxos'[s].dna = child \/ \E r \in old : utxos'[s].dna = utxos[r].dna
        BY <1>1, <1>3, <1>7
    <2>3. utxos'[c].dna = child
        BY <1>1, <1>3
    <2> QED  BY <1>1, <1>10, <2>1, <2>2, <2>3 DEF Dnas
<1>12. FamilyTree'
    <2>1. ASSUME NEW dna \in Dnas(utxos'), Bred(dna) PROVE {dna[1], dna[2]} \subseteq Dnas(utxos')
        <3>1. CASE dna \in Dnas(utxos)
            BY <1>11, <2>1, <3>1 DEF FamilyTree
        <3>2. CASE dna = child
            BY <1>4, <1>11, <3>2 DEF Dnas
        <3> QED  BY <1>11, <3>1, <3>2
    <2>2. \A r, s \in OfType(utxos', "Kitty") : r # s => utxos'[r].dna # utxos'[s].dna
        BY <1>1, <1>9
    <2> QED  BY <2>1, <2>2 DEF FamilyTree
<1>13. ASSUME NEW r \in now, Bred(utxos'[r].dna)
       PROVE  /\ utxos'[r].dna[3] \in Nat
              /\ \A s \in now : utxos'[r].dna[1] = utxos'[s].dna =>
                     utxos'[r].dna[3] <= utxos'[s].num_breedings
    <2>1. CASE r = c
        <3>1. utxos'[r].dna = child /\ child[3] \in Nat
            BY <1>1, <1>3, <1>4, <2>1
        <3>2. ASSUME NEW s \in now, child[1] = utxos'[s].dna PROVE child[3] <= utxos'[s].num_breedings
            <4>1. utxos'[a].dna = child[1]
                BY <1>3, <1>4
            <4>2. s = a
                BY <1>9, <1>10, <3>2, <4>1
            <4> QED  BY <1>1, <1>3, <1>4, <4>2
        <3> QED  BY <3>1, <3>2
    <2>2. CASE r # c
        <3>1. /\ was[r] \in old /\ utxos'[r].dna = utxos[was[r]].dna /\ Bred(utxos[was[r]].dna)
              /\ utxos[was[r]].dna[3] \in Nat
            BY <1>1, <1>7, <1>13, <2>2 DEF BredBefore
        <3>2. ASSUME NEW s \in now, utxos[was[r]].dna[1] = utxos'[s].dna
              PROVE  utxos[was[r]].dna[3] <= utxos'[s].num_breedings
            <4>1. CASE s = c
                <5>1. utxos[was[r]].dna \in Dnas(utxos)
                    BY <1>1, <3>1 DEF Dnas
                <5>2. child \in Dnas(utxos)
                    BY <1>1, <1>3, <3>1, <3>2, <4>1, <5>1 DEF FamilyTree
                <5> QED  BY <1>1, <1>5, <5>2 DEF Dnas
            <4>2. CASE s # c
                <5>1. /\ was[s] \in old /\ utxos[was[r]].dna[1] = utxos[was[s]].dna
                      /\ utxos[was[s]].num_breedings \in Nat /\ utxos'[s].num_breedings \in Nat
                      /\ utxos[was[s]].num_breedings <= utxos'[s].num_breedings
                    BY <1>7, <3>2, <4>2
                <5>2. utxos[was[r]].dna[3] <= utxos[was[s]].num_breedings
                    BY <1>1, <3>1, <5>1 DEF BredBefore
                <5> QED  BY <3>1, <5>1, <5>2, SMTT(30)
            <4> QED  BY <4>1, <4>2
        <3> QED  BY <3>1, <3>2
    <2> QED  BY <2>1, <2>2
<1>14. BredBefore'
    BY <1>1, <1>13 DEF BredBefore
<1> QED  BY <1>12, <1>14

\* The data a checker is shown is that of the references it was given.
LEMMA DataIs ==
    ASSUME NEW refs \in Seq(DOMAIN utxos)
    PROVE  /\ Len(Data(refs)) = Len(refs) /\ (Data(refs) = <<>> => refs = <<>>)
           /\ \A i \in 1 .. Len(refs) : Data(refs)[i] = utxos[refs[i]] /\ refs[i] \in DOMAIN utxos
BY DEF Data

LEMMA InputsApart ==
    ASSUME NEW inputs \in Seq(DOMAIN utxos), NEW evicted \in Seq(DOMAIN utxos),
           Distinct(inputs \o evicted)
    PROVE  \A i, j \in 1 .. Len(inputs) : i # j => inputs[i] # inputs[j]
<1>1. PICK all : all = inputs \o evicted
    BY Zenon
<1>2. \A i \in 1 .. Len(inputs) : i \in 1 .. Len(all) /\ all[i] = inputs[i]
    BY <1>1
<1>3. \A i, j \in 1 .. Len(all) : i # j => all[i] # all[j]
    BY <1>1 DEF Distinct
<1> QED  BY <1>2, <1>3

\* One input and nothing evicted.
LEMMA OneInput ==
    ASSUME NEW inputs \in Seq(DOMAIN utxos), NEW evicted \in Seq(DOMAIN utxos),
           Data(evicted) = <<>>, Len(Data(inputs)) = 1
    PROVE  /\ Gone(inputs, evicted) = {inputs[1]} /\ inputs[1] \in DOMAIN utxos
           /\ Data(inputs)[1] = utxos[inputs[1]]
<1>1. evicted = <<>> /\ Len(inputs) = 1 /\ Data(inputs)[1] = utxos[inputs[1]] /\ inputs[1] \in DOMAIN utxos
    BY DataIs
<1>2. 1 .. Len(inputs) = {1} /\ 1 .. Len(evicted) = {}
    BY <1>1
<1> QED  BY <1>1, <1>2 DEF Gone

-----------------------------------------------------------------------------
(* A transaction keeps the invariant: one lemma for each type of data.     *)

\* An application of a transaction by a chain within its bounds.
Applies(checker, inputs, evicted, peeks, outputs, full_wasm) ==
    /\ PiecesInv /\ checker \in chain.checkers /\ checker \in Checkers /\ txs < chain.txs
    /\ Given(inputs, evicted, peeks, full_wasm)
    /\ checker = "RuntimeUpgrade" => full_wasm \in Wasm
    /\ Applied(checker, inputs, evicted, peeks, outputs, full_wasm)

LEMMA AppliesExchanges ==
    ASSUME NEW checker, NEW inputs, NEW evicted, NEW peeks, NEW outputs, NEW full_wasm,
           Applies(checker, inputs, evicted, peeks, outputs, full_wasm)
    PROVE  /\ Exchange(TypeOf(checker), Gone(inputs, evicted), outputs)
           /\ inputs \in Seq(DOMAIN utxos) /\ evicted \in Seq(DOMAIN utxos) /\ peeks \in Seq(DOMAIN utxos)
           /\ txs \in Nat /\ txs' = txs + 1 /\ chain' = chain /\ height' = height /\ last' = checker
           /\ doubled' \in BOOLEAN /\ (doubled' \/ Distinct(inputs \o evicted))
<1>1. checker \in Checkers /\ RefsOK /\ Given(inputs, evicted, peeks, full_wasm)
    BY DEF Applies, PiecesInv
<1>2. Applied(checker, inputs, evicted, peeks, outputs, full_wasm)
    BY DEF Applies
<1>3. Exchange(TypeOf(checker), Gone(inputs, evicted), outputs)
    BY <1>1, <1>2, ApplyExchanges, Zenon
<1>4. doubled' \in BOOLEAN /\ (doubled' \/ Distinct(inputs \o evicted))
    BY <1>2, Zenon DEF Applied
<1> QED  BY <1>1, <1>2, <1>3, <1>4 DEF Given, RefsOK, Applied

\* References and encodings.
LEMMA AppliesRefs ==
    ASSUME NEW checker, NEW inputs, NEW evicted, NEW peeks, NEW outputs, NEW full_wasm,
           Applies(checker, inputs, evicted, peeks, outputs, full_wasm)
    PROVE  RefsOK' /\ \A r \in DOMAIN utxos' : Decodes(utxos'[r])
<1>1. PICK type, gone : type = TypeOf(checker) /\ gone = Gone(inputs, evicted)
    OBVIOUS
<1>2. Exchange(type, gone, outputs) /\ txs \in Nat /\ txs' = txs + 1
    BY <1>1, AppliesExchanges, Zenon
<1>3. /\ RefsOK /\ \A r \in DOMAIN utxos : Decodes(utxos[r])
      /\ txs < chain.txs /\ chain \in Chains
    BY DEF Applies, PiecesInv
<1>4. txs + 1 \in 0 .. MaxTxs /\ MaxOutputs \in Nat
    BY <1>2, <1>3, TemplateRuntimeAssumption
<1>5. Len(outputs) \in 0 .. MaxOutputs /\ \A i \in 1 .. Len(outputs) : Decodes(outputs[i])
    BY <1>2 DEF Exchange, WellFormed
<1>6. ASSUME NEW r \in NewRefs(outputs)
      PROVE  r \in OutputRef /\ r[1] <= txs' /\ Decodes(utxos'[r])
    <2>1. PICK i \in 1 .. Len(outputs) : r = <<txs + 1, i>>
        BY <1>6 DEF NewRefs
    <2>2. utxos'[r] = outputs[i]
        BY <1>2, <1>6, <2>1 DEF Exchange
    <2>3. i \in 1 .. MaxOutputs
        BY <1>4, <1>5
    <2> QED  BY <1>2, <1>4, <1>5, <2>1, <2>2, <2>3 DEF OutputRef
<1>7. ASSUME NEW r \in DOMAIN utxos \ gone
      PROVE  r \in OutputRef /\ r[1] <= txs' /\ Decodes(utxos'[r])
    <2>1. utxos'[r] = utxos[r] /\ r \in OutputRef /\ r[1] <= txs
        BY <1>2, <1>3 DEF Exchange, RefsOK
    <2>2. r[1] \in Nat
        BY <2>1, TemplateRuntimeAssumption DEF OutputRef
    <2> QED  BY <1>2, <1>3, <2>1, <2>2
<1>8. DOMAIN utxos' = (DOMAIN utxos \ gone) \cup NewRefs(outputs)
    BY <1>2 DEF Exchange
<1>9. RefsOK'
    BY <1>2, <1>6, <1>7, <1>8 DEF RefsOK, OutputRef
<1> QED  BY <1>6, <1>7, <1>8, <1>9

\* No coin is worth nothing or more than a machine integer holds.
LEMMA AppliesCoins ==
    ASSUME NEW checker, NEW inputs, NEW evicted, NEW peeks, NEW outputs, NEW full_wasm,
           Applies(checker, inputs, evicted, peeks, outputs, full_wasm)
    PROVE  \A r \in OfType(utxos', "Coin") : utxos'[r].value \in 1 .. MaxValue
<1>1. PICK type, gone : type = TypeOf(checker) /\ gone = Gone(inputs, evicted)
    OBVIOUS
<1>2. Exchange(type, gone, outputs)
    BY <1>1, AppliesExchanges, Zenon
<1>3. \A r \in OfType(utxos, "Coin") : utxos[r].value \in 1 .. MaxValue
    BY DEF Applies, PiecesInv, TypeOK
<1>4. CASE type # "Coin"
    BY <1>2, <1>3, <1>4, OthersStay
<1>5. CASE type = "Coin"
    <2>1. checker \in {"Spend", "Mint"}
        BY <1>1, <1>5 DEF TypeOf
    <2>2. NoZeroCoin(outputs)
        BY <2>1, Zenon DEF Applies, Applied, OuterCheck, Spend, Mint
    <2>3. ASSUME NEW j \in 1 .. Len(outputs) PROVE outputs[j].value \in 1 .. MaxValue
        <3>1. Decodes(outputs[j]) /\ Extracts(outputs[j], "Coin") /\ outputs[j].value > 0
            BY <1>2, <1>5, <2>2 DEF Exchange, WellFormed, ExtractAll, NoZeroCoin
        <3>2. outputs[j].value \in 0 .. MaxValue
            BY <3>1 DEF Decodes
        <3> QED  BY <3>1, <3>2, MoneyAssumption
    <2>4. /\ OfType(utxos', "Coin") = (OfType(utxos, "Coin") \ gone) \cup NewRefs(outputs)
          /\ \A r \in OfType(utxos, "Coin") \ gone : utxos'[r] = utxos[r]
          /\ \A r \in NewRefs(outputs) : utxos'[r] = outputs[r[2]] /\ r[2] \in 1 .. Len(outputs)
        BY <1>2, <1>5, OwnIsKeptOrNew, SMTT(30)
    <2> QED  BY <1>3, <2>3, <2>4
<1> QED  BY <1>4, <1>5

\* Kitties and their family tree.
LEMMA AppliesKitties ==
    ASSUME NEW checker, NEW inputs, NEW evicted, NEW peeks, NEW outputs, NEW full_wasm,
           Applies(checker, inputs, evicted, peeks, outputs, full_wasm)
    PROVE  /\ FamilyTree' /\ BredBefore'
           /\ \A r \in OfType(utxos', "Kitty") :
                  utxos'[r].free_breedings \in 0 .. 2 /\ utxos'[r].num_breedings \in 0 .. MaxBreedings
<1>1. PICK type, gone : type = TypeOf(checker) /\ gone = Gone(inputs, evicted)
    OBVIOUS
<1>2. Exchange(type, gone, outputs) /\ txs \in Nat
    BY <1>1, AppliesExchanges, Zenon
<1>3. /\ FamilyTree /\ BredBefore
      /\ \A r \in OfType(utxos, "Kitty") :
             utxos[r].free_breedings \in 0 .. 2 /\ utxos[r].num_breedings \in 0 .. MaxBreedings
    BY DEF Applies, PiecesInv, TypeOK
<1>4. CASE type # "Kitty"
    <2>1. /\ OfType(utxos', "Kitty") = OfType(utxos, "Kitty")
          /\ \A r \in OfType(utxos, "Kitty") : utxos'[r] = utxos[r]
        BY <1>2, <1>4, OthersStay
    <2>2. Dnas(utxos') = Dnas(utxos)
        BY <2>1 DEF Dnas
    <2>3. FamilyTree'
        BY <1>3, <2>1, <2>2 DEF FamilyTree
    <2>4. BredBefore'
        BY <1>3, <2>1 DEF BredBefore
    <2> QED  BY <1>3, <2>1, <2>3, <2>4
<1>5. CASE type = "Kitty"
    <2>1. checker = "FreeKitty"
        BY <1>1, <1>5 DEF TypeOf, Applies, Checkers
    <2>2. FreeKitty(Data(inputs), Data(evicted), outputs)
        BY <2>1 DEF Applies, Applied, OuterCheck
    <2>3. inputs \in Seq(DOMAIN utxos) /\ evicted \in Seq(DOMAIN utxos)
        BY AppliesExchanges, Zenon
    <2>4. PICK m, d : m = inputs[1] /\ d = inputs[2]
        OBVIOUS
    <2>5. /\ evicted = <<>> /\ Len(inputs) = 2 /\ Data(inputs)[1] = utxos[m] /\ Data(inputs)[2] = utxos[d]
        <3>1. Data(evicted) = <<>> /\ Len(Data(inputs)) = 2
            BY <2>2 DEF FreeKitty
        <3> QED  BY <2>3, <2>4, <3>1, DataIs
    <2>6. gone = {m, d} /\ m # d
        <3>1. 1 .. Len(inputs) = {1, 2} /\ 1 .. Len(evicted) = {}
            BY <2>5
        <3>2. gone = {m, d}
            BY <1>1, <2>4, <3>1 DEF Gone
        <3>3. utxos[m].sex = "Mom" /\ utxos[d].sex = "Dad"
            BY <2>2, <2>5 DEF FreeKitty, can_breed, CanBreedAs
        <3> QED  BY <3>2, <3>3
    <2>7. m \in OfType(utxos, "Kitty") /\ d \in OfType(utxos, "Kitty")
        BY <1>2, <1>5, <2>6 DEF Exchange
    <2>8. /\ can_breed(utxos[m], utxos[d]) /\ Len(outputs) = 3
          /\ check_new_family(utxos[m], utxos[d], outputs)
        BY <2>2, <2>5 DEF FreeKitty
    <2>9. /\ outputs[1].dna = utxos[m].dna /\ outputs[1].num_breedings = utxos[m].num_breedings + 1
          /\ outputs[2].dna = utxos[d].dna /\ outputs[2].num_breedings = utxos[d].num_breedings + 1
          /\ outputs[3].dna = <<outputs[1].dna, outputs[2].dna,
                                outputs[1].num_breedings, outputs[2].num_breedings>>
          /\ outputs[1].free_breedings = utxos[m].free_breedings - 1
          /\ outputs[2].free_breedings = utxos[d].free_breedings - 1
          /\ outputs[3].free_breedings = 2 /\ outputs[3].num_breedings = 0
        BY <2>8 DEF check_new_family, NewParent, check_child, ChildDna, NUM_FREE_BREEDINGS
    <2>10. \A r \in OfType(utxos, "Kitty") : utxos[r].num_breedings \in Nat
        BY <1>3, TemplateRuntimeAssumption
    <2>11. FamilyTree' /\ BredBefore'
        BY <1>2, <1>3, <1>5, <2>6, <2>7, <2>8, <2>9, <2>10, FamilyStep
    <2>12. ASSUME NEW j \in 1 .. 3
           PROVE  outputs[j].free_breedings \in 0 .. 2 /\ outputs[j].num_breedings \in 0 .. MaxBreedings
        <3>1. /\ utxos[m].free_breedings # 0 /\ utxos[m].num_breedings + 1 <= MaxBreedings
              /\ utxos[d].free_breedings # 0 /\ utxos[d].num_breedings + 1 <= MaxBreedings
            BY <2>8 DEF can_breed, CanBreedAs
        <3>2. /\ utxos[m].free_breedings \in 0 .. 2 /\ utxos[m].num_breedings \in 0 .. MaxBreedings
              /\ utxos[d].free_breedings \in 0 .. 2 /\ utxos[d].num_breedings \in 0 .. MaxBreedings
              /\ MaxBreedings \in Nat
            BY <1>3, <2>7, TemplateRuntimeAssumption
        <3>3. CASE j = 1
            BY <2>9, <3>1, <3>2, <3>3
        <3>4. CASE j = 2
            BY <2>9, <3>1, <3>2, <3>4
        <3>5. CASE j = 3
            BY <2>9, <3>1, <3>2, <3>5, SMTT(30)
        <3> QED  BY <3>3, <3>4, <3>5
    <2>13. /\ OfType(utxos', "Kitty") = (OfType(utxos, "Kitty") \ gone) \cup NewRefs(outputs)
           /\ \A r \in OfType(utxos, "Kitty") \ gone : utxos'[r] = utxos[r]
           /\ \A r \in NewRefs(outputs) : utxos'[r] = outputs[r[2]] /\ r[2] \in 1 .. 3
        BY <1>2, <1>5, <2>8, OwnIsKeptOrNew, SMTT(30)
    <2> QED  BY <1>3, <2>11, <2>12, <2>13
<1> QED  BY <1>4, <1>5

\* The generations of amoebas.
LEMMA AppliesAmoebas ==
    ASSUME NEW checker, NEW inputs, NEW evicted, NEW peeks, NEW outputs, NEW full_wasm,
           Applies(checker, inputs, evicted, peeks, outputs, full_wasm)
    PROVE  Generations'
<1>1. PICK type, gone : type = TypeOf(checker) /\ gone = Gone(inputs, evicted)
    OBVIOUS
<1>2. Exchange(type, gone, outputs) /\ txs \in Nat /\ txs' = txs + 1
    BY <1>1, AppliesExchanges, Zenon
<1>3. \A r \in OfType(utxos, "Amoeba") : utxos[r].generation \in Nat /\ utxos[r].generation <= txs
    BY DEF Applies, PiecesInv, Generations, Decodes, OfType
<1>4. CASE type # "Amoeba"
    BY <1>2, <1>3, <1>4, OthersStay, SMTT(30) DEF Generations
<1>5. CASE type = "Amoeba"
    <2>1. checker \in {"AmoebaMitosis", "AmoebaDeath", "AmoebaCreation"}
        BY <1>1, <1>5 DEF TypeOf, Applies, Checkers
    <2>2. ASSUME NEW j \in 1 .. Len(outputs) PROVE outputs[j].generation <= txs + 1
        <3>1. CASE checker = "AmoebaMitosis"
            <4>1. Mitosis(Data(inputs), Data(evicted), outputs)
                BY <3>1 DEF Applies, Applied, OuterCheck
            <4>2. inputs \in Seq(DOMAIN utxos) /\ evicted \in Seq(DOMAIN utxos)
                BY AppliesExchanges, Zenon
            <4>3. Data(evicted) = <<>> /\ Len(Data(inputs)) = 1
                BY <4>1 DEF Mitosis
            <4>4. gone = {inputs[1]} /\ Data(inputs)[1] = utxos[inputs[1]]
                BY <1>1, <4>2, <4>3, OneInput
            <4>5. inputs[1] \in OfType(utxos, "Amoeba")
                BY <1>2, <1>5, <4>4 DEF Exchange
            <4>6. outputs[j].generation = utxos[inputs[1]].generation + 1
                BY <4>1, <4>4 DEF Mitosis
            <4> QED  BY <1>2, <1>3, <4>5, <4>6
        <3>2. CASE checker = "AmoebaDeath"
            <4>1. outputs = <<>>
                BY <3>2 DEF Applies, Applied, OuterCheck, Death
            <4> QED  BY <4>1
        <3>3. CASE checker = "AmoebaCreation"
            <4>1. Len(outputs) = 1 /\ outputs[1].generation = 0
                BY <3>3 DEF Applies, Applied, OuterCheck, Creation
            <4> QED  BY <1>2, <4>1
        <3> QED  BY <2>1, <3>1, <3>2, <3>3
    <2>3. /\ OfType(utxos', "Amoeba") = (OfType(utxos, "Amoeba") \ gone) \cup NewRefs(outputs)
          /\ \A r \in OfType(utxos, "Amoeba") \ gone : utxos'[r] = utxos[r]
          /\ \A r \in NewRefs(outputs) : utxos'[r] = outputs[r[2]] /\ r[2] \in 1 .. Len(outputs)
        BY <1>2, <1>5, OwnIsKeptOrNew, SMTT(30)
    <2> QED  BY <1>2, <1>3, <2>2, <2>3, SMTT(30) DEF Generations
<1> QED  BY <1>4, <1>5

\* The reference to the runtime.
LEMMA AppliesReference ==
    ASSUME NEW checker, NEW inputs, NEW evicted, NEW peeks, NEW outputs, NEW full_wasm,
           Applies(checker, inputs, evicted, peeks, outputs, full_wasm)
    PROVE  OneReference' /\ code' \in Wasm
<1>1. PICK type, gone : type = TypeOf(checker) /\ gone = Gone(inputs, evicted)
    OBVIOUS
<1>2. Exchange(type, gone, outputs)
    BY <1>1, AppliesExchanges, Zenon
<1>3. OneReference /\ code \in Wasm
    BY DEF Applies, PiecesInv, TypeOK
<1>4. CASE type # "RuntimeRef"
    <2>1. checker # "RuntimeUpgrade"
        BY <1>1, <1>4 DEF TypeOf
    <2>2. code' = code
        BY <2>1 DEF Applies, Applied
    <2> QED  BY <1>2, <1>3, <1>4, <2>2, OthersStay DEF OneReference
<1>5. CASE type = "RuntimeRef"
    <2>1. checker = "RuntimeUpgrade"
        BY <1>1, <1>5 DEF TypeOf, Applies, Checkers
    <2>2. /\ Upgrade(Data(inputs), Data(evicted), outputs, full_wasm, code)
          /\ code' = full_wasm /\ full_wasm \in Wasm
        BY <2>1 DEF Applies, Applied, OuterCheck
    <2>3. inputs \in Seq(DOMAIN utxos) /\ evicted \in Seq(DOMAIN utxos)
        BY AppliesExchanges, Zenon
    <2>4. /\ Data(evicted) = <<>> /\ Len(Data(inputs)) = 1
          /\ Len(outputs) = 1 /\ outputs[1].wasm = full_wasm
        BY <2>2 DEF Upgrade
    <2>5. gone = {inputs[1]}
        BY <1>1, <2>3, <2>4, OneInput
    <2>6. inputs[1] \in OfType(utxos, "RuntimeRef")
        BY <1>2, <1>5, <2>5 DEF Exchange
    <2>7. OfType(utxos, "RuntimeRef") \ gone = {}
        BY <1>3, <2>5, <2>6 DEF OneReference
    <2>8. /\ OfType(utxos', "RuntimeRef") = NewRefs(outputs)
          /\ \A r \in NewRefs(outputs) : utxos'[r] = outputs[r[2]]
        <3>1. /\ OfType(utxos', type) = (OfType(utxos, type) \ gone) \cup NewRefs(outputs)
              /\ \A r \in NewRefs(outputs) : utxos'[r] = outputs[r[2]]
            BY <1>2, OwnIsKeptOrNew
        <3> QED  BY <1>5, <2>7, <3>1
    <2>9. NewRefs(outputs) = {<<txs + 1, 1>>}
        BY <2>4 DEF NewRefs
    <2>10. <<txs + 1, 1>>[2] = 1
        OBVIOUS
    <2> QED  BY <2>2, <2>4, <2>8, <2>9, <2>10, SMTT(30) DEF OneReference
<1> QED  BY <1>4, <1>5

-----------------------------------------------------------------------------
(* The invariant holds.                                                    *)

LEMMA PiecesInit == ASSUME Init PROVE PiecesInv
<1>1. PICK g : g = chain.genesis
    OBVIOUS
<1>2. /\ chain \in Chains /\ GenesisOK(g) /\ chain.blocks \in Nat \ {0} /\ code = GenesisCode
      /\ GenesisCode \in Wasm /\ height = 1 /\ txs = 0 /\ last = NoChecker /\ doubled = FALSE
      /\ MaxTxs \in Nat /\ MaxOutputs \in Nat /\ MaxBreedings \in Nat
    BY <1>1, TemplateRuntimeAssumption DEF Init
<1>3. Len(g) \in 0 .. MaxOutputs /\ Len(g) \in Nat /\ \A i \in 1 .. Len(g) : Decodes(g[i])
    BY <1>2 DEF GenesisOK, WellFormed
<1>4. utxos = [r \in {0} \X (1 .. Len(g)) |-> g[r[2]]]
    BY <1>1 DEF Init, Outputs
<1>5. ASSUME NEW r \in DOMAIN utxos
      PROVE  r[1] = 0 /\ r[2] \in 1 .. Len(g) /\ r = <<0, r[2]>> /\ utxos[r] = g[r[2]] /\ r \in OutputRef
    <2>1. PICK i \in 1 .. Len(g) : r = <<0, i>>
        BY <1>4
    <2>2. i \in 1 .. MaxOutputs /\ 0 \in 0 .. MaxTxs
        BY <1>2, <1>3
    <2> QED  BY <1>4, <2>1, <2>2 DEF OutputRef
<1>6. RefsOK /\ \A r \in DOMAIN utxos : Decodes(utxos[r])
    BY <1>2, <1>3, <1>5 DEF RefsOK
<1>7. TypeOK
    <2>1. ASSUME NEW r \in OfType(utxos, "Coin") PROVE utxos[r].value \in 1 .. MaxValue
        <3>1. r \in DOMAIN utxos /\ Extracts(utxos[r], "Coin")
            BY DEF OfType
        <3>2. utxos[r].value \in 0 .. MaxValue /\ utxos[r].value > 0
            BY <1>2, <1>5, <1>6, <3>1 DEF Decodes, GenesisOK
        <3> QED  BY <3>2, MoneyAssumption
    <2>2. ASSUME NEW r \in OfType(utxos, "Kitty")
          PROVE  utxos[r].free_breedings \in 0 .. 2 /\ utxos[r].num_breedings \in 0 .. MaxBreedings
        <3>1. r \in DOMAIN utxos /\ Extracts(utxos[r], "Kitty")
            BY DEF OfType
        <3>2. utxos[r].free_breedings \in Nat /\ utxos[r].num_breedings \in 0 .. MaxBreedings
            BY <1>6, <3>1 DEF Decodes
        <3>3. utxos[r].free_breedings <= 2
            BY <1>2, <1>5, <3>1 DEF GenesisOK, NUM_FREE_BREEDINGS
        <3> QED  BY <3>2, <3>3
    <2>3. height \in 1 .. chain.blocks /\ txs \in 0 .. MaxTxs
        BY <1>2
    <2> QED  BY <1>2, <1>6, <2>1, <2>2, <2>3 DEF TypeOK, RefsOK
<1>8. ASSUME NEW r \in OfType(utxos, "Kitty")
      PROVE  /\ ~Bred(utxos[r].dna)
             /\ \A s \in OfType(utxos, "Kitty") : r # s => utxos[r].dna # utxos[s].dna
    <2>1. ASSUME NEW s \in OfType(utxos, "Kitty")
          PROVE  /\ s = <<0, s[2]>> /\ s[2] \in 1 .. Len(g) /\ utxos[s] = g[s[2]]
                 /\ Extracts(g[s[2]], "Kitty")
        BY <1>5 DEF OfType
    <2>2. ~Bred(utxos[r].dna)
        BY <1>2, <2>1 DEF GenesisOK
    <2>3. ASSUME NEW s \in OfType(utxos, "Kitty"), r # s PROVE utxos[r].dna # utxos[s].dna
        <3>1. r[2] # s[2]
            BY <2>1, <2>3
        <3> QED  BY <1>2, <2>1, <3>1 DEF GenesisOK
    <2> QED  BY <2>2, <2>3
<1>9. FamilyTree /\ BredBefore
    BY <1>8 DEF FamilyTree, BredBefore, Dnas
<1>10. OneReference
    <2>1. ASSUME NEW s \in OfType(utxos, "RuntimeRef")
          PROVE  /\ s = <<0, s[2]>> /\ s[2] \in 1 .. Len(g) /\ utxos[s] = g[s[2]]
                 /\ Extracts(g[s[2]], "RuntimeRef")
        BY <1>5 DEF OfType
    <2>2. ASSUME NEW r \in OfType(utxos, "RuntimeRef"), NEW s \in OfType(utxos, "RuntimeRef")
          PROVE  r = s
        <3>1. r[2] = s[2]
            BY <1>2, <2>1 DEF GenesisOK
        <3> QED  BY <2>1, <3>1
    <2>3. \A r \in OfType(utxos, "RuntimeRef") : utxos[r].wasm = code
        BY <1>2, <2>1 DEF GenesisOK
    <2> QED  BY <2>2, <2>3 DEF OneReference
<1>11. Generations
    BY <1>2, <1>5 DEF Generations, OfType, GenesisOK
<1> QED  BY <1>2, <1>6, <1>7, <1>9, <1>10, <1>11 DEF PiecesInv

\* What is said of the outputs alone stays while they do.
LEMMA OutputsStay ==
    ASSUME PiecesInv, UNCHANGED <<chain, utxos, code, txs>>
    PROVE  /\ chain' \in Chains /\ RefsOK' /\ \A r \in DOMAIN utxos' : Decodes(utxos'[r])
           /\ FamilyTree' /\ BredBefore' /\ OneReference' /\ Generations'
<1>1. chain' \in Chains /\ RefsOK' /\ \A r \in DOMAIN utxos' : Decodes(utxos'[r])
    BY DEF PiecesInv, RefsOK
<1>2. \A type : OfType(utxos', type) = OfType(utxos, type)
    OBVIOUS
<1>3. FamilyTree'
    BY <1>2, SMTT(30) DEF PiecesInv, FamilyTree, Dnas
<1>4. BredBefore'
    BY <1>2 DEF PiecesInv, BredBefore
<1>5. OneReference' /\ Generations'
    BY <1>2 DEF PiecesInv, OneReference, Generations
<1> QED  BY <1>1, <1>3, <1>4, <1>5

LEMMA PiecesStep == ASSUME PiecesInv, [Next]_vars PROVE PiecesInv'
<1>1. CASE NewBlock
    <2>1. /\ height < chain.blocks /\ height' = height + 1 /\ last' = NoChecker /\ doubled' = FALSE
          /\ UNCHANGED <<chain, utxos, code, txs>>
        BY <1>1 DEF NewBlock
    <2>2. height \in 1 .. chain.blocks /\ chain.blocks \in Nat
        BY TemplateRuntimeAssumption DEF PiecesInv, TypeOK
    <2>3. height' \in 1 .. chain.blocks
        BY <2>1, <2>2
    <2>4. TypeOK'
        BY <2>1, <2>3 DEF PiecesInv, TypeOK, OfType
    <2> QED  BY <2>1, <2>4, OutputsStay DEF PiecesInv
<1>2. ASSUME NEW checker \in chain.checkers, Transact(checker) PROVE PiecesInv'
    <2>1. checker \in Checkers
        BY <1>2, TemplateRuntimeAssumption DEF PiecesInv
    <2>2. PICK inputs, evicted, peeks, full_wasm, outputs :
              Applies(checker, inputs, evicted, peeks, outputs, full_wasm)
        BY <1>2, <2>1, TransactIsGiven DEF Applies
    <2>3. RefsOK' /\ \A r \in DOMAIN utxos' : Decodes(utxos'[r])
        BY <2>2, AppliesRefs, Zenon
    <2>4. \A r \in OfType(utxos', "Coin") : utxos'[r].value \in 1 .. MaxValue
        BY <2>2, AppliesCoins, Zenon
    <2>5. /\ FamilyTree' /\ BredBefore'
          /\ \A r \in OfType(utxos', "Kitty") :
                 utxos'[r].free_breedings \in 0 .. 2 /\ utxos'[r].num_breedings \in 0 .. MaxBreedings
        BY <2>2, AppliesKitties, Zenon
    <2>6. Generations'
        BY <2>2, AppliesAmoebas, Zenon
    <2>7. OneReference' /\ code' \in Wasm
        BY <2>2, AppliesReference, Zenon
    <2>8. /\ txs \in Nat /\ txs' = txs + 1 /\ chain' = chain /\ height' = height /\ last' = checker
          /\ doubled' \in BOOLEAN
        BY <2>2, AppliesExchanges, Zenon
    <2>9. txs < chain.txs /\ chain.txs \in 0 .. MaxTxs
        BY <2>2, TemplateRuntimeAssumption DEF Applies, PiecesInv
    <2>10. txs' \in 0 .. MaxTxs
        BY <2>8, <2>9, TemplateRuntimeAssumption
    <2>11. TypeOK'
        BY <2>3, <2>4, <2>5, <2>7, <2>8, <2>10 DEF PiecesInv, TypeOK, RefsOK
    <2> QED  BY <2>3, <2>5, <2>6, <2>7, <2>8, <2>11 DEF PiecesInv
<1>3. CASE UNCHANGED vars
    <2>1. UNCHANGED <<chain, utxos, code, height, txs, last, doubled>>
        BY <1>3 DEF vars
    <2>2. TypeOK'
        BY <2>1 DEF PiecesInv, TypeOK
    <2> QED  BY <2>1, <2>2, OutputsStay DEF PiecesInv
<1> QED  BY <1>1, <1>2, <1>3 DEF Next

LEMMA PiecesInvariant == Spec => []PiecesInv
BY PiecesInit, PiecesStep, PTL DEF Spec

\* No checker makes an output that is not of its type: coins between one and the largest
\* machine integer, breedings within theirs, at any length of chain.
THEOREM PiecesTypes == Spec => []TypeOK
<1>1. PiecesInv => TypeOK
    BY DEF PiecesInv
<1> QED  BY <1>1, PiecesInvariant, PTL

\* FreeKittyConstraintChecker keeps the family tree (FamilyTree): whatever is bred in
\* whatever order, no two kitties have the same DNA, and every bred one has its mom's
\* and its dad's DNA still there.
THEOREM FamilyTreeKept == Spec => []FamilyTree
<1>1. PiecesInv => FamilyTree
    BY DEF PiecesInv
<1> QED  BY <1>1, PiecesInvariant, PTL

\* RuntimeUpgrade never gives out a second reference, and the one there is names the
\* code in storage (CodeIsReferenced).
THEOREM CodeReferenced == Spec => []CodeIsReferenced
<1>1. ASSUME PiecesInv PROVE CodeIsReferenced
    <2>1. OneReference
        BY <1>1 DEF PiecesInv
    <2>2. PICK refs : refs = OfType(utxos, "RuntimeRef")
        OBVIOUS
    <2>3. \A r, s \in refs : r = s
        BY <2>1, <2>2 DEF OneReference
    <2>4. Cardinality(refs) <= 1
        <3>1. CASE refs = {}
            <4>1. Cardinality(refs) = 0
                BY <3>1, FS_EmptySet
            <4> QED  BY <4>1
        <3>2. ASSUME NEW r \in refs PROVE Cardinality(refs) <= 1
            <4>1. refs = {r}
                BY <2>3, <3>2
            <4>2. Cardinality(refs) = 1
                BY <4>1, FS_Singleton, Zenon
            <4> QED  BY <4>2
        <3> QED  BY <3>1, <3>2
    <2> QED  BY <2>1, <2>2, <2>4 DEF CodeIsReferenced, OneReference
<1> QED  BY <1>1, PiecesInvariant, PTL

-----------------------------------------------------------------------------
(* What a step may do.                                                     *)

\* The pieces keep apart (PiecesKeepApart): whatever transactions are offered to an
\* aggregation of pieces, data enters and leaves the UTXO set only by a checker of the
\* piece that defines its type, and is never changed in place.
THEOREM PiecesApart == Spec => PiecesKeepApart
<1> DEFINE Apart == \A r \in DOMAIN utxos \cup DOMAIN utxos' :
               \/ r \in DOMAIN utxos \cap DOMAIN utxos' /\ utxos'[r] = utxos[r]
               \/ last' \in Piece(IF r \in DOMAIN utxos THEN utxos[r].type ELSE utxos'[r].type)
<1>1. ASSUME PiecesInv, [Next]_vars PROVE [Apart]_vars
    <2>1. CASE NewBlock \/ UNCHANGED vars
        BY <2>1 DEF NewBlock, vars
    <2>2. ASSUME NEW checker \in chain.checkers, Transact(checker) PROVE Apart
        <3>1. checker \in Checkers
            BY <1>1, <2>2, TemplateRuntimeAssumption DEF PiecesInv
        <3>2. PICK inputs, evicted, peeks, full_wasm, outputs :
                  Applies(checker, inputs, evicted, peeks, outputs, full_wasm)
            BY <1>1, <2>2, <3>1, TransactIsGiven DEF Applies
        <3>3. PICK type, gone : type = TypeOf(checker) /\ gone = Gone(inputs, evicted)
            OBVIOUS
        <3>4. Exchange(type, gone, outputs) /\ last' = checker
            BY <3>2, <3>3, AppliesExchanges, Zenon
        <3>5. last' \in Piece(type)
            BY <3>1, <3>3, <3>4, TypeOfPiece
        <3>6. ASSUME NEW r \in gone PROVE r \in DOMAIN utxos /\ utxos[r].type = type
            BY <3>4 DEF Exchange, OfType, Extracts
        <3>7. ASSUME NEW r \in NewRefs(outputs) PROVE r \notin DOMAIN utxos /\ utxos'[r].type = type
            BY <3>4 DEF Exchange, ExtractAll, Extracts
        <3>8. ASSUME NEW r \in DOMAIN utxos \ gone PROVE r \in DOMAIN utxos' /\ utxos'[r] = utxos[r]
            BY <3>4 DEF Exchange
        <3>9. DOMAIN utxos' = (DOMAIN utxos \ gone) \cup NewRefs(outputs)
            BY <3>4 DEF Exchange
        <3> QED  BY <3>5, <3>6, <3>7, <3>8, <3>9
    <2> QED  BY <1>1, <2>1, <2>2 DEF Next
<1> QED  BY <1>1, PiecesInvariant, PTL DEF Spec, PiecesKeepApart

\* The oldest claim of a hash that is in effect stays the oldest and stays there until
\* it is revoked (OldestClaimKept): PoeClaim takes no height of the past, and PoeDispute
\* evicts only what is later than a claim it peeks at.
THEOREM OldestClaimStays == Spec => OldestClaimKept
<1> DEFINE Kept == \A r \in DOMAIN utxos : Established(utxos, height, r)
               => IF r \in DOMAIN utxos' THEN Established(utxos', height', r)
                                         ELSE last' = "PoeRevoke"
<1>1. ASSUME PiecesInv, [Next]_vars PROVE [Kept]_vars
    <2>1. CASE UNCHANGED vars
        BY <2>1
    <2>2. \A r \in OfType(utxos, "Claim") : utxos[r].effective_height \in Nat
        BY <1>1 DEF PiecesInv, Decodes, OfType
    <2>3. height \in Nat
        BY <1>1, TemplateRuntimeAssumption DEF PiecesInv, TypeOK
    <2>4. CASE NewBlock
        <3>1. height' = height + 1 /\ utxos' = utxos
            BY <2>4 DEF NewBlock
        <3> QED  BY <2>2, <2>3, <3>1 DEF Established, Rivals
    <2>5. ASSUME NEW checker \in chain.checkers, Transact(checker),
                 NEW r \in DOMAIN utxos, Established(utxos, height, r)
          PROVE  IF r \in DOMAIN utxos' THEN Established(utxos', height', r) ELSE last' = "PoeRevoke"
        <3>1. checker \in Checkers
            BY <1>1, <2>5, TemplateRuntimeAssumption DEF PiecesInv
        <3>2. PICK inputs, evicted, peeks, full_wasm, outputs :
                  Applies(checker, inputs, evicted, peeks, outputs, full_wasm)
            BY <1>1, <2>5, <3>1, TransactIsGiven DEF Applies
        <3>3. PICK type, gone : type = TypeOf(checker) /\ gone = Gone(inputs, evicted)
            OBVIOUS
        <3>4. /\ Exchange(type, gone, outputs) /\ last' = checker /\ height' = height
              /\ inputs \in Seq(DOMAIN utxos) /\ evicted \in Seq(DOMAIN utxos) /\ peeks \in Seq(DOMAIN utxos)
            BY <3>2, <3>3, AppliesExchanges, Zenon
        <3>5. /\ r \in OfType(utxos, "Claim") /\ utxos[r].effective_height <= height
              /\ \A s \in OfType(utxos, "Claim") : utxos[s].claim = utxos[r].claim
                     => utxos[r].effective_height <= utxos[s].effective_height
            BY <2>5 DEF Established, Rivals
        <3>6. CASE type # "Claim"
            <4>1. /\ OfType(utxos', "Claim") = OfType(utxos, "Claim")
                  /\ \A s \in OfType(utxos, "Claim") : utxos'[s] = utxos[s]
                BY <3>4, <3>6, OthersStay
            <4>2. r \in DOMAIN utxos'
                BY <3>5, <4>1 DEF OfType
            <4> QED  BY <3>4, <3>5, <4>1, <4>2 DEF Established, Rivals
        <3>7. CASE type = "Claim"
            <4>1. checker \in {"PoeClaim", "PoeRevoke", "PoeDispute"}
                BY <3>1, <3>3, <3>7 DEF TypeOf, Checkers
            <4>2. OuterCheck(checker, Data(inputs), Data(evicted), Data(peeks), outputs, full_wasm)
                BY <3>2 DEF Applies, Applied
            <4>3. ASSUME NEW i \in 1 .. Len(outputs) PROVE outputs[i].effective_height >= height
                <5>1. CASE checker = "PoeClaim"
                    BY <4>2, <5>1 DEF OuterCheck, Claim
                <5>2. CASE checker # "PoeClaim"
                    <6>1. outputs = <<>>
                        BY <4>1, <4>2, <5>2, Zenon DEF OuterCheck, Revoke, Dispute
                    <6> QED  BY <6>1
                <5> QED  BY <5>1, <5>2
            <4>4. ASSUME r \in gone PROVE checker = "PoeRevoke"
                <5>1. CASE checker = "PoeClaim"
                    <6>1. Data(inputs) = <<>> /\ Data(evicted) = <<>>
                        BY <4>2, <5>1 DEF OuterCheck, Claim
                    <6>2. inputs = <<>> /\ evicted = <<>>
                        BY <3>4, <6>1, DataIs
                    <6> QED  BY <3>3, <4>4, <6>2 DEF Gone
                <5>2. CASE checker = "PoeDispute"
                    <6>1. Dispute(Data(inputs), Data(evicted), Data(peeks), outputs)
                        BY <4>2, <5>2 DEF OuterCheck
                    <6>2. inputs = <<>> /\ peeks # <<>>
                        <7>1. Data(inputs) = <<>> /\ Data(peeks) # <<>>
                            BY <6>1 DEF Dispute
                        <7>2. inputs = <<>>
                            BY <3>4, <7>1, DataIs
                        <7>3. peeks # <<>>
                            BY <7>1 DEF Data
                        <7> QED  BY <7>2, <7>3
                    <6>3. PICK i \in 1 .. Len(evicted) : r = evicted[i]
                        BY <3>3, <4>4, <6>2 DEF Gone
                    <6>4. 1 \in 1 .. Len(peeks)
                        BY <3>4, <6>2
                    <6>5. /\ Len(Data(evicted)) = Len(evicted) /\ Data(evicted)[i] = utxos[r]
                          /\ Data(peeks)[1] = utxos[peeks[1]] /\ peeks[1] \in DOMAIN utxos
                        BY <3>4, <6>3, <6>4, DataIs
                    <6>6. /\ peeks[1] \in OfType(utxos, "Claim") /\ utxos[peeks[1]].claim = utxos[r].claim
                          /\ utxos[peeks[1]].effective_height < utxos[r].effective_height
                        BY <6>1, <6>5 DEF Dispute, OfType
                    <6> QED  BY <2>2, <3>5, <6>6
                <5> QED  BY <4>1, <5>1, <5>2
            <4>5. CASE r \in gone
                <5>1. r \notin DOMAIN utxos'
                    BY <3>4, <4>5 DEF Exchange
                <5> QED  BY <3>4, <4>4, <4>5, <5>1
            <4>6. CASE r \notin gone
                <5>1. /\ OfType(utxos', "Claim") = (OfType(utxos, "Claim") \ gone) \cup NewRefs(outputs)
                      /\ \A s \in OfType(utxos, "Claim") \ gone : utxos'[s] = utxos[s]
                      /\ \A s \in NewRefs(outputs) : utxos'[s] = outputs[s[2]] /\ s[2] \in 1 .. Len(outputs)
                    BY <3>4, <3>7, OwnIsKeptOrNew
                <5>2. ASSUME NEW i \in 1 .. Len(outputs) PROVE outputs[i].effective_height \in Nat
                    BY <3>4, <3>7 DEF Exchange, WellFormed, ExtractAll, Decodes
                <5>3. ASSUME NEW s \in OfType(utxos', "Claim"), utxos'[s].claim = utxos'[r].claim
                      PROVE  utxos'[r].effective_height <= utxos'[s].effective_height
                    <6>1. utxos'[r] = utxos[r] /\ utxos[r].effective_height \in Nat
                        BY <2>2, <3>5, <4>6, <5>1
                    <6>2. CASE s \in NewRefs(outputs)
                        <7>1. PICK i \in 1 .. Len(outputs) : utxos'[s] = outputs[i]
                            BY <5>1, <6>2
                        <7> QED  BY <2>3, <3>5, <4>3, <5>2, <6>1, <7>1
                    <6>3. CASE s \notin NewRefs(outputs)
                        BY <3>5, <5>1, <5>3, <6>1, <6>3
                    <6> QED  BY <6>2, <6>3
                <5>4. r \in OfType(utxos', "Claim") /\ r \in DOMAIN utxos' /\ utxos'[r] = utxos[r]
                    BY <3>5, <4>6, <5>1 DEF OfType
                <5>5. Established(utxos', height', r)
                    BY <3>4, <3>5, <5>3, <5>4 DEF Established, Rivals
                <5> QED  BY <5>4, <5>5
            <4> QED  BY <4>5, <4>6
        <3> QED  BY <3>6, <3>7
    <2> QED  BY <1>1, <2>1, <2>4, <2>5 DEF Next
<1> QED  BY <1>1, PiecesInvariant, PTL DEF Spec, OldestClaimKept

-----------------------------------------------------------------------------
(* Money.                                                                  *)

LEMMA RefsFinite ==
    ASSUME NEW refs, refs \subseteq OutputRef
    PROVE  IsFiniteSet(refs)
<1>1. MaxTxs \in Nat /\ MaxOutputs \in Nat
    BY TemplateRuntimeAssumption
<1>2. \A a, b \in Int : IsFiniteSet(a .. b)
    BY FS_Interval, Zenon
<1>3. IsFiniteSet(0 .. MaxTxs) /\ IsFiniteSet(1 .. MaxOutputs)
    BY <1>1, <1>2
<1>4. IsFiniteSet(OutputRef)
    BY <1>3, FS_Product, Zenon DEF OutputRef
<1> QED  BY <1>4, FS_Subset

Values(set, coins, F) ==
    /\ coins = OfType(set, "Coin") /\ IsFiniteSet(coins)
    /\ Numbers(F, coins) /\ \A r \in coins : F[r] = set[r].value

\* Supply is a sum of the values of the coins.
LEMMA SupplyAdds ==
    ASSUME NEW set, NEW coins, NEW F, Values(set, coins, F)
    PROVE  \E J : Adds(J, F, coins) /\ Supply(set) = J[coins]
<1> /\ coins = OfType(set, "Coin") /\ IsFiniteSet(coins)
    /\ \A r \in coins : F[r] = set[r].value /\ F[r] \in Nat
    BY DEF Values, Numbers
<1> DEFINE Chosen(s) == CHOOSE x \in s : TRUE
           Step(J, s) == IF s = {} THEN 0 ELSE set[Chosen(s)].value + J[s \ {Chosen(s)}]
           FStep(J, s) == IF s = {} THEN 0 ELSE F[Chosen(s)] + J[s \ {Chosen(s)}]
<1>1. Supply(set) = (CHOOSE J : J = [s \in SUBSET coins |-> Step(J, s)])[coins]
    BY DEF Supply, MapThenSumSet, MapThenFoldSet
<1>2. ASSUME NEW J, NEW s \in SUBSET coins PROVE Step(J, s) = FStep(J, s)
    BY <1>2
<1>3. \E J : J = [s \in SUBSET coins |-> FStep(J, s)]
    <2>1. PICK J : Sums(J, F, coins)
        BY SumsExist
    <2>2. J = [s \in SUBSET coins |-> FStep(J, s)]
        BY <2>1, Zenon DEF Sums
    <2> HIDE DEF FStep
    <2> QED  BY <2>2, Zenon
<1>4. \E J : J = [s \in SUBSET coins |-> Step(J, s)]
    <2> HIDE DEF Step, FStep
    <2>1. PICK J : J = [s \in SUBSET coins |-> FStep(J, s)]
        BY <1>3
    <2>2. [s \in SUBSET coins |-> FStep(J, s)] = [s \in SUBSET coins |-> Step(J, s)]
        BY <1>2
    <2> QED  BY <2>1, <2>2, Zenon
<1>5. PICK J : J = [s \in SUBSET coins |-> Step(J, s)] /\ Supply(set) = J[coins]
    <2> HIDE DEF Step
    <2> QED  BY <1>1, <1>4, Zenon
<1>6. J = [s \in SUBSET coins |-> FStep(J, s)]
    <2> HIDE DEF Step, FStep
    <2>1. [s \in SUBSET coins |-> FStep(J, s)] = [s \in SUBSET coins |-> Step(J, s)]
        BY <1>2
    <2> QED  BY <1>5, <2>1, Zenon
<1>7. Sums(J, F, coins)
    BY <1>6 DEF Sums
<1>8. Adds(J, F, coins)
    BY <1>7, SumsAdd
<1> QED  BY <1>5, <1>8, Zenon

\* The values of coins added up one by one.
LEMMA SumToIs ==
    ASSUME NEW coins, Len(coins) \in Nat
    PROVE  /\ SumTo(coins)[0] = 0
           /\ \A i \in 1 .. Len(coins) : SumTo(coins)[i] = SumTo(coins)[i - 1] + coins[i].value
<1>1. PICK n, V : n = Len(coins) /\ V = [i \in 1 .. Len(coins) |-> coins[i].value]
    BY Zenon
<1> DEFINE Step(g, i) == IF i = 0 THEN 0 ELSE g[i - 1] + coins[i].value
           VStep(g, i) == IF i = 0 THEN 0 ELSE g[i - 1] + V[i]
<1>2. ASSUME NEW g, NEW i \in 0 .. n PROVE Step(g, i) = VStep(g, i)
    BY <1>1, SMTT(30)
<1>3. PICK h : h = [i \in 0 .. n |-> VStep(h, i)]
    <2>1. PICK h : PartialSums(h, V, n)
        BY <1>1, PartialSumsExist, Zenon
    <2> QED  BY <2>1, Zenon DEF PartialSums
<1>4. h = [i \in 0 .. n |-> Step(h, i)]
    <2> HIDE DEF Step, VStep
    <2>1. [i \in 0 .. n |-> VStep(h, i)] = [i \in 0 .. n |-> Step(h, i)]
        BY <1>2
    <2> QED  BY <1>3, <2>1, Zenon
<1>5. PICK sum : sum = SumTo(coins)
    OBVIOUS
<1>6. sum = CHOOSE g : g = [i \in 0 .. n |-> Step(g, i)]
    BY <1>1, <1>5 DEF SumTo
<1>7. sum = [i \in 0 .. n |-> Step(sum, i)]
    <2> HIDE DEF Step
    <2> QED  BY <1>4, <1>6, Zenon
<1>8. \A i \in 0 .. n : sum[i] = Step(sum, i)
    <2> HIDE DEF Step
    <2> QED  BY <1>7, Zenon
<1>9. n \in Nat /\ 0 \in 0 .. n /\ \A i \in 1 .. n : i \in 0 .. n /\ i # 0
    BY <1>1
<1> QED  BY <1>1, <1>5, <1>8, <1>9

\* f names references, each once, to coins that have those values.
Refers(f, coins, F, S) ==
    /\ Len(coins) \in Nat /\ \A i \in 1 .. Len(coins) : f[i] \in S
    /\ \A i, j \in 1 .. Len(coins) : i # j => f[i] # f[j]
    /\ \A i \in 1 .. Len(coins) : F[f[i]] = coins[i].value

\* The sum over references to coins is the total of the coins in sequence.
LEMMA TotalIsSum ==
    ASSUME NEW S, NEW F, NEW J, NEW coins, NEW f,
           Adds(J, F, S), Numbers(F, S), Refers(f, coins, F, S)
    PROVE  J[Named(f, Len(coins))] = Total(coins)
<1>1. PICK n, g : n = Len(coins) /\ g = SumTo(coins)
    BY Zenon
<1>2. RunsThrough(f, n, F, S, g, J)
    BY <1>1, SumToIs DEF RunsThrough, Refers
<1>3. J[Named(f, n)] = g[n]
    BY <1>2, SumAlongSequence, SMTT(30)
<1> QED  BY <1>1, <1>3 DEF Total

\* Only MoneyConstraintChecker's Mint adds to the sum of all coins (SupplyGrowsByMint):
\* no Spend of different coins, however many it takes and makes, and no other piece does.
THEOREM MoneyConserved == Spec => SupplyGrowsByMint
<1> DEFINE Within == last' # "Mint" /\ ~doubled' => Supply(utxos') <= Supply(utxos)
<1>1. ASSUME PiecesInv, PiecesInv', [Next]_vars PROVE [Within]_vars
    <2>1. PICK A, B, F, G :
              /\ A = OfType(utxos, "Coin") /\ B = OfType(utxos', "Coin")
              /\ F = [r \in A |-> utxos[r].value] /\ G = [r \in B |-> utxos'[r].value]
        BY Zenon
    <2>2. (\A r \in A : utxos[r].value \in Nat) /\ (\A r \in B : utxos'[r].value \in Nat)
        <3>1. /\ \A r \in OfType(utxos, "Coin") : utxos[r].value \in 1 .. MaxValue
              /\ \A r \in OfType(utxos', "Coin") : utxos'[r].value \in 1 .. MaxValue
            BY <1>1 DEF PiecesInv, TypeOK
        <3>2. (\A r \in A : utxos[r].value \in 1 .. MaxValue) /\ (\A r \in B : utxos'[r].value \in 1 .. MaxValue)
            BY <2>1, <3>1
        <3> QED  BY <3>2, MoneyAssumption
    <2>3. IsFiniteSet(A) /\ IsFiniteSet(B)
        <3>1. A \subseteq OutputRef /\ B \subseteq OutputRef
            BY <1>1, <2>1 DEF PiecesInv, RefsOK, OfType, OutputRef
        <3> QED  BY <3>1, RefsFinite
    <2>4. /\ \A r \in A : F[r] = utxos[r].value /\ F[r] \in Nat
          /\ \A r \in B : G[r] = utxos'[r].value /\ G[r] \in Nat
        BY <2>1, <2>2
    <2>5. PICK J : Adds(J, F, A) /\ Supply(utxos) = J[A]
        <3>1. Values(utxos, A, F)
            BY <2>1, <2>3, <2>4 DEF Values, Numbers
        <3> QED  BY <3>1, SupplyAdds, Zenon
    <2>6. PICK K : Adds(K, G, B) /\ Supply(utxos') = K[B]
        <3>1. PICK set : set = utxos'
            OBVIOUS
        <3>2. Values(set, B, G)
            BY <2>1, <2>3, <2>4, <3>1 DEF Values, Numbers
        <3>3. \E K : Adds(K, G, B) /\ Supply(set) = K[B]
            BY <3>2, SupplyAdds, Zenon
        <3> QED  BY <3>1, <3>3
    <2>7. J[A] \in Nat
        BY <2>5 DEF Adds
    <2>8. ASSUME B = A, \A r \in A : utxos'[r] = utxos[r] PROVE K[B] = J[A]
        <3>1. A \subseteq B /\ \A r \in A : F[r] = G[r]
            BY <2>4, <2>8
        <3>2. J[A] = K[A]
            <4>1. Agree(J, K, F, G, A, B, A)
                BY <2>3, <2>5, <2>6, <3>1 DEF Agree
            <4> QED  BY <4>1, SumsAgree
        <3> QED  BY <2>8, <3>2
    <2>9. CASE NewBlock \/ UNCHANGED vars
        <3>1. utxos' = utxos
            BY <2>9 DEF NewBlock, vars
        <3>2. K[B] = J[A]
            BY <2>1, <2>8, <3>1
        <3> QED  BY <2>5, <2>6, <2>7, <3>2
    <2>10. ASSUME NEW checker \in chain.checkers, Transact(checker), last' # "Mint", ~doubled'
           PROVE  K[B] <= J[A]
        <3>1. checker \in Checkers
            BY <1>1, <2>10, TemplateRuntimeAssumption DEF PiecesInv
        <3>2. PICK inputs, evicted, peeks, full_wasm, outputs :
                  Applies(checker, inputs, evicted, peeks, outputs, full_wasm)
            BY <1>1, <2>10, <3>1, TransactIsGiven DEF Applies
        <3>3. PICK type, gone : type = TypeOf(checker) /\ gone = Gone(inputs, evicted)
            OBVIOUS
        <3>4. /\ Exchange(type, gone, outputs) /\ last' = checker /\ txs \in Nat
              /\ inputs \in Seq(DOMAIN utxos) /\ evicted \in Seq(DOMAIN utxos)
              /\ Distinct(inputs \o evicted)
            BY <2>10, <3>2, <3>3, AppliesExchanges, Zenon
        <3>5. CASE type # "Coin"
            <4>1. B = A /\ \A r \in A : utxos'[r] = utxos[r]
                BY <2>1, <3>4, <3>5, OthersStay
            <4> QED  BY <2>7, <2>8, <4>1
        <3>6. CASE type = "Coin"
            <4>1. Spend(Data(inputs), Data(evicted), outputs)
                <5>1. checker = "Spend"
                    BY <2>10, <3>3, <3>4, <3>6 DEF TypeOf
                <5> QED  BY <3>2, <5>1 DEF Applies, Applied, OuterCheck
            <4>2. PICK new : new = NewRefs(outputs)
                OBVIOUS
            <4>3. /\ B = (A \ gone) \cup new /\ gone \subseteq A /\ new \cap A = {}
                  /\ \A r \in A \ gone : utxos'[r] = utxos[r]
                  /\ \A r \in new : utxos'[r] = outputs[r[2]]
                <5>1. gone \subseteq A /\ new \cap A = {}
                    BY <2>1, <3>4, <3>6, <4>2 DEF Exchange, OfType
                <5>2. /\ OfType(utxos', type) = (OfType(utxos, type) \ gone) \cup NewRefs(outputs)
                      /\ \A r \in OfType(utxos, type) \ gone : utxos'[r] = utxos[r]
                      /\ \A r \in NewRefs(outputs) : utxos'[r] = outputs[r[2]]
                    BY <3>4, OwnIsKeptOrNew, SMTT(30)
                <5> QED  BY <2>1, <3>6, <4>2, <5>1, <5>2
            <4>4. J[gone] \in Nat /\ K[new] \in Nat /\ K[B] = J[A] - J[gone] + K[new]
                <5>1. \A r \in A \ gone : F[r] = G[r]
                    <6>1. \A r \in A \ gone : r \in A /\ r \in B /\ utxos'[r] = utxos[r]
                        BY <4>3
                    <6> QED  BY <2>4, <6>1
                <5>2. Exchanged(A, B, gone, new, F, G, J, K)
                    BY <2>3, <2>4, <2>5, <2>6, <4>3, <5>1 DEF Exchanged, Numbers
                <5> QED  BY <5>2, SumOfExchange, SMTT(30)
            <4>5. J[gone] = Total(Data(inputs))
                <5>1. PICK coins : coins = Data(inputs)
                    OBVIOUS
                <5>2. evicted = <<>> /\ Len(coins) = Len(inputs) /\ Len(coins) \in Nat
                    BY <3>4, <4>1, <5>1, DataIs DEF Spend
                <5>3. gone = {inputs[i] : i \in 1 .. Len(coins)}
                    BY <3>3, <5>2 DEF Gone
                <5>4. \A i \in 1 .. Len(coins) : inputs[i] \in A
                    BY <4>3, <5>3
                <5>5. \A i \in 1 .. Len(coins) : F[inputs[i]] = coins[i].value
                    <6>1. \A i \in 1 .. Len(inputs) : coins[i] = utxos[inputs[i]]
                        BY <3>4, <5>1, DataIs
                    <6> QED  BY <2>4, <5>2, <5>4, <6>1
                <5>6. \A i, j \in 1 .. Len(coins) : i # j => inputs[i] # inputs[j]
                    BY <3>4, <5>2, InputsApart, Zenon
                <5>7. Refers(inputs, coins, F, A) /\ Numbers(F, A)
                    BY <2>4, <5>2, <5>4, <5>5, <5>6 DEF Refers, Numbers
                <5>8. J[Named(inputs, Len(coins))] = Total(coins)
                    BY <2>5, <5>7, TotalIsSum, Zenon
                <5> QED  BY <5>1, <5>3, <5>8 DEF Named
            <4>6. K[new] = Total(outputs)
                <5>1. PICK n, f : n = Len(outputs) /\ f = [i \in 1 .. Len(outputs) |-> <<txs + 1, i>>]
                    BY Zenon
                <5>2. n \in Nat
                    BY <3>4, <5>1, TemplateRuntimeAssumption, SMTT(30) DEF Exchange, WellFormed
                <5>3. /\ \A i \in 1 .. n : f[i] \in new /\ f[i][2] = i
                      /\ new = {f[i] : i \in 1 .. n}
                    BY <4>2, <5>1 DEF NewRefs
                <5>4. /\ \A i \in 1 .. n : f[i] \in B
                      /\ \A i, j \in 1 .. n : i # j => f[i] # f[j]
                      /\ \A i \in 1 .. n : G[f[i]] = outputs[i].value
                    BY <2>4, <4>3, <5>3, SMTT(30)
                <5>5. Refers(f, outputs, G, B) /\ Numbers(G, B)
                    BY <2>4, <5>1, <5>2, <5>4 DEF Refers, Numbers
                <5>6. K[Named(f, Len(outputs))] = Total(outputs)
                    BY <2>6, <5>5, TotalIsSum, Zenon
                <5> QED  BY <5>1, <5>3, <5>6 DEF Named
            <4>7. Total(outputs) <= Total(Data(inputs))
                BY <4>1 DEF Spend
            <4> QED  BY <2>7, <4>4, <4>5, <4>6, <4>7
        <3> QED  BY <3>5, <3>6
    <2> QED  BY <1>1, <2>5, <2>6, <2>9, <2>10 DEF Next
<1> QED  BY <1>1, PiecesInvariant, PTL DEF Spec, SupplyGrowsByMint

-----------------------------------------------------------------------------
(* Amoebas.                                                                *)

LEMMA WorthDoubles ==
    \A n \in 0 .. MaxTxs : Worth[n] \in Nat /\ (n # 0 => Worth[n] = 2 * Worth[n - 1])
<1>1. MaxTxs \in Nat
    BY TemplateRuntimeAssumption
<1>2. PICK g : Powers(g, MaxTxs)
    BY <1>1, PowersExist
<1>3. Powers(Worth, MaxTxs)
    <2>1. PICK worth : worth = Worth
        OBVIOUS
    <2>2. worth = CHOOSE h : h = [n \in 0 .. MaxTxs |-> IF n = 0 THEN 1 ELSE 2 * h[n - 1]]
        BY <2>1 DEF Worth
    <2>3. Powers(worth, MaxTxs)
        BY <1>2, <2>2, Zenon DEF Powers
    <2> QED  BY <2>1, <2>3
<1> QED  BY <1>1, <1>3, PowersDouble

Shares(set, amoebas, F) ==
    /\ amoebas = OfType(set, "Amoeba") /\ IsFiniteSet(amoebas)
    /\ Numbers(F, amoebas) /\ \A r \in amoebas : F[r] = Worth[MaxTxs - set[r].generation]

\* Mass is a sum of the shares of the amoebas.
LEMMA MassAdds ==
    ASSUME NEW set, NEW amoebas, NEW F, Shares(set, amoebas, F)
    PROVE  \E J : Adds(J, F, amoebas) /\ Mass(set) = J[amoebas]
<1> /\ amoebas = OfType(set, "Amoeba") /\ IsFiniteSet(amoebas)
    /\ \A r \in amoebas : F[r] = Worth[MaxTxs - set[r].generation] /\ F[r] \in Nat
    BY DEF Shares, Numbers
<1> DEFINE Chosen(s) == CHOOSE x \in s : TRUE
           Step(J, s) == IF s = {} THEN 0
                         ELSE Worth[MaxTxs - set[Chosen(s)].generation] + J[s \ {Chosen(s)}]
           FStep(J, s) == IF s = {} THEN 0 ELSE F[Chosen(s)] + J[s \ {Chosen(s)}]
<1>1. Mass(set) = (CHOOSE J : J = [s \in SUBSET amoebas |-> Step(J, s)])[amoebas]
    BY DEF Mass, MapThenSumSet, MapThenFoldSet
<1>2. ASSUME NEW J, NEW s \in SUBSET amoebas PROVE Step(J, s) = FStep(J, s)
    BY <1>2
<1>3. \E J : J = [s \in SUBSET amoebas |-> FStep(J, s)]
    <2>1. PICK J : Sums(J, F, amoebas)
        BY SumsExist
    <2>2. J = [s \in SUBSET amoebas |-> FStep(J, s)]
        BY <2>1, Zenon DEF Sums
    <2> HIDE DEF FStep
    <2> QED  BY <2>2, Zenon
<1>4. \E J : J = [s \in SUBSET amoebas |-> Step(J, s)]
    <2> HIDE DEF Step, FStep
    <2>1. PICK J : J = [s \in SUBSET amoebas |-> FStep(J, s)]
        BY <1>3
    <2>2. [s \in SUBSET amoebas |-> FStep(J, s)] = [s \in SUBSET amoebas |-> Step(J, s)]
        BY <1>2
    <2> QED  BY <2>1, <2>2, Zenon
<1>5. PICK J : J = [s \in SUBSET amoebas |-> Step(J, s)] /\ Mass(set) = J[amoebas]
    <2> HIDE DEF Step
    <2> QED  BY <1>1, <1>4, Zenon
<1>6. J = [s \in SUBSET amoebas |-> FStep(J, s)]
    <2> HIDE DEF Step, FStep
    <2>1. [s \in SUBSET amoebas |-> FStep(J, s)] = [s \in SUBSET amoebas |-> Step(J, s)]
        BY <1>2
    <2> QED  BY <1>5, <2>1, Zenon
<1>7. Sums(J, F, amoebas)
    BY <1>6 DEF Sums
<1>8. Adds(J, F, amoebas)
    BY <1>7, SumsAdd
<1> QED  BY <1>5, <1>8, Zenon

\* Only AmoebaCreation adds to the mass of the amoebas (MassGrowsByCreation): mitosis
\* halves it between two daughters and death takes it away.
THEOREM MassConserved == Spec => MassGrowsByCreation
<1> DEFINE Within == last' # "AmoebaCreation" => Mass(utxos') <= Mass(utxos)
<1>1. ASSUME PiecesInv, PiecesInv', [Next]_vars PROVE [Within]_vars
    <2>1. PICK A, B, F, G :
              /\ A = OfType(utxos, "Amoeba") /\ B = OfType(utxos', "Amoeba")
              /\ F = [r \in A |-> Worth[MaxTxs - utxos[r].generation]]
              /\ G = [r \in B |-> Worth[MaxTxs - utxos'[r].generation]]
        BY Zenon
    <2>2. /\ \A r \in A : MaxTxs - utxos[r].generation \in 0 .. MaxTxs
          /\ \A r \in B : MaxTxs - utxos'[r].generation \in 0 .. MaxTxs
        <3>1. MaxTxs \in Nat /\ txs \in 0 .. MaxTxs /\ txs' \in 0 .. MaxTxs
            BY <1>1, TemplateRuntimeAssumption DEF PiecesInv, TypeOK
        <3>2. \A r \in A : utxos[r].generation \in Nat /\ utxos[r].generation <= txs
            BY <1>1, <2>1 DEF PiecesInv, Generations, Decodes, OfType
        <3>3. \A r \in B : utxos'[r].generation \in Nat /\ utxos'[r].generation <= txs'
            BY <1>1, <2>1 DEF PiecesInv, Generations, Decodes, OfType, Extracts
        <3> QED  BY <3>1, <3>2, <3>3
    <2>3. IsFiniteSet(A) /\ IsFiniteSet(B)
        <3>1. A \subseteq OutputRef /\ B \subseteq OutputRef
            BY <1>1, <2>1 DEF PiecesInv, RefsOK, OfType, OutputRef
        <3> QED  BY <3>1, RefsFinite
    <2>4. /\ \A r \in A : F[r] = Worth[MaxTxs - utxos[r].generation] /\ F[r] \in Nat
          /\ \A r \in B : G[r] = Worth[MaxTxs - utxos'[r].generation] /\ G[r] \in Nat
        BY <2>1, <2>2, WorthDoubles
    <2>5. PICK J : Adds(J, F, A) /\ Mass(utxos) = J[A]
        <3>1. Shares(utxos, A, F)
            BY <2>1, <2>3, <2>4 DEF Shares, Numbers
        <3> QED  BY <3>1, MassAdds, Zenon
    <2>6. PICK K : Adds(K, G, B) /\ Mass(utxos') = K[B]
        <3>1. PICK set : set = utxos'
            OBVIOUS
        <3>2. Shares(set, B, G)
            BY <2>1, <2>3, <2>4, <3>1 DEF Shares, Numbers
        <3>3. \E K : Adds(K, G, B) /\ Mass(set) = K[B]
            BY <3>2, MassAdds, Zenon
        <3> QED  BY <3>1, <3>3
    <2>7. J[A] \in Nat
        BY <2>5 DEF Adds
    <2>8. ASSUME B = A, \A r \in A : utxos'[r] = utxos[r] PROVE K[B] = J[A]
        <3>1. A \subseteq B /\ \A r \in A : F[r] = G[r]
            BY <2>4, <2>8
        <3>2. J[A] = K[A]
            <4>1. Agree(J, K, F, G, A, B, A)
                BY <2>3, <2>5, <2>6, <3>1 DEF Agree
            <4> QED  BY <4>1, SumsAgree
        <3> QED  BY <2>8, <3>2
    <2>9. CASE NewBlock \/ UNCHANGED vars
        <3>1. utxos' = utxos
            BY <2>9 DEF NewBlock, vars
        <3>2. K[B] = J[A]
            BY <2>1, <2>8, <3>1
        <3> QED  BY <2>5, <2>6, <2>7, <3>2
    <2>10. ASSUME NEW checker \in chain.checkers, Transact(checker), last' # "AmoebaCreation"
           PROVE  K[B] <= J[A]
        <3>1. checker \in Checkers
            BY <1>1, <2>10, TemplateRuntimeAssumption DEF PiecesInv
        <3>2. PICK inputs, evicted, peeks, full_wasm, outputs :
                  Applies(checker, inputs, evicted, peeks, outputs, full_wasm)
            BY <1>1, <2>10, <3>1, TransactIsGiven DEF Applies
        <3>3. PICK type, gone : type = TypeOf(checker) /\ gone = Gone(inputs, evicted)
            OBVIOUS
        <3>4. /\ Exchange(type, gone, outputs) /\ last' = checker /\ txs \in Nat
              /\ inputs \in Seq(DOMAIN utxos) /\ evicted \in Seq(DOMAIN utxos)
            BY <3>2, <3>3, AppliesExchanges, Zenon
        <3>5. CASE type # "Amoeba"
            <4>1. B = A /\ \A r \in A : utxos'[r] = utxos[r]
                BY <2>1, <3>4, <3>5, OthersStay
            <4> QED  BY <2>7, <2>8, <4>1
        <3>6. CASE type = "Amoeba"
            <4>1. PICK new : new = NewRefs(outputs)
                OBVIOUS
            <4>2. /\ B = (A \ gone) \cup new /\ gone \subseteq A /\ new \cap A = {}
                  /\ \A r \in A \ gone : utxos'[r] = utxos[r]
                  /\ \A r \in new : utxos'[r] = outputs[r[2]]
                <5>1. gone \subseteq A /\ new \cap A = {}
                    BY <2>1, <3>4, <3>6, <4>1 DEF Exchange, OfType
                <5>2. /\ OfType(utxos', type) = (OfType(utxos, type) \ gone) \cup NewRefs(outputs)
                      /\ \A r \in OfType(utxos, type) \ gone : utxos'[r] = utxos[r]
                      /\ \A r \in NewRefs(outputs) : utxos'[r] = outputs[r[2]]
                    BY <3>4, OwnIsKeptOrNew, SMTT(30)
                <5> QED  BY <2>1, <3>6, <4>1, <5>1, <5>2
            <4>3. J[gone] \in Nat /\ K[new] \in Nat /\ K[B] = J[A] - J[gone] + K[new]
                <5>1. \A r \in A \ gone : F[r] = G[r]
                    <6>1. \A r \in A \ gone : r \in A /\ r \in B /\ utxos'[r] = utxos[r]
                        BY <4>2
                    <6> QED  BY <2>4, <6>1
                <5>2. Exchanged(A, B, gone, new, F, G, J, K)
                    BY <2>3, <2>4, <2>5, <2>6, <4>2, <5>1 DEF Exchanged, Numbers
                <5> QED  BY <5>2, SumOfExchange, SMTT(30)
            <4>4. Numbers(F, A) /\ Numbers(G, B)
                BY <2>4 DEF Numbers
            <4>5. checker \in {"AmoebaMitosis", "AmoebaDeath"}
                BY <2>10, <3>1, <3>3, <3>4, <3>6 DEF TypeOf, Checkers
            <4>6. CASE checker = "AmoebaDeath"
                <5>1. outputs = <<>>
                    BY <3>2, <4>6 DEF Applies, Applied, OuterCheck, Death
                <5>2. new = {}
                    BY <4>1, <5>1 DEF NewRefs
                <5>3. K[new] = 0
                    BY <2>6, <5>2 DEF Adds
                <5> QED  BY <2>7, <4>3, <5>3
            <4>7. CASE checker = "AmoebaMitosis"
                <5>1. Mitosis(Data(inputs), Data(evicted), outputs)
                    BY <3>2, <4>7 DEF Applies, Applied, OuterCheck
                <5>2. Data(evicted) = <<>> /\ Len(Data(inputs)) = 1 /\ Len(outputs) = 2
                    BY <5>1 DEF Mitosis
                <5>3. PICK m, a, b : m = inputs[1] /\ a = <<txs + 1, 1>> /\ b = <<txs + 1, 2>>
                    BY Zenon
                <5>4. gone = {m} /\ Data(inputs)[1] = utxos[m] /\ m \in A
                    <6>1. gone = {m} /\ Data(inputs)[1] = utxos[m]
                        BY <3>3, <3>4, <5>2, <5>3, OneInput
                    <6> QED  BY <4>2, <6>1
                <5>5. new = {a, b} /\ a # b /\ a \in B /\ b \in B /\ a[2] = 1 /\ b[2] = 2
                    <6>1. new = {a, b}
                        BY <4>1, <5>2, <5>3 DEF NewRefs
                    <6> QED  BY <4>2, <5>3, <6>1
                <5>6. PICK g : g = utxos[m].generation
                    OBVIOUS
                <5>7. utxos'[a].generation = g + 1 /\ utxos'[b].generation = g + 1
                    <6>1. outputs[1].generation = g + 1 /\ outputs[2].generation = g + 1
                        BY <5>1, <5>4, <5>6 DEF Mitosis
                    <6> QED  BY <4>2, <5>5, <6>1
                <5>8. /\ g \in Nat /\ MaxTxs \in Nat
                      /\ MaxTxs - g \in 0 .. MaxTxs /\ MaxTxs - (g + 1) \in 0 .. MaxTxs
                    <6>1. g \in Nat
                        BY <1>1, <2>1, <5>4, <5>6 DEF PiecesInv, Decodes, OfType
                    <6>2. MaxTxs - utxos'[a].generation \in 0 .. MaxTxs
                        BY <2>2, <5>5
                    <6> QED  BY <2>2, <5>4, <5>6, <5>7, <6>1, <6>2, TemplateRuntimeAssumption
                <5>9. Worth[MaxTxs - g] = 2 * Worth[MaxTxs - (g + 1)] /\ Worth[MaxTxs - (g + 1)] \in Nat
                    <6>1. MaxTxs - g # 0 /\ (MaxTxs - g) - 1 = MaxTxs - (g + 1)
                        BY <5>8
                    <6> QED  BY <5>8, <6>1, WorthDoubles
                <5>10. /\ F[m] = Worth[MaxTxs - g]
                       /\ G[a] = Worth[MaxTxs - (g + 1)] /\ G[b] = Worth[MaxTxs - (g + 1)]
                    BY <2>4, <5>4, <5>5, <5>6, <5>7
                <5>11. J[gone] = F[m] /\ K[new] = G[a] + G[b]
                    <6>1. J[{m}] = F[m]
                        BY <2>5, <4>4, <5>4, SmallSums, SMTT(30)
                    <6>2. K[{a, b}] = G[a] + G[b]
                        BY <2>6, <4>4, <5>5, SmallSums, SMTT(30)
                    <6> QED  BY <5>4, <5>5, <6>1, <6>2
                <5>12. K[new] = J[gone]
                    <6>1. PICK half : half = Worth[MaxTxs - (g + 1)]
                        OBVIOUS
                    <6>2. J[gone] = 2 * half /\ K[new] = half + half /\ half \in Nat
                        BY <5>9, <5>10, <5>11, <6>1, Zenon
                    <6> QED  BY <6>2
                <5> QED  BY <2>7, <4>3, <5>12
            <4> QED  BY <4>5, <4>6, <4>7
        <3> QED  BY <3>5, <3>6
    <2> QED  BY <1>1, <2>5, <2>6, <2>9, <2>10 DEF Next
<1> QED  BY <1>1, PiecesInvariant, PTL DEF Spec, MassGrowsByCreation
=============================================================================
