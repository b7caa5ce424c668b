--------------------------- MODULE ParachainProofs ---------------------------
(***************************************************************************)
(* Proofs about Parachain for any number of collators, relay chain blocks  *)
(* and parachain blocks.                                                   *)
(***************************************************************************)
EXTENDS Parachain, FiniteSetTheorems, SequenceTheorems, WellFoundedInduction, TLAPS

-----------------------------------------------------------------------------
(* Induction over the numbers, stated with a set in place of the operator  *)
(* parameter of the library's theorem.                                     *)

\* A set of numbers that is not empty has a least one.
LEMMA LeastNumber ==
    ASSUME NEW T \in SUBSET Nat, T # {}
    PROVE  \E m \in T : \A k \in T : m <= k
<1>1. \E R : IsWellFoundedOn(R, Nat) /\ \A x, y \in Nat : <<x, y>> \in R <=> x < y
    <2> DEFINE R == OpToRel(<, Nat)
    <2>1. IsWellFoundedOn(R, Nat)
        BY NatLessThanWellFounded
    <2>2. \A x, y \in Nat : <<x, y>> \in R <=> x < y
        BY DEF OpToRel
    <2> HIDE DEF R
    <2> QED  BY <2>1, <2>2
<1>2. PICK R : IsWellFoundedOn(R, Nat) /\ \A x, y \in Nat : <<x, y>> \in R <=> x < y
    BY <1>1
<1>3. T \subseteq Nat /\ IsWellFoundedOn(R, Nat)
    BY <1>2
<1>4. PICK m \in T : \A y \in T : ~(<<y, m>> \in R)
    BY <1>3, WFMin, Zenon
<1>5. ASSUME NEW k \in T PROVE m <= k
    <2>1. ~(k < m) /\ k \in Nat /\ m \in Nat
        BY <1>2, <1>3, <1>4
    <2> QED  BY <2>1
<1> QED  BY <1>5

\* Induction over the numbers.
LEMMA NumbersByInduction ==
    ASSUME NEW T, 0 \in T, \A n \in Nat : n \in T => n + 1 \in T
    PROVE  Nat \subseteq T
<1> SUFFICES ASSUME NEW x \in Nat, x \notin T PROVE FALSE
    OBVIOUS
<1>1. PICK m \in Nat \ T : \A k \in Nat \ T : m <= k
    <2>1. Nat \ T \in SUBSET Nat /\ Nat \ T # {}
        OBVIOUS
    <2> QED  BY <2>1, LeastNumber
<1>2. m # 0 /\ m - 1 \in Nat
    BY <1>1
<1>3. m - 1 \in T
    BY <1>1, <1>2
<1> QED  BY <1>2, <1>3

-----------------------------------------------------------------------------
(* The recursive functions of the model have the values they say.          *)

Chooses(f, txs, kind, n) ==
    f = [i \in 0 .. n |->
            IF i = 0 THEN <<>>
            ELSE IF txs[i].kind = kind THEN Append(f[i - 1], txs[i]) ELSE f[i - 1]]

LEMMA ChoosesExist ==
    ASSUME NEW txs, NEW kind, NEW n \in Nat
    PROVE  \E f : Chooses(f, txs, kind, n)
<1> DEFINE Step(f, i) == IF i = 0 THEN <<>>
                         ELSE IF txs[i].kind = kind THEN Append(f[i - 1], txs[i]) ELSE f[i - 1]
           T == {m \in Nat : \E f : Chooses(f, txs, kind, m)}
<1>1. 0 \in T
    <2>1. PICK f : f = [i \in 0 .. 0 |-> <<>>]
        BY Zenon
    <2>2. Chooses(f, txs, kind, 0)
        BY <2>1 DEF Chooses
    <2> QED  BY <2>2
<1>2. ASSUME NEW m \in Nat, m \in T PROVE m + 1 \in T
    <2>1. PICK f : Chooses(f, txs, kind, m)
        BY <1>2
    <2>2. PICK g : g = [i \in 0 .. m + 1 |-> Step(f, i)]
        BY Zenon
    <2>3. \A i \in 0 .. m : f[i] = Step(f, i)
        <3>1. f = [i \in 0 .. m |-> Step(f, i)]
            BY <2>1, Zenon DEF Chooses
        <3> HIDE DEF Step
        <3> QED  BY <3>1
    <2>4. \A i \in 0 .. m : g[i] = f[i]
        <3> HIDE DEF Step
        <3> QED  BY <2>2, <2>3
    <2>5. ASSUME NEW i \in 0 .. m + 1 PROVE Step(g, i) = Step(f, i)
        <3>1. i = 0 \/ i - 1 \in 0 .. m
            OBVIOUS
        <3> QED  BY <2>4, <3>1
    <2>6. g = [i \in 0 .. m + 1 |-> Step(g, i)]
        <3> HIDE DEF Step
        <3> QED  BY <2>2, <2>5
    <2>7. Chooses(g, txs, kind, m + 1)
        BY <2>6, Zenon DEF Chooses
    <2> QED  BY <2>7
<1>3. Nat \subseteq T
    <2> HIDE DEF T
    <2> QED  BY <1>1, <1>2, NumbersByInduction
<1> QED  BY <1>3

Lives(f, extrinsics, live, n) ==
    f = [i \in 0 .. n |-> IF i = 0 THEN live ELSE Apply(extrinsics[i], f[i - 1])]

LEMMA LivesExist ==
    ASSUME NEW extrinsics, NEW live, NEW n \in Nat
    PROVE  \E f : Lives(f, extrinsics, live, n)
<1> DEFINE Step(f, i) == IF i = 0 THEN live ELSE Apply(extrinsics[i], f[i - 1])
           T == {m \in Nat : \E f : Lives(f, extrinsics, live, m)}
<1>1. 0 \in T
    <2>1. PICK f : f = [i \in 0 .. 0 |-> live]
        BY Zenon
    <2>2. Lives(f, extrinsics, live, 0)
        BY <2>1 DEF Lives
    <2> QED  BY <2>2
<1>2. ASSUME NEW m \in Nat, m \in T PROVE m + 1 \in T
    <2>1. PICK f : Lives(f, extrinsics, live, m)
        BY <1>2
    <2>2. PICK g : g = [i \in 0 .. m + 1 |-> Step(f, i)]
        BY Zenon
    <2>3. \A i \in 0 .. m : f[i] = Step(f, i)
        <3>1. f = [i \in 0 .. m |-> Step(f, i)]
            BY <2>1 DEF Lives
        <3> HIDE DEF Step
        <3> QED  BY <3>1
    <2>4. \A i \in 0 .. m : g[i] = f[i]
        <3> HIDE DEF Step
        <3> QED  BY <2>2, <2>3
    <2>5. ASSUME NEW i \in 0 .. m + 1 PROVE Step(g, i) = Step(f, i)
        <3>1. i = 0 \/ i - 1 \in 0 .. m
            OBVIOUS
        <3> QED  BY <2>4, <3>1
    <2>6. g = [i \in 0 .. m + 1 |-> Step(g, i)]
        <3> HIDE DEF Step
        <3> QED  BY <2>2, <2>5
    <2>7. Lives(g, extrinsics, live, m + 1)
        BY <2>6 DEF Lives
    <2> QED  BY <2>7
<1>3. Nat \subseteq T
    <2> HIDE DEF T
    <2> QED  BY <1>1, <1>2, NumbersByInduction
<1> QED  BY <1>3

\* LiveAfter applies the extrinsics one after the other.
LEMMA LiveAfterIs ==
    ASSUME NEW extrinsics, NEW live, NEW n \in Nat, Len(extrinsics) = n
    PROVE  /\ LiveAfter(extrinsics, live)[0] = live
           /\ \A i \in 1 .. n : LiveAfter(extrinsics, live)[i]
                                    = Apply(extrinsics[i], LiveAfter(extrinsics, live)[i - 1])
<1>1. PICK f : f = LiveAfter(extrinsics, live)
    BY Zenon
<1>2. f = CHOOSE g : Lives(g, extrinsics, live, n)
    BY <1>1 DEF LiveAfter, Lives
<1>3. Lives(f, extrinsics, live, n)
    BY <1>2, LivesExist
<1> DEFINE Step(i) == IF i = 0 THEN live ELSE Apply(extrinsics[i], f[i - 1])
<1>4. f = [i \in 0 .. n |-> Step(i)]
    BY <1>3 DEF Lives
<1>5. \A i \in 0 .. n : f[i] = Step(i)
    <2> HIDE DEF Step
    <2> QED  BY <1>4
<1> QED  BY <1>1, <1>5

\* r has the transactions of the kind among the first n, each of them once.
Selects(r, txs, kind, n, T) ==
    /\ r \in Seq(T)
    /\ \A m \in 1 .. Len(r) : \E i \in 1 .. n : r[m] = txs[i] /\ txs[i].kind = kind
    /\ \A i \in 1 .. n : txs[i].kind = kind => \E m \in 1 .. Len(r) : r[m] = txs[i]
    /\ Len(r) <= 1 => \A i, j \in 1 .. n : txs[i].kind = kind /\ txs[j].kind = kind => i = j

LEMMA SelectsMore ==
    ASSUME NEW T, NEW txs \in Seq(T), NEW kind, NEW n \in Nat, n + 1 \in 1 .. Len(txs),
           NEW r, Selects(r, txs, kind, n, T)
    PROVE  Selects(IF txs[n + 1].kind = kind THEN Append(r, txs[n + 1]) ELSE r, txs, kind, n + 1, T)
<1>1. r \in Seq(T) /\ txs[n + 1] \in T
    BY DEF Selects
<1>2. \A i \in 1 .. n + 1 : i \in 1 .. n \/ i = n + 1
    OBVIOUS
<1>3. \A i \in 1 .. n : i \in 1 .. n + 1
    OBVIOUS
<1>4. CASE txs[n + 1].kind # kind
    BY <1>2, <1>3, <1>4 DEF Selects
<1>5. CASE txs[n + 1].kind = kind
    <2>1. PICK s : s = Append(r, txs[n + 1])
        BY Zenon
    <2>2. /\ s \in Seq(T) /\ Len(s) = Len(r) + 1 /\ s[Len(r) + 1] = txs[n + 1]
          /\ \A m \in 1 .. Len(r) : s[m] = r[m]
        BY <1>1, <2>1
    <2>3. \A m \in 1 .. Len(s) : m \in 1 .. Len(r) \/ m = Len(r) + 1
        BY <1>1, <2>2
    <2>4. \A m \in 1 .. Len(s) : \E i \in 1 .. n + 1 : s[m] = txs[i] /\ txs[i].kind = kind
        <3> TAKE m \in 1 .. Len(s)
        <3>1. CASE m \in 1 .. Len(r)
            <4>1. PICK i \in 1 .. n : r[m] = txs[i] /\ txs[i].kind = kind
                BY <3>1 DEF Selects
            <4> QED  BY <1>3, <2>2, <3>1, <4>1
        <3>2. CASE m = Len(r) + 1
            BY <1>5, <2>2, <3>2
        <3> QED  BY <2>3, <3>1, <3>2
    <2>5. ASSUME NEW i \in 1 .. n + 1, txs[i].kind = kind PROVE \E m \in 1 .. Len(s) : s[m] = txs[i]
        <3>1. CASE i = n + 1
            BY <1>1, <2>2, <3>1
        <3>2. CASE i \in 1 .. n
            <4>1. PICK m \in 1 .. Len(r) : r[m] = txs[i]
                BY <2>5, <3>2 DEF Selects
            <4>2. m \in 1 .. Len(s) /\ s[m] = txs[i]
                BY <1>1, <2>2, <4>1
            <4> QED  BY <4>2
        <3> QED  BY <1>2, <3>1, <3>2
    <2>6. ASSUME Len(s) <= 1, NEW i \in 1 .. n, txs[i].kind = kind PROVE FALSE
        <3>1. Len(r) = 0
            BY <1>1, <2>2, <2>6
        <3> QED  BY <2>6, <3>1 DEF Selects
    <2>7. Selects(s, txs, kind, n + 1, T)
        BY <1>2, <2>2, <2>4, <2>5, <2>6 DEF Selects
    <2> QED  BY <1>5, <2>1, <2>7
<1> QED  BY <1>4, <1>5

\* What OfKind selects.
LEMMA OfKindIs ==
    ASSUME NEW T, NEW txs \in Seq(T), NEW kind
    PROVE  Selects(OfKind(txs, kind), txs, kind, Len(txs), T)
<1>1. PICK n \in Nat : n = Len(txs)
    OBVIOUS
<1>2. PICK f : f = CHOOSE g : Chooses(g, txs, kind, n)
    BY Zenon
<1>3. Chooses(f, txs, kind, n)
    BY <1>2, ChoosesExist
<1>4. OfKind(txs, kind) = f[n]
    BY <1>1, <1>2 DEF OfKind, Chooses
<1> DEFINE Step(i) == IF i = 0 THEN <<>>
                      ELSE IF txs[i].kind = kind THEN Append(f[i - 1], txs[i]) ELSE f[i - 1]
<1>5. \A i \in 0 .. n : f[i] = Step(i)
    <2>1. f = [i \in 0 .. n |-> Step(i)]
        BY <1>3, Zenon DEF Chooses
    <2> HIDE DEF Step
    <2> QED  BY <2>1
<1> DEFINE U == {m \in Nat : m <= n => Selects(f[m], txs, kind, m, T)}
<1>6. 0 \in U
    <2>1. f[0] = <<>>
        BY <1>5
    <2>2. Selects(<<>>, txs, kind, 0, T)
        BY DEF Selects
    <2> QED  BY <2>1, <2>2
<1>7. ASSUME NEW m \in Nat, m \in U PROVE m + 1 \in U
    <2> SUFFICES ASSUME m + 1 <= n PROVE Selects(f[m + 1], txs, kind, m + 1, T)
        OBVIOUS
    <2>1. Selects(f[m], txs, kind, m, T)
        BY <1>7
    <2>2. f[m + 1] = IF txs[m + 1].kind = kind THEN Append(f[m], txs[m + 1]) ELSE f[m]
        BY <1>5
    <2>3. m + 1 \in 1 .. Len(txs)
        BY <1>1
    <2> QED  BY <2>1, <2>2, <2>3, SelectsMore
<1>8. Nat \subseteq U
    <2> HIDE DEF U
    <2> QED  BY <1>6, <1>7, NumbersByInduction
<1>9. Selects(f[n], txs, kind, n, T)
    BY <1>8
<1> QED  BY <1>1, <1>4, <1>9

Stores(f, extrinsics, stored, n) ==
    f = [i \in 0 .. n |-> IF i = 0 THEN stored ELSE StoreNumber(extrinsics[i], f[i - 1])]

LEMMA StoresExist ==
    ASSUME NEW extrinsics, NEW stored, NEW n \in Nat
    PROVE  \E f : Stores(f, extrinsics, stored, n)
<1> DEFINE Step(f, i) == IF i = 0 THEN stored ELSE StoreNumber(extrinsics[i], f[i - 1])
           T == {m \in Nat : \E f : Stores(f, extrinsics, stored, m)}
<1>1. 0 \in T
    <2>1. PICK f : f = [i \in 0 .. 0 |-> stored]
        BY Zenon
    <2>2. Stores(f, extrinsics, stored, 0)
        BY <2>1 DEF Stores
    <2> QED  BY <2>2
<1>2. ASSUME NEW m \in Nat, m \in T PROVE m + 1 \in T
    <2>1. PICK f : Stores(f, extrinsics, stored, m)
        BY <1>2
    <2>2. PICK g : g = [i \in 0 .. m + 1 |-> Step(f, i)]
        BY Zenon
    <2>3. \A i \in 0 .. m : f[i] = Step(f, i)
        <3>1. f = [i \in 0 .. m |-> Step(f, i)]
            BY <2>1 DEF Stores
        <3> HIDE DEF Step
        <3> QED  BY <3>1
    <2>4. \A i \in 0 .. m : g[i] = f[i]
        <3> HIDE DEF Step
        <3> QED  BY <2>2, <2>3
    <2>5. ASSUME NEW i \in 0 .. m + 1 PROVE Step(g, i) = Step(f, i)
        <3>1. i = 0 \/ i - 1 \in 0 .. m
            OBVIOUS
        <3> QED  BY <2>4, <3>1
    <2>6. g = [i \in 0 .. m + 1 |-> Step(g, i)]
        <3> HIDE DEF Step
        <3> QED  BY <2>2, <2>5
    <2>7. Stores(g, extrinsics, stored, m + 1)
        BY <2>6 DEF Stores
    <2> QED  BY <2>7
<1>3. Nat \subseteq T
    <2> HIDE DEF T
    <2> QED  BY <1>1, <1>2, NumbersByInduction
<1> QED  BY <1>3

\* The numbers that the extrinsics store in turn.
StoresInTurn(f, extrinsics, stored, n) ==
    f[0] = stored /\ \A i \in 1 .. n : f[i] = StoreNumber(extrinsics[i], f[i - 1])

LEMMA StoredAfterIs ==
    ASSUME NEW extrinsics, NEW stored, NEW n \in Nat, Len(extrinsics) = n
    PROVE  \E f : StoresInTurn(f, extrinsics, stored, n) /\ f[n] = StoredAfter(extrinsics, stored)
<1>1. PICK f : f = CHOOSE g : Stores(g, extrinsics, stored, n)
    BY Zenon
<1>2. StoredAfter(extrinsics, stored) = f[n]
    BY <1>1 DEF StoredAfter, Stores
<1>3. Stores(f, extrinsics, stored, n)
    BY <1>1, StoresExist
<1> DEFINE Step(i) == IF i = 0 THEN stored ELSE StoreNumber(extrinsics[i], f[i - 1])
<1>4. f = [i \in 0 .. n |-> Step(i)]
    BY <1>3 DEF Stores
<1>5. \A i \in 0 .. n : f[i] = Step(i)
    <2> HIDE DEF Step
    <2> QED  BY <1>4
<1>6. StoresInTurn(f, extrinsics, stored, n)
    BY <1>5 DEF StoresInTurn
<1> QED  BY <1>2, <1>6

-----------------------------------------------------------------------------
(* Extrinsics one after the other.                                         *)

Listed(s) == \E T : s \in Seq(T)

(* What is appended does not change what was live before it.               *)
LEMMA LiveBefore ==
    ASSUME NEW extrinsics, Listed(extrinsics), NEW x, NEW live
    PROVE  \A i \in 0 .. Len(extrinsics) :
               LiveAfter(Append(extrinsics, x), live)[i] = LiveAfter(extrinsics, live)[i]
<1>1. PICK n \in Nat : n = Len(extrinsics)
    BY DEF Listed
<1>2. PICK more : more = Append(extrinsics, x)
    BY Zenon
<1>3. Len(more) = n + 1 /\ \A i \in 1 .. n : more[i] = extrinsics[i]
    BY <1>1, <1>2 DEF Listed
<1>4. PICK f, g : f = LiveAfter(extrinsics, live) /\ g = LiveAfter(more, live)
    BY Zenon
<1>5. f[0] = live /\ \A i \in 1 .. n : f[i] = Apply(extrinsics[i], f[i - 1])
    BY <1>1, <1>4, LiveAfterIs
<1>6. g[0] = live /\ \A i \in 1 .. n + 1 : g[i] = Apply(more[i], g[i - 1])
    BY <1>3, <1>4, LiveAfterIs
<1> DEFINE U == {m \in Nat : m <= n => g[m] = f[m]}
<1>7. 0 \in U
    BY <1>5, <1>6
<1>8. ASSUME NEW m \in Nat, m \in U PROVE m + 1 \in U
    <2> SUFFICES ASSUME m + 1 <= n PROVE g[m + 1] = f[m + 1]
        OBVIOUS
    <2>1. g[m] = f[m] /\ m + 1 \in 1 .. n /\ m + 1 \in 1 .. n + 1 /\ (m + 1) - 1 = m
        BY <1>8
    <2>2. g[m + 1] = Apply(more[m + 1], g[m]) /\ f[m + 1] = Apply(extrinsics[m + 1], f[m])
        BY <1>5, <1>6, <2>1
    <2> QED  BY <1>3, <2>1, <2>2
<1>9. Nat \subseteq U
    <2> HIDE DEF U
    <2> QED  BY <1>7, <1>8, NumbersByInduction
<1>10. \A i \in 0 .. n : g[i] = f[i]
    BY <1>9
<1> QED  BY <1>1, <1>2, <1>4, <1>10

(* Extrinsics that execute can be followed by one that is valid after them. *)
LEMMA ExecutesMore ==
    ASSUME NEW extrinsics, Listed(extrinsics), NEW x, NEW live, NEW height,
           Executes(extrinsics, live, height),
           Valid(x, LiveAfter(extrinsics, live)[Len(extrinsics)], height)
    PROVE  Listed(Append(extrinsics, x)) /\ Executes(Append(extrinsics, x), live, height)
<1>1. PICK n \in Nat : n = Len(extrinsics)
    BY DEF Listed
<1>2. PICK more : more = Append(extrinsics, x)
    BY Zenon
<1>3. /\ Listed(more) /\ Len(more) = n + 1 /\ more[n + 1] = x
      /\ \A i \in 1 .. n : more[i] = extrinsics[i]
    <2>1. PICK T : extrinsics \in Seq(T)
        BY DEF Listed
    <2>2. extrinsics \in Seq(T \cup {x})
        BY <2>1
    <2>3. more \in Seq(T \cup {x})
        BY <1>2, <2>2
    <2> QED  BY <1>1, <1>2, <2>2, <2>3 DEF Listed
<1>4. \A i \in 0 .. n : LiveAfter(more, live)[i] = LiveAfter(extrinsics, live)[i]
    BY <1>1, <1>2, LiveBefore
<1>5. ASSUME NEW i \in 1 .. n + 1 PROVE Valid(more[i], LiveAfter(more, live)[i - 1], height)
    <2>1. LiveAfter(more, live)[i - 1] = LiveAfter(extrinsics, live)[i - 1]
        BY <1>4
    <2>2. CASE i \in 1 .. n
        BY <1>1, <1>3, <2>1, <2>2 DEF Executes
    <2>3. CASE i = n + 1
        <3>1. i - 1 = n
            BY <2>3
        <3> QED  BY <1>1, <1>3, <2>1, <2>3, <3>1
    <2> QED  BY <2>2, <2>3
<1> QED  BY <1>2, <1>3, <1>5 DEF Executes

Pushes(f, created, live, height, n) ==
    f = [i \in 0 .. n |->
            IF i = 0 THEN <<>>
            ELSE IF Valid(created[i], LiveAfter(f[i - 1], live)[Len(f[i - 1])], height)
                 THEN Append(f[i - 1], created[i]) ELSE f[i - 1]]

LEMMA PushesExist ==
    ASSUME NEW created, NEW live, NEW height, NEW n \in Nat
    PROVE  \E f : Pushes(f, created, live, height, n)
<1> DEFINE Step(f, i) == IF i = 0 THEN <<>>
                         ELSE IF Valid(created[i], LiveAfter(f[i - 1], live)[Len(f[i - 1])], height)
                              THEN Append(f[i - 1], created[i]) ELSE f[i - 1]
           T == {m \in Nat : \E f : Pushes(f, created, live, height, m)}
<1>1. 0 \in T
    <2>1. PICK f : f = [i \in 0 .. 0 |-> <<>>]
        BY Zenon
    <2>2. Pushes(f, created, live, height, 0)
        BY <2>1 DEF Pushes
    <2> QED  BY <2>2
<1>2. ASSUME NEW m \in Nat, m \in T PROVE m + 1 \in T
    <2>1. PICK f : Pushes(f, created, live, height, m)
        BY <1>2
    <2>2. PICK g : g = [i \in 0 .. m + 1 |-> Step(f, i)]
        BY Zenon
    <2>3. \A i \in 0 .. m : f[i] = Step(f, i)
        <3>1. f = [i \in 0 .. m |-> Step(f, i)]
            BY <2>1, Zenon DEF Pushes
        <3> HIDE DEF Step
        <3> QED  BY <3>1
    <2>4. \A i \in 0 .. m : g[i] = f[i]
        <3> HIDE DEF Step
        <3> QED  BY <2>2, <2>3
    <2>5. ASSUME NEW i \in 0 .. m + 1 PROVE Step(g, i) = Step(f, i)
        <3>1. i = 0 \/ i - 1 \in 0 .. m
            OBVIOUS
        <3>2. CASE i = 0
            BY <3>2
        <3>3. CASE g[i - 1] = f[i - 1]
            BY <3>3, Zenon
        <3> QED  BY <2>4, <3>1, <3>2, <3>3
    <2>6. g = [i \in 0 .. m + 1 |-> Step(g, i)]
        <3> HIDE DEF Step
        <3> QED  BY <2>2, <2>5
    <2>7. Pushes(g, created, live, height, m + 1)
        BY <2>6, Zenon DEF Pushes
    <2> QED  BY <2>7
<1>3. Nat \subseteq T
    <2> HIDE DEF T
    <2> QED  BY <1>1, <1>2, NumbersByInduction
<1> QED  BY <1>3

\* The sequences that the proposer has after each of the inherents.
Grows(f, created, live, height, n) ==
    /\ f[0] = <<>>
    /\ \A i \in 1 .. n :
           f[i] = IF Valid(created[i], LiveAfter(f[i - 1], live)[Len(f[i - 1])], height)
                  THEN Append(f[i - 1], created[i]) ELSE f[i - 1]

LEMMA PushIs ==
    ASSUME NEW created, NEW live, NEW height, NEW n \in Nat, Len(created) = n
    PROVE  \E f : Grows(f, created, live, height, n) /\ f[n] = Push(created, live, height)
<1>1. PICK f : f = CHOOSE g : Pushes(g, created, live, height, n)
    BY Zenon
<1>2. Push(created, live, height) = f[n]
    BY <1>1 DEF Push, Pushes
<1>3. Pushes(f, created, live, height, n)
    BY <1>1, PushesExist
<1> DEFINE More(i) == IF Valid(created[i], LiveAfter(f[i - 1], live)[Len(f[i - 1])], height)
                      THEN Append(f[i - 1], created[i]) ELSE f[i - 1]
           Step(i) == IF i = 0 THEN <<>> ELSE More(i)
<1>4. f = [i \in 0 .. n |-> Step(i)]
    BY <1>3, Zenon DEF Pushes
<1>5. \A i \in 0 .. n : f[i] = Step(i)
    <2> HIDE DEF Step
    <2> QED  BY <1>4
<1>6. Grows(f, created, live, height, n)
    <2>1. f[0] = <<>> /\ \A i \in 1 .. n : f[i] = More(i)
        <3> HIDE DEF More
        <3> QED  BY <1>5
    <2> QED  BY <2>1, Zenon DEF Grows
<1> QED  BY <1>2, <1>6

LEMMA GrowsBy ==
    ASSUME NEW f, NEW created, NEW live, NEW height, NEW n \in Nat,
           Grows(f, created, live, height, n)
    PROVE  \A m \in 0 .. n - 1 :
               f[m + 1] = IF Valid(created[m + 1], LiveAfter(f[m], live)[Len(f[m])], height)
                          THEN Append(f[m], created[m + 1]) ELSE f[m]
<1> TAKE m \in 0 .. n - 1
<1>1. PICK before, x : before = f[m] /\ x = created[m + 1]
    BY Zenon
<1>2. m + 1 \in 1 .. n /\ (m + 1) - 1 = m
    OBVIOUS
<1>3. f[m + 1] = IF Valid(x, LiveAfter(before, live)[Len(before)], height)
                 THEN Append(before, x) ELSE before
    BY <1>1, <1>2 DEF Grows
<1> QED  BY <1>1, <1>3, Zenon

(* What the proposer has pushed executes.                                  *)
LEMMA PushExecutes ==
    ASSUME NEW T, NEW created \in Seq(T), NEW live, NEW height
    PROVE  LET body == Push(created, live, height)
           IN  /\ Listed(body) /\ Executes(body, live, height)
               /\ \A i \in 1 .. Len(body) : \E j \in 1 .. Len(created) : body[i] = created[j]
<1>1. PICK n \in Nat : n = Len(created)
    OBVIOUS
<1>2. PICK f : Grows(f, created, live, height, n) /\ f[n] = Push(created, live, height)
    BY <1>1, PushIs
<1> DEFINE Good(body) == /\ Listed(body) /\ Executes(body, live, height)
                         /\ \A i \in 1 .. Len(body) : \E j \in 1 .. n : body[i] = created[j]
           U == {m \in Nat : m <= n => Good(f[m])}
<1>3. 0 \in U
    <2>1. Listed(<<>>) /\ Len(<<>>) = 0
        BY DEF Listed
    <2>2. Good(<<>>)
        BY <2>1 DEF Executes
    <2> HIDE DEF Good
    <2> QED  BY <1>2, <2>2 DEF Grows
<1>4. ASSUME NEW m \in Nat, m \in U PROVE m + 1 \in U
    <2> SUFFICES ASSUME m + 1 <= n PROVE Good(f[m + 1])
        OBVIOUS
    <2>1. Good(f[m]) /\ m + 1 \in 1 .. n /\ (m + 1) - 1 = m
        <3> HIDE DEF Good
        <3> QED  BY <1>4
    <2>2. PICK before, x : before = f[m] /\ x = created[m + 1]
        BY Zenon
    <2>3. f[m + 1] = IF Valid(x, LiveAfter(before, live)[Len(before)], height)
                     THEN Append(before, x) ELSE before
        <3> HIDE DEF Good
        <3> QED  BY <1>2, <2>1, <2>2 DEF Grows
    <2>4. CASE Valid(x, LiveAfter(before, live)[Len(before)], height)
        <3>1. PICK more : more = Append(before, x)
            BY Zenon
        <3>2. Listed(more) /\ Executes(more, live, height)
            BY <2>1, <2>2, <2>4, <3>1, ExecutesMore
        <3>3. /\ Len(before) \in Nat /\ Len(more) = Len(before) + 1 /\ more[Len(before) + 1] = x
              /\ \A i \in 1 .. Len(before) : more[i] = before[i]
            BY <2>1, <2>2, <3>1 DEF Listed
        <3>4. ASSUME NEW i \in 1 .. Len(more) PROVE \E j \in 1 .. n : more[i] = created[j]
            <4>1. i \in 1 .. Len(before) \/ i = Len(before) + 1
                BY <3>3
            <4> QED  BY <2>1, <2>2, <3>3, <4>1
        <3>5. Good(more)
            BY <3>2, <3>4
        <3> HIDE DEF Good
        <3> QED  BY <2>3, <2>4, <3>1, <3>5
    <2>5. CASE ~Valid(x, LiveAfter(before, live)[Len(before)], height)
        <3> HIDE DEF Good
        <3> QED  BY <2>1, <2>2, <2>3, <2>5
    <2> QED  BY <2>4, <2>5
<1>5. Nat \subseteq U
    <2> HIDE DEF U
    <2> QED  BY <1>3, <1>4, NumbersByInduction
<1>6. Good(f[n])
    <2> HIDE DEF Good
    <2> QED  BY <1>5
<1> QED  BY <1>1, <1>2, <1>6

\* A block other than genesis is a block.
LEMMA FromTwo ==
    ASSUME NEW n, NEW b \in 2 .. n PROVE b \in 1 .. n
OBVIOUS

-----------------------------------------------------------------------------
(* The inductive invariant.                                                *)

Number(tx) == Deref(tx).relay_parent_number

\* What an inherent looks like before it is validated.
Shaped(tx) ==
    \/ tx.kind = "SetTimestamp"
    \/ tx.kind = "ParachainInfo" /\ Number(tx) \in 0 .. MaxRelay + 1

\* One parachain info is live, and the number in storage is not above its number.
LiveOK(live, stored) ==
    /\ stored \in NotStored .. MaxRelay + 1
    /\ \A tx \in live : Len(tx.outputs) = 1
    /\ \E info \in live :
           /\ is_parachain(info) /\ Number(info) \in 0 .. MaxRelay + 1 /\ stored <= Number(info)
           /\ \A tx \in live : is_parachain(tx) => tx = info

HasInfo(extrinsics) == \E i \in 1 .. Len(extrinsics) : is_parachain(extrinsics[i])

OneInfo(extrinsics) ==
    \A i, j \in 1 .. Len(extrinsics) :
        is_parachain(extrinsics[i]) /\ is_parachain(extrinsics[j]) => i = j

\* What extrinsics that execute do to the number in storage.
Raises(extrinsics, before, after) ==
    /\ after >= before
    /\ HasInfo(extrinsics) => after > before
    /\ OneInfo(extrinsics) =>
           \A i \in 1 .. Len(extrinsics) :
               is_parachain(extrinsics[i]) => after = Number(extrinsics[i])

BlockOK(B) ==
    /\ Listed(B.extrinsics)
    /\ \A i \in 1 .. Len(B.extrinsics) : Shaped(B.extrinsics[i])
    /\ LiveOK(B.live, B.stored)
    /\ OneInfo(B.extrinsics) =>
           \A i \in 1 .. Len(B.extrinsics) :
               is_parachain(B.extrinsics[i]) => B.extrinsics[i] \in B.live

Follows(B, P) ==
    B.stored = StoredAfter(B.extrinsics, P.stored) /\ Raises(B.extrinsics, P.stored, B.stored)

ChainInv ==
    /\ Listed(blocks) /\ Len(blocks) >= 1
    /\ blocks[1].parent = 0 /\ blocks[1].extrinsics = <<genesis_transaction, GenesisInfo>>
    /\ \A b \in 1 .. Len(blocks) : BlockOK(blocks[b])
    /\ \A b \in 2 .. Len(blocks) :
           blocks[b].parent \in 1 .. b - 1 /\ Follows(blocks[b], blocks[blocks[b].parent])

\* What validate_block finds out about block B on top of P.
Validated(B, P, head, number) ==
    /\ B.parent = head
    /\ OfKind(B.extrinsics, "ParachainInfo") # <<>>
    /\ FoundData(B) = ParachainInherentData(number, head)
    /\ Executes(B.extrinsics, P.live, B.number)

Backed(B, number) ==
    /\ OfKind(B.extrinsics, "ParachainInfo") # <<>>
    /\ FoundData(B).relay_parent_number = number

CandidatesInv ==
    /\ \A c \in candidates :
           /\ c.block \in 2 .. Len(blocks) /\ c.relay_parent \in 1 .. relay
           /\ c.watermark = blocks[c.block].stored
           /\ c.block \notin other =>
                  Validated(blocks[c.block], blocks[blocks[c.block].parent],
                            heads[c.relay_parent], c.relay_parent)
    /\ backed \subseteq candidates
    /\ \A c \in backed : Backed(blocks[c.block], c.relay_parent)

\* A block becomes head after the relay parent of its candidate.
RelayInv ==
    /\ Listed(heads) /\ relay \in 1 .. MaxRelay
    /\ \A r \in 1 .. relay :
           heads[r] = 1 \/ \E c \in backed : heads[r] = c.block /\ c.relay_parent < r

CollatorsInv ==
    /\ known \in [Collator -> SUBSET (1 .. Len(blocks))]
    /\ collated \in [Collator -> 0 .. MaxRelay]
    /\ other \subseteq 1 .. Len(blocks)

ParachainInv == ChainInv /\ CandidatesInv /\ RelayInv /\ CollatorsInv

-----------------------------------------------------------------------------
(* A block of valid extrinsics on top of a block in order.                 *)

LEMMA ApplyKeeps ==
    ASSUME NEW live, NEW stored, LiveOK(live, stored),
           NEW tx, Shaped(tx), NEW height, Valid(tx, live, height)
    PROVE  /\ LiveOK(Apply(tx, live), StoreNumber(tx, stored))
           /\ StoreNumber(tx, stored) >= stored
           /\ is_parachain(tx) => StoreNumber(tx, stored) > stored
           /\ is_parachain(tx) => StoreNumber(tx, stored) = Number(tx)
           /\ tx \in Apply(tx, live)
           /\ \A t \in live : ~is_parachain(tx) => t \in Apply(tx, live)
<1>1. PICK info \in live :
          /\ is_parachain(info) /\ Number(info) \in 0 .. MaxRelay + 1 /\ stored <= Number(info)
          /\ \A t \in live : is_parachain(t) => t = info
    BY DEF LiveOK
<1>2. MaxRelay \in Nat /\ stored \in Int
    BY ParachainAssumption DEF LiveOK, NotStored
<1>3. CASE is_parachain(tx)
    <2>1. SetParachainInfoCheck(tx) /\ \A ref \in tx.evicted : ref \in live /\ ref.kind = tx.kind
        BY <1>3, Zenon DEF Valid
    <2>2. \A ref \in tx.evicted : ref = info
        BY <1>1, <1>3, <2>1 DEF is_parachain
    <2>3. tx.evicted # {}
        <3>1. Cardinality({}) = 0
            BY FS_EmptySet
        <3> QED  BY <2>1, <3>1 DEF SetParachainInfoCheck
    <2>4. tx.evicted = {info}
        BY <2>2, <2>3
    <2>5. Len(tx.outputs) = 1 /\ Number(tx) > Number(info)
        BY <2>1, <2>4 DEF SetParachainInfoCheck, Number, Deref
    <2>6. Apply(tx, live) = (live \ {info}) \cup {tx}
        BY <2>4, <2>5 DEF Apply
    <2>7. StoreNumber(tx, stored) = Number(tx)
        BY <1>3 DEF StoreNumber, Number, Deref
    <2>8. Number(tx) \in 0 .. MaxRelay + 1
        BY <1>3 DEF Shaped, is_parachain
    <2>9. Number(tx) > stored /\ Number(tx) >= stored /\ Number(tx) \in NotStored .. MaxRelay + 1
        BY <1>1, <1>2, <2>5, <2>8 DEF NotStored
    <2>10. \A t \in Apply(tx, live) : Len(t.outputs) = 1
        BY <2>5, <2>6 DEF LiveOK
    <2>11. tx \in Apply(tx, live) /\ \A t \in Apply(tx, live) : is_parachain(t) => t = tx
        BY <1>1, <2>6
    <2>12. Number(tx) <= Number(tx)
        BY <2>8
    <2>13. LiveOK(Apply(tx, live), Number(tx))
        BY <1>3, <2>8, <2>9, <2>10, <2>11, <2>12 DEF LiveOK
    <2> QED  BY <1>3, <2>7, <2>9, <2>11, <2>13
<1>4. CASE ~is_parachain(tx)
    <2>1. SetTimestampCheck(tx, height)
        BY <1>4, Zenon DEF Valid
    <2>2. tx.evicted = {} /\ Len(tx.outputs) = 1
        BY <2>1 DEF SetTimestampCheck
    <2>3. Apply(tx, live) = live \cup {tx}
        BY <2>2 DEF Apply
    <2>4. StoreNumber(tx, stored) = stored
        BY <1>4 DEF StoreNumber
    <2>5. \A t \in Apply(tx, live) : Len(t.outputs) = 1
        BY <2>2, <2>3 DEF LiveOK
    <2>6. info \in Apply(tx, live) /\ \A t \in Apply(tx, live) : is_parachain(t) => t = info
        BY <1>1, <1>4, <2>3
    <2>7. LiveOK(Apply(tx, live), stored)
        BY <1>1, <2>5, <2>6 DEF LiveOK
    <2>8. stored >= stored
        BY <1>2
    <2> QED  BY <1>4, <2>3, <2>4, <2>7, <2>8
<1> QED  BY <1>3, <1>4

\* What the first m extrinsics leave behind.
Done(extrinsics, m, live, stored, now_live, now_stored) ==
    /\ LiveOK(now_live, now_stored)
    /\ now_stored >= stored
    /\ \A i \in 1 .. m : is_parachain(extrinsics[i]) =>
           /\ now_stored > stored
           /\ (\A j \in 1 .. m : is_parachain(extrinsics[j]) => i = j)
                  => now_stored = Number(extrinsics[i]) /\ extrinsics[i] \in now_live

LEMMA DoneMore ==
    ASSUME NEW extrinsics, NEW m \in Nat, NEW live, NEW stored \in Int, NEW l, NEW s,
           Done(extrinsics, m, live, stored, l, s),
           NEW tx, tx = extrinsics[m + 1], Shaped(tx), NEW height, Valid(tx, l, height)
    PROVE  Done(extrinsics, m + 1, live, stored, Apply(tx, l), StoreNumber(tx, s))
<1>1. PICK l2, s2 : l2 = Apply(tx, l) /\ s2 = StoreNumber(tx, s)
    BY Zenon
<1>2. LiveOK(l, s) /\ s >= stored
    BY DEF Done
<1>3. /\ LiveOK(l2, s2) /\ s2 >= s /\ tx \in l2
      /\ is_parachain(tx) => s2 > s /\ s2 = Number(tx)
      /\ \A t \in l : ~is_parachain(tx) => t \in l2
    BY <1>1, <1>2, ApplyKeeps
<1>4. s \in Int /\ s2 \in Int
    BY <1>2, <1>3, ParachainAssumption DEF LiveOK, NotStored
<1>5. s2 >= stored /\ (is_parachain(tx) => s2 > stored)
    BY <1>2, <1>3, <1>4
<1>6. ASSUME NEW i \in 1 .. m + 1, is_parachain(extrinsics[i])
      PROVE  /\ s2 > stored
             /\ (\A j \in 1 .. m + 1 : is_parachain(extrinsics[j]) => i = j)
                    => s2 = Number(extrinsics[i]) /\ extrinsics[i] \in l2
    <2>1. CASE i = m + 1
        BY <1>3, <1>5, <1>6, <2>1
    <2>2. CASE i \in 1 .. m
        <3>1. s > stored
            BY <1>6, <2>2 DEF Done
        <3>2. s2 > stored
            BY <1>3, <1>4, <3>1
        <3>3. ASSUME \A j \in 1 .. m + 1 : is_parachain(extrinsics[j]) => i = j
              PROVE  s2 = Number(extrinsics[i]) /\ extrinsics[i] \in l2
            <4>1. ~is_parachain(tx)
                BY <2>2, <3>3
            <4>2. s2 = s
                BY <1>1, <4>1 DEF StoreNumber
            <4>3. s = Number(extrinsics[i]) /\ extrinsics[i] \in l
                <5>1. \A j \in 1 .. m : j \in 1 .. m + 1
                    OBVIOUS
                <5> QED  BY <1>6, <2>2, <3>3, <5>1 DEF Done
            <4> QED  BY <1>3, <4>1, <4>2, <4>3
        <3> QED  BY <3>2, <3>3
    <2> QED  BY <2>1, <2>2
<1> QED  BY <1>1, <1>3, <1>5, <1>6 DEF Done

\* Extrinsics that execute keep one info live and never lower the number in
\* storage; with an info among them they raise it.
LEMMA BlockStores ==
    ASSUME NEW extrinsics, Listed(extrinsics),
           \A i \in 1 .. Len(extrinsics) : Shaped(extrinsics[i]),
           NEW live, NEW stored, LiveOK(live, stored),
           NEW height, Executes(extrinsics, live, height)
    PROVE  Done(extrinsics, Len(extrinsics), live, stored,
                LiveAfter(extrinsics, live)[Len(extrinsics)], StoredAfter(extrinsics, stored))
<1>1. PICK n \in Nat : n = Len(extrinsics)
    BY DEF Listed
<1>2. PICK f : f = LiveAfter(extrinsics, live)
    BY Zenon
<1>3. f[0] = live /\ \A i \in 1 .. n : f[i] = Apply(extrinsics[i], f[i - 1])
    BY <1>1, <1>2, LiveAfterIs
<1>4. PICK g : StoresInTurn(g, extrinsics, stored, n) /\ g[n] = StoredAfter(extrinsics, stored)
    BY <1>1, StoredAfterIs
<1>5. stored \in Int /\ stored >= stored
    BY ParachainAssumption DEF LiveOK, NotStored
<1> DEFINE U == {m \in Nat : m <= n => Done(extrinsics, m, live, stored, f[m], g[m])}
<1>6. 0 \in U
    BY <1>3, <1>4, <1>5 DEF Done, StoresInTurn
<1>7. ASSUME NEW m \in Nat, m \in U PROVE m + 1 \in U
    <2> SUFFICES ASSUME m + 1 <= n
                 PROVE  Done(extrinsics, m + 1, live, stored, f[m + 1], g[m + 1])
        OBVIOUS
    <2>1. Done(extrinsics, m, live, stored, f[m], g[m]) /\ m + 1 \in 1 .. n /\ (m + 1) - 1 = m
        BY <1>7
    <2>2. PICK tx : tx = extrinsics[m + 1]
        BY Zenon
    <2>3. Shaped(tx) /\ Valid(tx, f[m], height)
        BY <1>1, <1>2, <2>1, <2>2 DEF Executes
    <2>4. f[m + 1] = Apply(tx, f[m]) /\ g[m + 1] = StoreNumber(tx, g[m])
        BY <1>3, <1>4, <2>1, <2>2 DEF StoresInTurn
    <2> QED  BY <1>5, <2>1, <2>2, <2>3, <2>4, DoneMore
<1>8. Nat \subseteq U
    <2> HIDE DEF U
    <2> QED  BY <1>6, <1>7, NumbersByInduction
<1>9. Done(extrinsics, n, live, stored, f[n], g[n])
    BY <1>8
<1> QED  BY <1>1, <1>2, <1>4, <1>9

BodyOK(body, live, height) ==
    /\ Listed(body) /\ Executes(body, live, height)
    /\ \A i \in 1 .. Len(body) : Shaped(body[i])

LEMMA ChainGrows ==
    ASSUME ChainInv, NEW p \in 1 .. Len(blocks), NEW body,
           BodyOK(body, blocks[p].live, blocks[p].number + 1),
           blocks' = Append(blocks, NewBlock(p, body))
    PROVE  /\ ChainInv' /\ Len(blocks) \in Nat /\ Len(blocks') = Len(blocks) + 1
           /\ blocks'[Len(blocks) + 1] = NewBlock(p, body)
           /\ \A b \in 1 .. Len(blocks) : blocks'[b] = blocks[b]
<1>1. PICK B : B = NewBlock(p, body)
    BY Zenon
<1>2. /\ B.parent = p /\ B.extrinsics = body
      /\ B.live = LiveAfter(body, blocks[p].live)[Len(body)]
      /\ B.stored = StoredAfter(body, blocks[p].stored)
    BY <1>1 DEF NewBlock
<1>3. LiveOK(blocks[p].live, blocks[p].stored)
    BY DEF ChainInv, BlockOK
<1>4. BlockOK(B) /\ Follows(B, blocks[p])
    <2>1. Done(body, Len(body), blocks[p].live, blocks[p].stored, B.live, B.stored)
        BY <1>2, <1>3, BlockStores DEF BodyOK
    <2>2. BlockOK(B)
        BY <1>2, <2>1 DEF BlockOK, BodyOK, Done, OneInfo
    <2>3. Raises(body, blocks[p].stored, B.stored)
        BY <2>1 DEF Raises, Done, HasInfo, OneInfo
    <2> QED  BY <1>2, <2>2, <2>3 DEF Follows
<1>5. PICK T : blocks \in Seq(T)
    BY DEF ChainInv, Listed
<1>6. PICK n \in Nat : n = Len(blocks)
    BY <1>5
<1>7. PICK U : U = T \cup {B}
    BY Zenon
<1>8. blocks \in Seq(U) /\ B \in U
    BY <1>5, <1>7
<1>9. /\ blocks' \in Seq(U) /\ Len(blocks') = n + 1 /\ blocks'[n + 1] = B
      /\ \A b \in 1 .. n : blocks'[b] = blocks[b]
    BY <1>1, <1>6, <1>8
<1>10. n >= 1 /\ p \in 1 .. n /\ \A b \in 1 .. n + 1 : b \in 1 .. n \/ b = n + 1
    BY <1>6 DEF ChainInv
<1>11. blocks'[1] = blocks[1]
    BY <1>9, <1>10
<1>12. \A b \in 1 .. n + 1 : BlockOK(blocks'[b])
    BY <1>4, <1>6, <1>9, <1>10 DEF ChainInv
<1>13. ASSUME NEW b \in 2 .. n + 1
       PROVE  blocks'[b].parent \in 1 .. b - 1 /\ Follows(blocks'[b], blocks'[blocks'[b].parent])
    <2>1. CASE b = n + 1
        <3>1. blocks'[b] = B /\ blocks'[p] = blocks[p] /\ B.parent = p
            BY <1>2, <1>9, <1>10, <2>1
        <3>2. p \in 1 .. b - 1
            BY <1>10, <2>1
        <3> QED  BY <1>4, <3>1, <3>2, Zenon
    <2>2. CASE b \in 2 .. n
        <3>1. blocks[b].parent \in 1 .. b - 1 /\ Follows(blocks[b], blocks[blocks[b].parent])
            BY <1>6, <2>2 DEF ChainInv
        <3>2. blocks[b].parent \in 1 .. n /\ blocks'[b] = blocks[b]
            BY <1>9, <2>2, <3>1
        <3> QED  BY <1>9, <3>1, <3>2
    <2>3. b = n + 1 \/ b \in 2 .. n
        BY <1>10
    <2> QED  BY <2>1, <2>2, <2>3, Zenon
<1>14. ChainInv'
    BY <1>6, <1>9, <1>10, <1>11, <1>12, <1>13 DEF ChainInv, Listed
<1> QED  BY <1>1, <1>6, <1>9, <1>14

-----------------------------------------------------------------------------
(* The inherents of a block.                                               *)

\* Every extrinsic of a parachain block is an inherent.
LEMMA AllOpen ==
    ASSUME NEW extrinsics, Listed(extrinsics),
           \A i \in 1 .. Len(extrinsics) : Shaped(extrinsics[i])
    PROVE  OpeningInherents(extrinsics, InherentKinds) = extrinsics
<1>1. PICK n \in Nat : n = Len(extrinsics)
    BY DEF Listed
<1> DEFINE last == {k \in 0 .. Len(extrinsics) :
                       \A i \in 1 .. k : extrinsics[i].kind \in InherentKinds}
<1>2. last = 0 .. n
    BY <1>1 DEF Shaped, InherentKinds
<1>3. PICK m : m = CHOOSE k \in last : \A j \in last : j <= k
    BY Zenon
<1>4. m = n
    <2>1. n \in last /\ \A j \in last : j <= n
        BY <1>2
    <2>2. m \in last /\ \A j \in last : j <= m
        <3> HIDE DEF last
        <3> QED  BY <1>3, <2>1
    <2> QED  BY <1>2, <2>1, <2>2
<1>5. OpeningInherents(extrinsics, InherentKinds) = SubSeq(extrinsics, 1, m)
    BY <1>3, Zenon DEF OpeningInherents
<1>6. SubSeq(extrinsics, 1, n) = extrinsics
    BY <1>1 DEF Listed
<1> QED  BY <1>4, <1>5, <1>6

LEMMA InfosFound ==
    ASSUME NEW extrinsics, Listed(extrinsics), NEW infos,
           infos = OfKind(extrinsics, "ParachainInfo")
    PROVE  /\ infos # <<>> => \E i \in 1 .. Len(extrinsics) :
                                 infos[1] = extrinsics[i] /\ is_parachain(extrinsics[i])
           /\ HasInfo(extrinsics) => infos # <<>>
           /\ Len(infos) = 1 => OneInfo(extrinsics)
<1>1. PICK T : extrinsics \in Seq(T)
    BY DEF Listed
<1>2. Selects(infos, extrinsics, "ParachainInfo", Len(extrinsics), T)
    BY <1>1, OfKindIs
<1>3. infos \in Seq(T)
    BY <1>2 DEF Selects
<1>4. ASSUME infos # <<>>
      PROVE  \E i \in 1 .. Len(extrinsics) :
                 infos[1] = extrinsics[i] /\ is_parachain(extrinsics[i])
    <2>1. 1 \in 1 .. Len(infos)
        BY <1>3, <1>4
    <2> QED  BY <1>2, <2>1 DEF Selects, is_parachain
<1>5. ASSUME HasInfo(extrinsics) PROVE infos # <<>>
    <2>1. PICK m \in 1 .. Len(infos) : TRUE
        BY <1>2, <1>5 DEF Selects, HasInfo, is_parachain
    <2> QED  BY <2>1
<1>6. ASSUME Len(infos) = 1 PROVE OneInfo(extrinsics)
    <2>1. Len(infos) <= 1
        BY <1>6
    <2>2. PICK n : n = Len(extrinsics)
        BY Zenon
    <2>3. \A i, j \in 1 .. n : extrinsics[i].kind = "ParachainInfo" /\ extrinsics[j].kind = "ParachainInfo" => i = j
        BY <1>2, <2>1, <2>2, Zenon DEF Selects
    <2> QED  BY <2>2, <2>3, Zenon DEF OneInfo, is_parachain
<1> QED  BY <1>4, <1>5, <1>6

LEMMA TwoInARow ==
    ASSUME NEW x, NEW y
    PROVE  /\ <<>> \o <<x>> = <<x>> /\ <<x>> \o <<y>> = <<x, y>>
           /\ Append(<<>>, y) = <<y>> /\ Append(<<x>>, y) = <<x, y>>
<1>1. PICK s, t, u : s = <<x>> \o <<y>> /\ t = <<x, y>> /\ u = Append(<<x>>, y)
    BY Zenon
<1>2. t \in Seq({x, y}) /\ Len(t) = 2 /\ t[1] = x /\ t[2] = y
    BY <1>1
<1>3. <<x>> \in Seq({x, y}) /\ <<y>> \in Seq({x, y})
    OBVIOUS
<1>4. s \in Seq({x, y}) /\ Len(s) = 2 /\ s[1] = x /\ s[2] = y
    BY <1>1, <1>3
<1>5. u \in Seq({x, y}) /\ Len(u) = 2 /\ u[1] = x /\ u[2] = y
    BY <1>1, <1>3
<1>6. \A i \in 1 .. 2 : i = 1 \/ i = 2
    OBVIOUS
<1>7. s = t
    BY <1>2, <1>4, <1>6, SeqEqual
<1>8. u = t
    BY <1>2, <1>5, <1>6, SeqEqual
<1>9. <<>> \o <<x>> = <<x>> /\ Append(<<>>, y) = <<y>>
    OBVIOUS
<1> QED  BY <1>1, <1>7, <1>8, <1>9

Creates(f, leaves, previous, kinds, created, n) ==
    f = [i \in 0 .. n |->
            IF i = 0 THEN <<>>
            ELSE f[i - 1] \o (IF leaves[i] \in kinds THEN <<created[OfKind(previous, leaves[i])[1]]>>
                              ELSE SimpleCreate)]

\* Two inherents are created, each from the parent's only one of its kind.
LEMMA CreatedIs ==
    ASSUME NEW previous, NEW created
    PROVE  CreateInherents(Leaves, previous, InherentKinds, created)
               = <<created[OfKind(previous, "SetTimestamp")[1]],
                   created[OfKind(previous, "ParachainInfo")[1]]>>
<1>1. PICK x, y : /\ x = created[OfKind(previous, "SetTimestamp")[1]]
                  /\ y = created[OfKind(previous, "ParachainInfo")[1]]
    BY Zenon
<1>2. /\ Len(Leaves) = 2 /\ Leaves[1] \in InherentKinds /\ Leaves[2] \in InherentKinds
      /\ Leaves[1] = "SetTimestamp" /\ Leaves[2] = "ParachainInfo"
    BY DEF Leaves, InherentKinds
<1> DEFINE Leaf(i) == IF Leaves[i] \in InherentKinds THEN <<created[OfKind(previous, Leaves[i])[1]]>>
                      ELSE SimpleCreate
           Step(f, i) == IF i = 0 THEN <<>> ELSE f[i - 1] \o Leaf(i)
<1>3. Leaf(1) = <<x>> /\ Leaf(2) = <<y>>
    BY <1>1, <1>2
<1>4. PICK g : g = [i \in 0 .. 2 |-> IF i = 0 THEN <<>> ELSE IF i = 1 THEN <<x>> ELSE <<x, y>>]
    BY Zenon
<1>5. \A i \in 0 .. 2 : g[i] = Step(g, i)
    <2>1. g[0] = <<>> /\ g[1] = <<x>> /\ g[2] = <<x, y>>
        BY <1>4
    <2>2. <<>> \o <<x>> = <<x>> /\ <<x>> \o <<y>> = <<x, y>>
        BY TwoInARow
    <2>3. Step(g, 1) = g[0] \o Leaf(1) /\ Step(g, 2) = g[1] \o Leaf(2) /\ Step(g, 0) = <<>>
        OBVIOUS
    <2>4. \A i \in 0 .. 2 : i = 0 \/ i = 1 \/ i = 2
        OBVIOUS
    <2> HIDE DEF Step, Leaf
    <2> QED  BY <1>3, <2>1, <2>2, <2>3, <2>4
<1>6. g = [i \in 0 .. 2 |-> Step(g, i)]
    <2>1. g = [i \in 0 .. 2 |-> g[i]]
        BY <1>4
    <2> HIDE DEF Step
    <2> QED  BY <1>5, <2>1
<1>7. Creates(g, Leaves, previous, InherentKinds, created, 2)
    BY <1>6, Zenon DEF Creates
<1>8. PICK f : f = CHOOSE h : Creates(h, Leaves, previous, InherentKinds, created, 2)
    BY Zenon
<1>9. Creates(f, Leaves, previous, InherentKinds, created, 2)
    BY <1>7, <1>8
<1>10. f = [i \in 0 .. 2 |-> Step(f, i)]
    BY <1>9, Zenon DEF Creates
<1>11. f[0] = Step(f, 0) /\ f[1] = Step(f, 1) /\ f[2] = Step(f, 2)
    <2> HIDE DEF Step
    <2> QED  BY <1>10
<1>12. f[0] = <<>> /\ f[1] = f[0] \o Leaf(1) /\ f[2] = f[1] \o Leaf(2)
    <2>1. Step(f, 1) = f[0] \o Leaf(1) /\ Step(f, 2) = f[1] \o Leaf(2) /\ Step(f, 0) = <<>>
        OBVIOUS
    <2> HIDE DEF Step, Leaf
    <2> QED  BY <1>11, <2>1
<1>13. f[2] = <<x, y>>
    <2> HIDE DEF Leaf
    <2>1. f[1] = <<x>>
        BY <1>3, <1>12
    <2>2. <<x>> \o <<y>> = <<x, y>>
        BY TwoInARow
    <2>3. f[2] = <<x>> \o <<y>>
        BY <1>3, <1>12, <2>1, Zenon
    <2> QED  BY <2>2, <2>3
<1>14. CreateInherents(Leaves, previous, InherentKinds, created) = f[2]
    BY <1>2, <1>8 DEF CreateInherents, Creates
<1> QED  BY <1>1, <1>13, <1>14

-----------------------------------------------------------------------------
(* The blocks of our collators.                                            *)

LEMMA HeadIsBlock ==
    ASSUME ChainInv, CandidatesInv, RelayInv, NEW r \in 1 .. relay
    PROVE  heads[r] \in 1 .. Len(blocks)
<1>1. Len(blocks) \in Nat /\ Len(blocks) >= 1
    BY DEF ChainInv, Listed
<1>2. CASE heads[r] = 1
    BY <1>1, <1>2
<1>3. ASSUME NEW c \in backed, heads[r] = c.block PROVE heads[r] \in 1 .. Len(blocks)
    <2>1. c.block \in 2 .. Len(blocks)
        BY DEF CandidatesInv
    <2> QED  BY <1>1, <1>3, <2>1
<1> QED  BY <1>2, <1>3 DEF RelayInv

\* The data that validate_block finds is that of an info of the block.
LEMMA FoundIs ==
    ASSUME NEW B, Listed(B.extrinsics), \A i \in 1 .. Len(B.extrinsics) : Shaped(B.extrinsics[i]),
           OfKind(B.extrinsics, "ParachainInfo") # <<>>
    PROVE  \E i \in 1 .. Len(B.extrinsics) :
               FoundData(B) = Deref(B.extrinsics[i]) /\ is_parachain(B.extrinsics[i])
<1>1. PICK infos : infos = OfKind(B.extrinsics, "ParachainInfo")
    BY Zenon
<1>2. PICK i \in 1 .. Len(B.extrinsics) :
          infos[1] = B.extrinsics[i] /\ is_parachain(B.extrinsics[i])
    BY <1>1, InfosFound
<1>3. OpeningInherents(B.extrinsics, InherentKinds) = B.extrinsics
    BY AllOpen
<1>4. FoundData(B) = Deref(infos[1])
    BY <1>1, <1>3, Zenon DEF FoundData
<1> QED  BY <1>2, <1>4

LEMMA HeadIsOlder ==
    ASSUME ChainInv, CandidatesInv, RelayInv, NEW P, P = blocks[heads[relay]],
           OneInfo(P.extrinsics), NEW i \in 1 .. Len(P.extrinsics), is_parachain(P.extrinsics[i])
    PROVE  Number(P.extrinsics[i]) < relay
<1>1. relay \in Nat /\ relay >= 1 /\ relay \in 1 .. relay
    BY ParachainAssumption DEF RelayInv
<1>2. BlockOK(P)
    BY <1>1, HeadIsBlock DEF ChainInv
<1>3. CASE heads[relay] = 1
    <2>1. PICK g, h : g = genesis_transaction /\ h = GenesisInfo
        BY Zenon
    <2>2. P.extrinsics = <<g, h>>
        BY <1>3, <2>1 DEF ChainInv
    <2>3. ~is_parachain(g) /\ Number(h) = 0
        BY <2>1 DEF genesis_transaction, GenesisInfo, Tx, is_parachain, Number, Deref, ParachainInherentData
    <2>4. Len(P.extrinsics) = 2 /\ P.extrinsics[1] = g /\ P.extrinsics[2] = h
        BY <2>2
    <2>5. i = 1 \/ i = 2
        BY <2>4
    <2> QED  BY <1>1, <2>3, <2>4, <2>5
<1>4. ASSUME NEW c \in backed, heads[relay] = c.block, c.relay_parent < relay
      PROVE  Number(P.extrinsics[i]) < relay
    <2>1. Backed(P, c.relay_parent)
        BY <1>4 DEF CandidatesInv
    <2>2. PICK j \in 1 .. Len(P.extrinsics) :
              FoundData(P) = Deref(P.extrinsics[j]) /\ is_parachain(P.extrinsics[j])
        BY <1>2, <2>1, FoundIs DEF BlockOK, Backed
    <2>3. i = j
        BY <2>2 DEF OneInfo
    <2>4. Number(P.extrinsics[i]) = c.relay_parent
        BY <2>1, <2>2, <2>3 DEF Backed, Number
    <2> QED  BY <1>4, <2>4
<1> QED  BY <1>1, <1>3, <1>4 DEF RelayInv

\* The info with a higher number than the live one is valid.
LEMMA InfoValid ==
    ASSUME NEW live, NEW stored, LiveOK(live, stored),
           NEW old \in live, is_parachain(old), NEW number \in Nat, Number(old) < number,
           NEW parent, NEW height
    PROVE  Valid(CreateInfo(number, parent, old), live, height)
<1>1. PICK tx : tx = CreateInfo(number, parent, old)
    BY Zenon
<1>2. /\ tx.kind = "ParachainInfo" /\ tx.evicted = {old} /\ tx.peeks = <<>>
      /\ tx.outputs = <<ParachainInherentData(number, parent)>>
    BY <1>1 DEF CreateInfo, Tx
<1>3. is_parachain(tx) /\ Number(tx) = number /\ Len(tx.outputs) = 1
    BY <1>2 DEF is_parachain, Number, Deref, ParachainInherentData
<1>4. PICK info \in live : /\ Number(info) \in 0 .. MaxRelay + 1
                           /\ \A t \in live : is_parachain(t) => t = info
    BY DEF LiveOK
<1>5. old = info /\ Number(old) \in Nat
    BY <1>4, ParachainAssumption
<1>6. tx \notin live
    BY <1>3, <1>4, <1>5
<1>7. Cardinality(tx.evicted) = 1
    BY <1>2, FS_Singleton
<1>8. \A previous \in tx.evicted :
          tx.outputs[1].relay_parent_number > Deref(previous).relay_parent_number
    BY <1>2, <1>3, <1>5 DEF Number, Deref
<1>9. SetParachainInfoCheck(tx)
    BY <1>3, <1>7, <1>8 DEF SetParachainInfoCheck
<1>10. \A ref \in tx.evicted : ref \in live /\ ref.kind = tx.kind
    BY <1>2 DEF is_parachain
<1>11. 1 .. Len(tx.peeks) = {}
    BY <1>2
<1>12. Valid(tx, live, height)
    BY <1>3, <1>6, <1>9, <1>10, <1>11, Zenon DEF Valid
<1> QED  BY <1>1, <1>12, Zenon

LEMMA LiveOne ==
    ASSUME NEW x, NEW live
    PROVE  /\ LiveAfter(<<>>, live)[Len(<<>>)] = live
           /\ LiveAfter(<<x>>, live)[Len(<<x>>)] = Apply(x, live)
<1>1. PICK s : s = <<x>>
    BY Zenon
<1>2. PICK n \in Nat : n = 1
    OBVIOUS
<1>3. Len(s) = n /\ s[1] = x
    BY <1>1, <1>2
<1>4. PICK g : g = LiveAfter(s, live)
    BY Zenon
<1>5. g[0] = live /\ \A i \in 1 .. n : g[i] = Apply(s[i], g[i - 1])
    BY <1>3, <1>4, LiveAfterIs
<1>6. 1 \in 1 .. n /\ 1 - 1 = 0
    BY <1>2
<1>7. g[1] = Apply(x, live)
    BY <1>3, <1>5, <1>6
<1>8. Len(<<>>) = 0
    OBVIOUS
<1>9. LiveAfter(<<>>, live)[0] = live
    BY <1>8, LiveAfterIs
<1> QED  BY <1>1, <1>2, <1>3, <1>4, <1>7, <1>8, <1>9

\* What is pushed when tx is tried after the others.
TriedAfter(others, tx, live, height) ==
    IF Valid(tx, LiveAfter(others, live)[Len(others)], height) THEN Append(others, tx) ELSE others

\* The first inherent may be dropped; the second is tried in either case.
LEMMA PushTwo ==
    ASSUME NEW a, NEW b, NEW live, NEW height
    PROVE  \E first : /\ first = <<>> \/ (first = <<a>> /\ Valid(a, live, height))
                      /\ Push(<<a, b>>, live, height) = TriedAfter(first, b, live, height)
<1>1. PICK created : created = <<a, b>>
    BY Zenon
<1>2. PICK n \in Nat : n = 2
    OBVIOUS
<1>3. Len(created) = n /\ created[1] = a /\ created[2] = b
    BY <1>1, <1>2
<1>4. PICK f : Grows(f, created, live, height, n) /\ f[n] = Push(created, live, height)
    BY <1>3, PushIs
<1>5. PICK first : first = f[1]
    BY Zenon
<1>6. \A m \in 0 .. n - 1 :
          f[m + 1] = IF Valid(created[m + 1], LiveAfter(f[m], live)[Len(f[m])], height)
                     THEN Append(f[m], created[m + 1]) ELSE f[m]
    BY <1>4, GrowsBy
<1>7. 0 \in 0 .. n - 1 /\ 1 \in 0 .. n - 1 /\ 0 + 1 = 1 /\ 1 + 1 = 2
    BY <1>2
<1>8. f[0] = <<>>
    BY <1>4 DEF Grows
<1>9. f[1] = IF Valid(a, LiveAfter(<<>>, live)[Len(<<>>)], height) THEN Append(<<>>, a) ELSE <<>>
    BY <1>3, <1>6, <1>7, <1>8
<1>10. f[2] = TriedAfter(first, b, live, height)
    BY <1>3, <1>5, <1>6, <1>7 DEF TriedAfter
<1>11. first = <<>> \/ (first = <<a>> /\ Valid(a, live, height))
    BY <1>5, <1>9, LiveOne, TwoInARow, Zenon
<1> QED  BY <1>1, <1>2, <1>4, <1>10, <1>11, Zenon

\* The info is pushed, whether or not the timestamp before it is.
LEMMA InfoPushed ==
    ASSUME NEW live, NEW stored, LiveOK(live, stored), NEW stamp, stamp.kind = "SetTimestamp",
           NEW old \in live, is_parachain(old), NEW number \in Nat, Number(old) < number,
           NEW parent, NEW height, NEW info, info = CreateInfo(number, parent, old),
           NEW body, body = Push(<<stamp, info>>, live, height)
    PROVE  body = <<info>> \/ body = <<stamp, info>>
<1>1. PICK first : /\ first = <<>> \/ (first = <<stamp>> /\ Valid(stamp, live, height))
                   /\ body = TriedAfter(first, info, live, height)
    BY PushTwo
<1>2. /\ LiveAfter(<<>>, live)[Len(<<>>)] = live
      /\ LiveAfter(<<stamp>>, live)[Len(<<stamp>>)] = Apply(stamp, live)
    BY LiveOne, Zenon
<1>3. Append(<<>>, info) = <<info>> /\ Append(<<stamp>>, info) = <<stamp, info>>
    BY TwoInARow, Zenon
<1>4. CASE first = <<>>
    <2>1. Valid(info, live, height)
        BY InfoValid
    <2> QED  BY <1>1, <1>2, <1>3, <1>4, <2>1, Zenon DEF TriedAfter
<1>5. CASE first = <<stamp>> /\ Valid(stamp, live, height)
    <2>1. PICK l : l = Apply(stamp, live)
        BY Zenon
    <2>2. ~is_parachain(stamp) /\ Shaped(stamp)
        BY DEF is_parachain, Shaped
    <2>3. LiveOK(l, StoreNumber(stamp, stored)) /\ old \in l
        BY <1>5, <2>1, <2>2, ApplyKeeps
    <2>4. Valid(info, l, height)
        BY <2>3, InfoValid
    <2> QED  BY <1>1, <1>2, <1>3, <1>5, <2>1, <2>4, Zenon DEF TriedAfter
<1> QED  BY <1>1, <1>4, <1>5

\* The only transaction of a kind is one of the block's.
LEMMA OneOfKind ==
    ASSUME NEW T, NEW txs \in Seq(T), NEW kind, Len(OfKind(txs, kind)) = 1
    PROVE  \E i \in 1 .. Len(txs) : OfKind(txs, kind)[1] = txs[i] /\ txs[i].kind = kind
<1>1. PICK r, n : r = OfKind(txs, kind) /\ n = Len(txs)
    BY Zenon
<1>2. \A m \in 1 .. Len(r) : \E i \in 1 .. n : r[m] = txs[i] /\ txs[i].kind = kind
    <2>1. Selects(r, txs, kind, n, T)
        BY <1>1, OfKindIs, Zenon
    <2> QED  BY <2>1, Zenon DEF Selects
<1>3. 1 \in 1 .. Len(r)
    BY <1>1
<1> QED  BY <1>1, <1>2, <1>3, Zenon

\* A collator whose create_inherents does not panic adds a block that
\* validate_block accepts for the relay parent it was authored on.
LEMMA CollateAdds ==
    ASSUME ParachainInv, NEW c \in Collator, Collate(c), ~UNCHANGED <<blocks, known, candidates>>,
           NEW p, p = heads[relay], NEW b, b = Len(blocks) + 1
    PROVE  \E body :
               /\ BodyOK(body, blocks[p].live, blocks[p].number + 1)
               /\ blocks' = Append(blocks, NewBlock(p, body))
               /\ known' = [known EXCEPT ![c] = known[c] \cup {b}]
               /\ candidates' = candidates \cup {Candidate(b, NewBlock(p, body))}
               /\ Validated(NewBlock(p, body), blocks[p], p, relay)
<1>0. ChainInv /\ CandidatesInv /\ RelayInv /\ CollatorsInv
    BY DEF ParachainInv
<1>1. PICK P, height : P = blocks[p] /\ height = P.number + 1
    BY Zenon
<1>2. relay \in 1 .. MaxRelay /\ relay \in Nat /\ relay \in 1 .. relay
    BY <1>0, ParachainAssumption DEF RelayInv
<1>3. p \in 1 .. Len(blocks) /\ BlockOK(P)
    BY <1>0, <1>1, <1>2, HeadIsBlock DEF ChainInv
<1>4. PICK xs : xs = P.extrinsics
    BY Zenon
<1>5. OpeningInherents(xs, InherentKinds) = xs
    BY <1>3, <1>4, AllOpen DEF BlockOK
<1>6. PICK create : create = [tx \in Range(xs) |-> IF is_parachain(tx) THEN CreateInfo(relay, p, tx)
                                                   ELSE create_inherent(relay, height, tx)]
    BY Zenon
<1>7. PICK old, oldStamp : /\ old = OfKind(xs, "ParachainInfo")[1]
                           /\ oldStamp = OfKind(xs, "SetTimestamp")[1]
    BY Zenon
<1>8. PICK info, stamp : info = create[old] /\ stamp = create[oldStamp]
    BY Zenon
<1>9. CreateInherents(Leaves, xs, InherentKinds, create) = <<stamp, info>>
    BY <1>7, <1>8, CreatedIs, Zenon
<1>10. PICK body : body = Push(<<stamp, info>>, P.live, height)
    BY Zenon
<1>11. /\ ~CreatePanics(Leaves, xs, InherentKinds)
       /\ blocks' = Append(blocks, NewBlock(p, body))
       /\ known' = [known EXCEPT ![c] = known[c] \cup {b}]
       /\ candidates' = candidates \cup {Candidate(b, NewBlock(p, body))}
    BY <1>1, <1>4, <1>5, <1>6, <1>9, <1>10, ZenonT(60) DEF Collate
<1>12. Len(OfKind(xs, "SetTimestamp")) = 1 /\ Len(OfKind(xs, "ParachainInfo")) = 1
    <2>1. /\ Len(Leaves) = 2 /\ Leaves[1] = "SetTimestamp" /\ "SetTimestamp" \in InherentKinds
          /\ Leaves[2] = "ParachainInfo" /\ "ParachainInfo" \in InherentKinds
        BY DEF Leaves, InherentKinds
    <2> QED  BY <1>11, <2>1 DEF CreatePanics
<1>13. PICK T : xs \in Seq(T)
    BY <1>3, <1>4 DEF BlockOK, Listed
<1>14. PICK i \in 1 .. Len(xs) : old = xs[i] /\ is_parachain(xs[i])
    <2>1. \E i \in 1 .. Len(xs) :
              OfKind(xs, "ParachainInfo")[1] = xs[i] /\ xs[i].kind = "ParachainInfo"
        BY <1>12, <1>13, OneOfKind
    <2> QED  BY <1>7, <2>1, Zenon DEF is_parachain
<1>15. PICK j \in 1 .. Len(xs) : oldStamp = xs[j] /\ xs[j].kind = "SetTimestamp"
    <2>1. \E j \in 1 .. Len(xs) :
              OfKind(xs, "SetTimestamp")[1] = xs[j] /\ xs[j].kind = "SetTimestamp"
        BY <1>12, <1>13, OneOfKind
    <2> QED  BY <1>7, <2>1, Zenon
<1>16. OneInfo(xs)
    BY <1>3, <1>4, <1>12, InfosFound DEF BlockOK
<1>17. old \in Range(xs) /\ oldStamp \in Range(xs)
    BY <1>13, <1>14, <1>15 DEF Range
<1>18. info = CreateInfo(relay, p, old) /\ stamp = create_inherent(relay, height, oldStamp)
    BY <1>6, <1>8, <1>14, <1>15, <1>17 DEF is_parachain
<1>19. stamp.kind = "SetTimestamp"
    BY <1>18 DEF create_inherent, Tx
<1>20. Number(old) < relay /\ old \in P.live /\ is_parachain(old) /\ LiveOK(P.live, P.stored)
    <2>1. Number(old) < relay
        BY <1>0, <1>1, <1>4, <1>14, <1>16, HeadIsOlder
    <2> QED  BY <1>3, <1>4, <1>14, <1>16, <2>1 DEF BlockOK
<1>21. body = <<info>> \/ body = <<stamp, info>>
    <2>1. PICK live, stored : live = P.live /\ stored = P.stored
        BY Zenon
    <2>2. LiveOK(live, stored) /\ old \in live /\ body = Push(<<stamp, info>>, live, height)
        BY <1>10, <1>20, <2>1, Zenon
    <2>3. is_parachain(old) /\ Number(old) < relay /\ info = CreateInfo(relay, p, old)
        BY <1>18, <1>20, Zenon
    <2> QED  BY <1>2, <1>19, <2>2, <2>3, InfoPushed
<1>22. Deref(info) = ParachainInherentData(relay, p) /\ is_parachain(info) /\ ~is_parachain(stamp)
    BY <1>18, <1>19 DEF CreateInfo, Tx, Deref, is_parachain
<1>23. Shaped(info) /\ Shaped(stamp)
    <2>1. Number(info) = relay /\ relay \in 0 .. MaxRelay + 1
        BY <1>2, <1>22, ParachainAssumption DEF Number, ParachainInherentData
    <2> QED  BY <1>19, <1>22, <2>1 DEF Shaped, is_parachain
<1>24. /\ \A m \in 1 .. Len(body) : body[m] = info \/ body[m] = stamp
       /\ \E m \in 1 .. Len(body) : body[m] = info
    BY <1>21
<1>25. Listed(body) /\ Executes(body, P.live, height)
    <2>1. <<stamp, info>> \in Seq({stamp, info})
        OBVIOUS
    <2> QED  BY <1>10, <2>1, PushExecutes, Zenon
<1>26. BodyOK(body, P.live, height)
    BY <1>23, <1>24, <1>25, Zenon DEF BodyOK
<1>27. PICK B : B = NewBlock(p, body)
    BY Zenon
<1>28. B.parent = p /\ B.extrinsics = body /\ B.number = height
    BY <1>1, <1>27 DEF NewBlock
<1>29. OfKind(body, "ParachainInfo") # <<>>
    <2>1. HasInfo(body)
        BY <1>22, <1>24 DEF HasInfo
    <2> QED  BY <1>25, <2>1, InfosFound
<1>30. FoundData(B) = ParachainInherentData(relay, p)
    <2>1. PICK m \in 1 .. Len(body) : FoundData(B) = Deref(body[m]) /\ is_parachain(body[m])
        BY <1>25, <1>26, <1>28, <1>29, FoundIs DEF BodyOK
    <2>2. body[m] = info
        BY <1>22, <1>24, <2>1
    <2> QED  BY <1>22, <2>1, <2>2
<1>31. Validated(B, P, p, relay)
    BY <1>25, <1>28, <1>29, <1>30 DEF Validated
<1> QED  BY <1>1, <1>11, <1>26, <1>27, <1>31, Zenon

-----------------------------------------------------------------------------
(* The blocks of other collators.                                          *)

InOrder(body) == Listed(body) /\ \A i \in 1 .. Len(body) : Shaped(body[i])

LEMMA OtherShaped ==
    ASSUME NEW p, relay \in 1 .. MaxRelay, NEW body, NEW tx \in OtherNext(p, body)
    PROVE  Shaped(tx)
<1>1. PICK live : tx \in OtherStamps(p, live) \cup OtherInfos(p, live)
    BY Zenon DEF OtherNext
<1>2. CASE tx \in OtherStamps(p, live)
    <2>1. PICK h, S, L : /\ h = blocks[p].number + 1 /\ S = {relay, relay + MAX_DRIFT + 1}
                         /\ L = {t \in live : ~is_parachain(t)}
        BY Zenon
    <2>2. tx \in {create_inherent(time, h, t) : time \in S, t \in L}
        BY <1>2, <2>1 DEF OtherStamps
    <2>3. PICK time \in S, t \in L : tx = create_inherent(time, h, t)
        BY <2>2
    <2> QED  BY <2>3 DEF create_inherent, Tx, Shaped
<1>3. CASE tx \in OtherInfos(p, live)
    <2>1. PICK S, L : S = relay - 1 .. relay + 1 /\ L = {t \in live : is_parachain(t)}
        BY Zenon
    <2>2. tx \in {CreateInfo(number, p, t) : number \in S, t \in L}
        BY <1>3, <2>1 DEF OtherInfos
    <2>3. PICK number \in S, t \in L : tx = CreateInfo(number, p, t)
        BY <2>2
    <2>4. number \in 0 .. MaxRelay + 1
        BY <2>1, ParachainAssumption
    <2>5. tx.kind = "ParachainInfo" /\ Number(tx) = number
        BY <2>3 DEF CreateInfo, Tx, Number, Deref, ParachainInherentData
    <2> QED  BY <2>4, <2>5 DEF Shaped
<1> QED  BY <1>1, <1>2, <1>3

LEMMA ExtendInOrder ==
    ASSUME NEW p, relay \in 1 .. MaxRelay, NEW bodies, \A body \in bodies : InOrder(body)
    PROVE  \A more \in Extend(p, bodies) : InOrder(more)
<1> TAKE more \in Extend(p, bodies)
<1>1. PICK body \in bodies : \E tx \in OtherNext(p, body) : more = Append(body, tx)
    BY DEF Extend
<1>2. PICK tx \in OtherNext(p, body) : more = Append(body, tx)
    BY <1>1
<1>3. Shaped(tx) /\ InOrder(body)
    BY OtherShaped
<1>4. PICK T : body \in Seq(T)
    BY <1>3 DEF InOrder, Listed
<1>5. PICK U : U = T \cup {tx}
    BY Zenon
<1>6. body \in Seq(U) /\ tx \in U
    BY <1>4, <1>5
<1>7. /\ more \in Seq(U) /\ Len(more) = Len(body) + 1 /\ more[Len(body) + 1] = tx
      /\ \A i \in 1 .. Len(body) : more[i] = body[i]
    BY <1>2, <1>6
<1>8. \A i \in 1 .. Len(more) : i \in 1 .. Len(body) \/ i = Len(body) + 1
    BY <1>6, <1>7
<1> QED  BY <1>3, <1>7, <1>8 DEF InOrder, Listed

LEMMA OtherBodiesOK ==
    ASSUME NEW p, relay \in 1 .. MaxRelay, NEW body \in OtherBodies(p)
    PROVE  BodyOK(body, blocks[p].live, blocks[p].number + 1)
<1>1. PICK One : One = Extend(p, {<<>>})
    BY Zenon
<1>2. /\ body \in {<<>>} \cup One \cup Extend(p, One)
      /\ Executes(body, blocks[p].live, blocks[p].number + 1)
    BY <1>1 DEF OtherBodies
<1>3. InOrder(<<>>)
    BY DEF InOrder, Listed
<1>4. \A more \in One : InOrder(more)
    BY <1>1, <1>3, ExtendInOrder
<1>5. \A more \in Extend(p, One) : InOrder(more)
    BY <1>4, ExtendInOrder
<1>6. InOrder(body)
    BY <1>2, <1>3, <1>4, <1>5, Zenon
<1> QED  BY <1>2, <1>6, Zenon DEF BodyOK, InOrder

-----------------------------------------------------------------------------
(* The steps.                                                              *)

\* A block more, and its candidate.
LEMMA CandidatesGrow ==
    ASSUME ParachainInv, NEW p, p = heads[relay], NEW body,
           BodyOK(body, blocks[p].live, blocks[p].number + 1),
           blocks' = Append(blocks, NewBlock(p, body)),
           candidates' = candidates \cup {Candidate(Len(blocks) + 1, NewBlock(p, body))},
           heads' = heads, backed' = backed,
           \/ other' = other /\ Validated(NewBlock(p, body), blocks[p], p, relay)
           \/ other' = other \cup {Len(blocks) + 1}
    PROVE  /\ ChainInv' /\ CandidatesInv' /\ RelayInv'
           /\ Len(blocks) \in Nat /\ Len(blocks') = Len(blocks) + 1
<1>0. ChainInv /\ CandidatesInv /\ RelayInv
    BY DEF ParachainInv
<1>1. relay \in 1 .. relay /\ p \in 1 .. Len(blocks)
    <2>1. relay \in 1 .. relay
        BY <1>0, SMTT(30) DEF RelayInv
    <2> QED  BY <1>0, <2>1, HeadIsBlock
<1>2. PICK B : B = NewBlock(p, body)
    BY Zenon
<1>3. /\ ChainInv' /\ Len(blocks) \in Nat /\ Len(blocks') = Len(blocks) + 1
      /\ blocks'[Len(blocks) + 1] = B
      /\ \A b \in 1 .. Len(blocks) : blocks'[b] = blocks[b]
    BY <1>0, <1>1, <1>2, ChainGrows
<1>4. PICK n \in Nat : n = Len(blocks)
    BY <1>3
<1>5. B.parent = p /\ blocks'[p] = blocks[p] /\ B.stored = blocks'[n + 1].stored
    <2>1. B.parent = p
        BY <1>2 DEF NewBlock
    <2> QED  BY <1>1, <1>3, <1>4, <2>1, Zenon
<1>6. ASSUME NEW c \in candidates
      PROVE  /\ c.block \in 2 .. n /\ c.block \in 2 .. n + 1 /\ c.relay_parent \in 1 .. relay
             /\ blocks'[c.block] = blocks[c.block]
             /\ blocks[c.block].parent \in 1 .. n
             /\ blocks'[blocks[c.block].parent] = blocks[blocks[c.block].parent]
             /\ c.watermark = blocks[c.block].stored
             /\ c.block \notin other => Validated(blocks[c.block], blocks[blocks[c.block].parent],
                                                  heads[c.relay_parent], c.relay_parent)
    <2>1. /\ c.block \in 2 .. n /\ c.relay_parent \in 1 .. relay
          /\ c.watermark = blocks[c.block].stored
          /\ c.block \notin other => Validated(blocks[c.block], blocks[blocks[c.block].parent],
                                               heads[c.relay_parent], c.relay_parent)
        BY <1>0, <1>4 DEF CandidatesInv
    <2>2. c.block \in 1 .. n /\ c.block \in 2 .. n + 1
        BY <2>1, SMTT(30)
    <2>3. blocks[c.block].parent \in 1 .. n
        <3>1. \A b \in 2 .. n : blocks[b].parent \in 1 .. b - 1
            BY <1>0, <1>4, Zenon DEF ChainInv
        <3>2. PICK m : m = c.block
            BY Zenon
        <3>3. m \in 2 .. n /\ blocks[m].parent \in 1 .. m - 1
            BY <2>1, <3>1, <3>2, Zenon
        <3>4. blocks[m].parent \in 1 .. n
            BY <3>3
        <3> QED  BY <3>2, <3>4, Zenon
    <2> QED  BY <1>3, <1>4, <2>1, <2>2, <2>3
<1>7. ASSUME NEW c \in candidates'
      PROVE  /\ c.block \in 2 .. n + 1 /\ c.relay_parent \in 1 .. relay
             /\ c.watermark = blocks'[c.block].stored
             /\ c.block \notin other' => Validated(blocks'[c.block], blocks'[blocks'[c.block].parent],
                                                   heads[c.relay_parent], c.relay_parent)
    <2>1. CASE c \in candidates
        BY <1>6, <2>1
    <2>2. CASE c = Candidate(n + 1, B)
        <3>1. c.block = n + 1 /\ c.relay_parent = relay /\ c.watermark = B.stored
            BY <2>2 DEF Candidate
        <3>2. c.block \in 2 .. n + 1
            BY <1>1, <1>4, <3>1
        <3>3. blocks'[c.block] = B /\ blocks'[B.parent] = blocks[p]
            BY <1>3, <1>4, <1>5, <3>1
        <3>4. c.block \notin other' => Validated(B, blocks[p], p, relay)
            BY <1>2, <1>4, <3>1
        <3> QED  BY <1>1, <3>1, <3>2, <3>3, <3>4
    <2>3. c \in candidates \/ c = Candidate(n + 1, B)
        BY <1>2, <1>4
    <2> QED  BY <2>1, <2>2, <2>3
<1>8. ASSUME NEW c \in backed PROVE Backed(blocks'[c.block], c.relay_parent)
    BY <1>0, <1>6 DEF CandidatesInv
<1>9. CandidatesInv'
    <2>1. backed' \subseteq candidates'
        BY <1>0 DEF CandidatesInv
    <2>2. Len(blocks') = n + 1 /\ relay' = relay
        BY <1>3, <1>4 DEF relay
    <2> QED  BY <1>7, <1>8, <2>1, <2>2 DEF CandidatesInv
<1>10. RelayInv'
    BY <1>0 DEF RelayInv, relay
<1> QED  BY <1>3, <1>9, <1>10

LEMMA ParachainInit == Init => ParachainInv
<1> SUFFICES ASSUME Init PROVE ParachainInv
    OBVIOUS
<1>1. PICK g, h : g = genesis_transaction /\ h = GenesisInfo
    BY Zenon
<1>2. /\ g.kind = "SetTimestamp" /\ Len(g.outputs) = 1
      /\ h.kind = "ParachainInfo" /\ Len(h.outputs) = 1 /\ Number(h) = 0
    BY <1>1 DEF genesis_transaction, GenesisInfo, Tx, Number, Deref, ParachainInherentData
<1>3. PICK xs : xs = <<g, h>>
    BY Zenon
<1>4. xs \in Seq({g, h}) /\ Len(xs) = 2 /\ xs[1] = g /\ xs[2] = h
    BY <1>3
<1>5. PICK B : B = [parent |-> 0, number |-> 0, extrinsics |-> xs, live |-> {g, h},
                    stored |-> NotStored]
    BY Zenon
<1>6. B.parent = 0 /\ B.extrinsics = xs /\ B.live = {g, h} /\ B.stored = NotStored
    BY <1>5
<1>7. \A i \in 1 .. 2 : i = 1 \/ i = 2
    OBVIOUS
<1>8. is_parachain(h) /\ ~is_parachain(g) /\ 0 \in 0 .. MaxRelay + 1
    BY <1>2, ParachainAssumption DEF is_parachain
<1>9. BlockOK(B)
    <2>1. Listed(xs)
        BY <1>4 DEF Listed
    <2>2. \A i \in 1 .. Len(xs) : Shaped(xs[i]) /\ xs[i] \in B.live
        BY <1>2, <1>4, <1>6, <1>7, <1>8 DEF Shaped
    <2>3. NotStored \in NotStored .. MaxRelay + 1 /\ NotStored <= 0
        BY ParachainAssumption DEF NotStored
    <2>4. LiveOK({g, h}, NotStored)
        BY <1>2, <1>8, <2>3 DEF LiveOK
    <2> QED  BY <1>6, <2>1, <2>2, <2>4, Zenon DEF BlockOK
<1>10. blocks = <<B>>
    BY <1>1, <1>3, <1>5 DEF Init
<1>11. blocks \in Seq({B}) /\ Len(blocks) = 1 /\ blocks[1] = B
    BY <1>10
<1>12. ChainInv
    <2>1. Listed(blocks)
        BY <1>11 DEF Listed
    <2>2. \A b \in 1 .. Len(blocks) : BlockOK(blocks[b])
        BY <1>9, <1>11
    <2>3. Len(blocks) >= 1 /\ \A b \in 2 .. Len(blocks) : FALSE
        BY <1>11
    <2>4. blocks[1].parent = 0 /\ blocks[1].extrinsics = <<genesis_transaction, GenesisInfo>>
        BY <1>1, <1>3, <1>6, <1>11
    <2> QED  BY <2>1, <2>2, <2>3, <2>4, Zenon DEF ChainInv
<1>13. heads \in Seq({1}) /\ Len(heads) = 1 /\ heads[1] = 1
    BY DEF Init
<1>14. RelayInv
    <2>1. Listed(heads)
        BY <1>13 DEF Listed
    <2>2. Len(heads) \in 1 .. MaxRelay
        BY <1>13, ParachainAssumption
    <2>3. \A r \in 1 .. 1 : r = 1
        OBVIOUS
    <2> QED  BY <1>13, <2>1, <2>2, <2>3 DEF RelayInv, relay
<1>15. CandidatesInv
    BY DEF Init, CandidatesInv
<1>16. CollatorsInv
    <2>1. 1 .. Len(blocks) = {1} /\ 0 \in 0 .. MaxRelay
        BY <1>11, ParachainAssumption
    <2> QED  BY <2>1 DEF Init, CollatorsInv
<1> QED  BY <1>12, <1>14, <1>15, <1>16 DEF ParachainInv

\* The relay chain grows.
LEMMA RelayBlockStep ==
    ASSUME ParachainInv, RelayBlock PROVE CandidatesInv' /\ RelayInv'
<1>0. ChainInv /\ CandidatesInv /\ RelayInv
    BY DEF ParachainInv
<1>1. /\ relay < MaxRelay /\ blocks' = blocks /\ candidates' = candidates
      /\ backed' = backed /\ other' = other
    BY DEF RelayBlock
<1>2. PICK head : /\ heads' = Append(heads, head)
                  /\ head = heads[relay] \/ \E c \in backed : head = c.block
    <2>1. PICK S : S = {c \in backed : /\ blocks[c.block].parent = heads[relay]
                                       /\ c.relay_parent + MaxAge >= relay}
        BY Zenon
    <2>2. PICK head \in {heads[relay]} \cup {c.block : c \in S} : heads' = Append(heads, head)
        BY <2>1, Zenon DEF RelayBlock
    <2>3. head = heads[relay] \/ \E c \in S : head = c.block
        BY <2>2
    <2> QED  BY <2>1, <2>2, <2>3
<1>3. PICK n \in Nat : n = relay /\ n >= 1 /\ n < MaxRelay
    BY <1>0, <1>1, ParachainAssumption DEF RelayInv
<1>4. PICK T : heads \in Seq(T)
    BY <1>0 DEF RelayInv, Listed
<1>5. PICK U : U = T \cup {head}
    BY Zenon
<1>6. heads \in Seq(U) /\ head \in U /\ Len(heads) = n
    BY <1>3, <1>4, <1>5 DEF relay
<1>7. /\ heads' \in Seq(U) /\ Len(heads') = n + 1 /\ heads'[n + 1] = head
      /\ \A r \in 1 .. n : heads'[r] = heads[r]
    BY <1>2, <1>6
<1>8. CandidatesInv'
    <2>1. \A c \in candidates : /\ c.relay_parent \in 1 .. n /\ c.relay_parent \in 1 .. n + 1
                                /\ heads'[c.relay_parent] = heads[c.relay_parent]
        <3>1. \A c \in candidates : c.relay_parent \in 1 .. n
            BY <1>0, <1>3 DEF CandidatesInv
        <3>2. \A r \in 1 .. n : r \in 1 .. n + 1
            OBVIOUS
        <3> QED  BY <1>7, <3>1, <3>2
    <2>2. relay' = n + 1
        BY <1>7 DEF relay
    <2> QED  BY <1>0, <1>1, <2>1, <2>2 DEF CandidatesInv
<1>9. ASSUME NEW r \in 1 .. n + 1
      PROVE  heads'[r] = 1 \/ \E c \in backed : heads'[r] = c.block /\ c.relay_parent < r
    <2>0. \A c \in backed : c.relay_parent \in 1 .. n
        BY <1>0, <1>3 DEF CandidatesInv
    <2>1. CASE r \in 1 .. n
        BY <1>0, <1>3, <1>7, <2>1 DEF RelayInv
    <2>2. CASE r = n + 1 /\ head = heads[n]
        <3>1. heads[n] = 1 \/ \E c \in backed : heads[n] = c.block /\ c.relay_parent < n
            BY <1>0, <1>3 DEF RelayInv
        <3>2. \A c \in backed : c.relay_parent < n => c.relay_parent < r
            BY <2>0, <2>2
        <3> QED  BY <1>7, <2>2, <3>1, <3>2
    <2>3. CASE r = n + 1 /\ \E c \in backed : head = c.block
        <3>1. \A c \in backed : c.relay_parent < r
            BY <2>0, <2>3
        <3> QED  BY <1>7, <2>3, <3>1
    <2>4. r \in 1 .. n \/ r = n + 1
        OBVIOUS
    <2> QED  BY <1>2, <1>3, <2>1, <2>2, <2>3, <2>4
<1>10. RelayInv'
    <2>1. Listed(heads') /\ n + 1 \in 1 .. MaxRelay
        BY <1>3, <1>7, ParachainAssumption DEF Listed
    <2> QED  BY <1>1, <1>7, <1>9, <2>1 DEF RelayInv, relay
<1> QED  BY <1>8, <1>10

LEMMA ValidateStep ==
    ASSUME ParachainInv, NEW c \in candidates, Validate(c) PROVE CandidatesInv' /\ RelayInv'
<1>0. ChainInv /\ CandidatesInv /\ RelayInv
    BY DEF ParachainInv
<1>1. /\ backed' = backed \cup {c} /\ heads' = heads /\ blocks' = blocks
      /\ candidates' = candidates /\ other' = other
      /\ ValidateBlock(blocks[c.block], heads[c.relay_parent], c.relay_parent)
    BY DEF Validate
<1>2. Backed(blocks[c.block], c.relay_parent)
    <2>1. PICK B, number : B = blocks[c.block] /\ number = c.relay_parent
        BY Zenon
    <2>2. /\ OfKind(B.extrinsics, "ParachainInfo") # <<>>
          /\ FoundData(B) = ParachainInherentData(number, heads[number])
        BY <1>1, <2>1, Zenon DEF ValidateBlock
    <2>3. FoundData(B).relay_parent_number = number
        BY <2>2 DEF ParachainInherentData
    <2> QED  BY <2>1, <2>2, <2>3, Zenon DEF Backed
<1>3. CandidatesInv'
    <2>1. relay' = relay
        BY <1>1 DEF relay
    <2> QED  BY <1>0, <1>1, <1>2, <2>1 DEF CandidatesInv
<1>4. RelayInv'
    BY <1>0, <1>1 DEF RelayInv, relay
<1> QED  BY <1>3, <1>4

LEMMA ParachainStep == ParachainInv /\ [Next]_vars => ParachainInv'
<1> SUFFICES ASSUME ParachainInv, [Next]_vars PROVE ParachainInv'
    OBVIOUS
<1>0. ChainInv /\ CandidatesInv /\ RelayInv /\ CollatorsInv
    BY DEF ParachainInv
<1>1. Len(blocks) \in Nat
    BY <1>0 DEF ChainInv, Listed
<1>2. ASSUME blocks' = blocks PROVE ChainInv'
    BY <1>0, <1>2, Zenon DEF ChainInv
<1>3. ASSUME blocks' = blocks, heads' = heads, candidates' = candidates, backed' = backed,
             other' = other
      PROVE  CandidatesInv' /\ RelayInv'
    BY <1>0, <1>3 DEF CandidatesInv, RelayInv, relay
<1>4. CASE RelayBlock
    <2>1. CandidatesInv' /\ RelayInv'
        BY <1>4, RelayBlockStep
    <2>2. CollatorsInv'
        BY <1>0, <1>4 DEF RelayBlock, CollatorsInv
    <2>3. ChainInv'
        BY <1>2, <1>4 DEF RelayBlock
    <2> QED  BY <2>1, <2>2, <2>3 DEF ParachainInv
<1>5. ASSUME NEW c \in Collator, Collate(c) PROVE ParachainInv'
    <2>1. /\ heads' = heads /\ backed' = backed /\ other' = other
          /\ collated' = [collated EXCEPT ![c] = relay]
        BY <1>5, Zenon DEF Collate
    <2>2. collated' \in [Collator -> 0 .. MaxRelay]
        <3>1. PICK r \in 0 .. MaxRelay : r = relay
            BY <1>0, ParachainAssumption DEF RelayInv
        <3> QED  BY <1>0, <2>1, <3>1 DEF CollatorsInv
    <2>3. CASE UNCHANGED <<blocks, known, candidates>>
        <3>1. CandidatesInv' /\ RelayInv' /\ ChainInv'
            BY <1>2, <1>3, <2>1, <2>3
        <3>2. CollatorsInv'
            BY <1>0, <2>1, <2>2, <2>3 DEF CollatorsInv
        <3> QED  BY <3>1, <3>2 DEF ParachainInv
    <2>4. CASE ~UNCHANGED <<blocks, known, candidates>>
        <3>1. PICK p, b : p = heads[relay] /\ b = Len(blocks) + 1
            BY Zenon
        <3>2. PICK body :
                  /\ BodyOK(body, blocks[p].live, blocks[p].number + 1)
                  /\ blocks' = Append(blocks, NewBlock(p, body))
                  /\ known' = [known EXCEPT ![c] = known[c] \cup {b}]
                  /\ candidates' = candidates \cup {Candidate(b, NewBlock(p, body))}
                  /\ Validated(NewBlock(p, body), blocks[p], p, relay)
            BY <1>5, <2>4, <3>1, CollateAdds
        <3>3. ChainInv' /\ CandidatesInv' /\ RelayInv' /\ Len(blocks') = Len(blocks) + 1
            BY <2>1, <3>1, <3>2, CandidatesGrow
        <3>4. /\ b \in 1 .. Len(blocks') /\ 1 .. Len(blocks) \subseteq 1 .. Len(blocks')
            BY <1>1, <3>1, <3>3
        <3>5. CollatorsInv'
            BY <1>0, <2>1, <2>2, <3>2, <3>4 DEF CollatorsInv
        <3> QED  BY <3>3, <3>5 DEF ParachainInv
    <2> QED  BY <2>3, <2>4
<1>6. ASSUME NEW c \in Collator, NEW b \in 1 .. Len(blocks), Import(c, b) PROVE ParachainInv'
    <2>1. /\ known' = [known EXCEPT ![c] = known[c] \cup {b}]
          /\ UNCHANGED <<heads, blocks, collated, candidates, backed, other>>
        BY <1>6, Zenon DEF Import
    <2>2. CollatorsInv'
        BY <1>0, <2>1 DEF CollatorsInv
    <2>3. ChainInv' /\ CandidatesInv' /\ RelayInv'
        BY <1>2, <1>3, <2>1
    <2> QED  BY <2>2, <2>3 DEF ParachainInv
<1>7. CASE CollateOther
    <2>1. PICK p, b : p = heads[relay] /\ b = Len(blocks) + 1
        BY Zenon
    <2>2. PICK body \in OtherBodies(p) :
              /\ blocks' = Append(blocks, NewBlock(p, body))
              /\ candidates' = candidates \cup {Candidate(b, NewBlock(p, body))}
        BY <1>7, <2>1, Zenon DEF CollateOther
    <2>3. /\ other' = other \cup {b} /\ heads' = heads /\ backed' = backed
          /\ known' = known /\ collated' = collated
        BY <1>7, <2>1 DEF CollateOther
    <2>4. BodyOK(body, blocks[p].live, blocks[p].number + 1)
        BY <1>0, OtherBodiesOK DEF RelayInv
    <2>5. ChainInv' /\ CandidatesInv' /\ RelayInv' /\ Len(blocks') = Len(blocks) + 1
        BY <2>1, <2>2, <2>3, <2>4, CandidatesGrow
    <2>6. b \in 1 .. Len(blocks') /\ 1 .. Len(blocks) \subseteq 1 .. Len(blocks')
        BY <1>1, <2>1, <2>5
    <2>7. CollatorsInv'
        BY <1>0, <2>3, <2>6 DEF CollatorsInv
    <2> QED  BY <2>5, <2>7 DEF ParachainInv
<1>8. ASSUME NEW c \in candidates, Validate(c) PROVE ParachainInv'
    <2>1. CandidatesInv' /\ RelayInv'
        BY <1>8, ValidateStep
    <2>2. ChainInv' /\ CollatorsInv'
        BY <1>0, <1>2, <1>8 DEF Validate, CollatorsInv
    <2> QED  BY <2>1, <2>2 DEF ParachainInv
<1>9. CASE UNCHANGED vars
    <2>1. ChainInv' /\ CandidatesInv' /\ RelayInv'
        BY <1>2, <1>3, <1>9 DEF vars
    <2>2. CollatorsInv'
        BY <1>0, <1>9 DEF vars, CollatorsInv
    <2> QED  BY <2>1, <2>2 DEF ParachainInv
<1> QED  BY <1>4, <1>5, <1>6, <1>7, <1>8, <1>9, Zenon DEF Next, Stop

LEMMA ParachainAlways == Spec => []ParachainInv
BY ParachainInit, ParachainStep, PTL DEF Spec

-----------------------------------------------------------------------------
(* The theorems.                                                           *)

\* The types of the parachain's state, for any number of collators and blocks:
\* heads and known blocks exist, parents come first, the relay parent number in
\* storage is one of the relay chain's, and one parachain info is live after every block.
THEOREM ParachainTypes == Spec => []TypeOK
<1>1. ParachainInv => TypeOK
    <2> SUFFICES ASSUME ParachainInv PROVE TypeOK
        OBVIOUS
    <2>1. ChainInv /\ CandidatesInv /\ RelayInv /\ CollatorsInv
        BY DEF ParachainInv
    <2>2. \A r \in 1 .. relay : heads[r] \in 1 .. Len(blocks)
        BY <2>1, HeadIsBlock
    <2>3. ASSUME NEW b \in 1 .. Len(blocks) PROVE blocks[b].parent \in 0 .. b - 1
        <3>1. CASE b = 1
            BY <2>1, <3>1 DEF ChainInv
        <3>2. CASE b \in 2 .. Len(blocks)
            <4>1. blocks[b].parent \in 1 .. b - 1
                BY <2>1, <3>2 DEF ChainInv
            <4> QED  BY <4>1
        <3>3. Len(blocks) \in Nat
            BY <2>1 DEF ChainInv, Listed
        <3> QED  BY <3>1, <3>2, <3>3
    <2>4. \A b \in 1 .. Len(blocks) : /\ blocks[b].stored \in NotStored .. MaxRelay + 1
                                      /\ \A tx \in blocks[b].live : Len(tx.outputs) = 1
        BY <2>1 DEF ChainInv, BlockOK, LiveOK
    <2>5. \A b \in 1 .. Len(blocks) : OneInfoLive(blocks[b].live)
        <3> SUFFICES ASSUME NEW b \in 1 .. Len(blocks) PROVE OneInfoLive(blocks[b].live)
            OBVIOUS
        <3>1. LiveOK(blocks[b].live, blocks[b].stored)
            BY <2>1 DEF ChainInv, BlockOK
        <3> QED  BY <3>1, Zenon DEF LiveOK, OneInfoLive
    <2>6. \A c \in Collator : known[c] \subseteq 1 .. Len(blocks) /\ collated[c] \in 0 .. MaxRelay
        BY <2>1 DEF CollatorsInv
    <2>7. backed \subseteq candidates /\ other \subseteq 1 .. Len(blocks)
        BY <2>1 DEF CandidatesInv, CollatorsInv
    <2> QED  BY <2>2, <2>3, <2>4, <2>5, <2>6, <2>7, Zenon DEF TypeOK
<1> QED  BY <1>1, ParachainAlways, PTL

\* RELAY_PARENT_NUMBER_KEY after a block that validate_block accepted: when the
\* block has one parachain inherent, the number stored by its check, and with it
\* the watermark, is the number of the relay parent, whoever authored the block.
THEOREM WatermarkAlwaysRelayParent == Spec => []WatermarkIsRelayParent
<1>1. ParachainInv => WatermarkIsRelayParent
    <2> SUFFICES ASSUME ParachainInv, NEW c \in backed,
                        Len(OfKind(blocks[c.block].extrinsics, "ParachainInfo")) = 1
                 PROVE  c.watermark = c.relay_parent
        BY DEF WatermarkIsRelayParent
    <2>1. ChainInv /\ CandidatesInv
        BY DEF ParachainInv
    <2>2. PICK B : B = blocks[c.block]
        BY Zenon
    <2>3. c.block \in 2 .. Len(blocks) /\ c.watermark = B.stored /\ Backed(B, c.relay_parent)
        BY <2>1, <2>2 DEF CandidatesInv
    <2>4. BlockOK(B) /\ Raises(B.extrinsics, blocks[B.parent].stored, B.stored)
        <3>1. c.block \in 1 .. Len(blocks)
            BY <2>3
        <3> QED  BY <2>1, <2>2, <2>3, <3>1 DEF ChainInv, Follows
    <2>5. OneInfo(B.extrinsics)
        BY <2>2, <2>4, InfosFound DEF BlockOK
    <2>6. PICK i \in 1 .. Len(B.extrinsics) :
              FoundData(B) = Deref(B.extrinsics[i]) /\ is_parachain(B.extrinsics[i])
        BY <2>3, <2>4, FoundIs DEF BlockOK, Backed
    <2>7. B.stored = Number(B.extrinsics[i])
        BY <2>4, <2>5, <2>6 DEF Raises
    <2> QED  BY <2>3, <2>6, <2>7 DEF Backed, Number
<1> QED  BY <1>1, ParachainAlways, PTL

\* The check of the parachain piece, which wants a higher relay parent number than
\* the evicted info has, makes the number in storage rise with every block that the
\* relay chain includes, whoever authored it and however many infos it has.
THEOREM StoredNumberAlwaysRises == Spec => []StoredNumberRises
<1>1. ParachainInv => StoredNumberRises
    <2> SUFFICES ASSUME ParachainInv, NEW r \in 1 .. relay, NEW B, B = blocks[heads[r]],
                        B.parent # 0
                 PROVE  B.stored > blocks[B.parent].stored
        BY DEF StoredNumberRises
    <2>1. ChainInv /\ CandidatesInv /\ RelayInv
        BY DEF ParachainInv
    <2>2. heads[r] # 1
        BY <2>1 DEF ChainInv
    <2>3. PICK c \in backed : heads[r] = c.block
        BY <2>1, <2>2 DEF RelayInv
    <2>4. c.block \in 2 .. Len(blocks) /\ Backed(B, c.relay_parent)
        BY <2>1, <2>3 DEF CandidatesInv
    <2>5. BlockOK(B) /\ Raises(B.extrinsics, blocks[B.parent].stored, B.stored)
        <3>1. c.block \in 1 .. Len(blocks)
            BY <2>4, FromTwo, Zenon
        <3> QED  BY <2>1, <2>3, <2>4, <3>1 DEF ChainInv, Follows
    <2>6. HasInfo(B.extrinsics)
        BY <2>4, <2>5, FoundIs DEF BlockOK, Backed, HasInfo
    <2> QED  BY <2>5, <2>6 DEF Raises
<1> QED  BY <1>1, ParachainAlways, PTL

Chains(f, n) == f = [a \in 0 .. n |-> IF a = 0 THEN {} ELSE {a} \cup f[blocks[a].parent]]

LEMMA ChainsExist ==
    ASSUME ChainInv, NEW n \in Nat, n <= Len(blocks)
    PROVE  \E f : Chains(f, n)
<1> DEFINE Step(f, a) == IF a = 0 THEN {} ELSE {a} \cup f[blocks[a].parent]
           T == {m \in Nat : m <= n => \E f : Chains(f, m)}
<1>0. ASSUME NEW a \in 1 .. n PROVE blocks[a].parent \in 0 .. a - 1
    <2>1. CASE a = 1
        BY <2>1 DEF ChainInv
    <2>2. CASE a # 1
        <3>1. a \in 2 .. Len(blocks)
            BY <2>2 DEF ChainInv, Listed
        <3>2. blocks[a].parent \in 1 .. a - 1
            BY <3>1 DEF ChainInv
        <3> QED  BY <3>2
    <2> QED  BY <2>1, <2>2
<1>1. 0 \in T
    <2>1. PICK f : f = [a \in 0 .. 0 |-> {}]
        BY Zenon
    <2>2. Chains(f, 0)
        BY <2>1 DEF Chains
    <2> QED  BY <2>2
<1>2. ASSUME NEW m \in Nat, m \in T PROVE m + 1 \in T
    <2> SUFFICES ASSUME m + 1 <= n PROVE \E f : Chains(f, m + 1)
        OBVIOUS
    <2>1. PICK f : Chains(f, m)
        BY <1>2
    <2>2. PICK g : g = [a \in 0 .. m + 1 |-> Step(f, a)]
        BY Zenon
    <2>3. \A a \in 0 .. m : f[a] = Step(f, a)
        <3>1. f = [a \in 0 .. m |-> Step(f, a)]
            BY <2>1 DEF Chains
        <3> HIDE DEF Step
        <3> QED  BY <3>1
    <2>4. \A a \in 0 .. m : g[a] = f[a]
        <3> HIDE DEF Step
        <3> QED  BY <2>2, <2>3
    <2>5. ASSUME NEW a \in 0 .. m + 1 PROVE Step(g, a) = Step(f, a)
        <3>1. CASE a = 0
            BY <3>1
        <3>2. CASE a # 0
            <4>1. a \in 1 .. n
                BY <3>2
            <4>2. PICK q : q = blocks[a].parent /\ q \in 0 .. a - 1
                BY <1>0, <4>1
            <4>3. q \in 0 .. m
                BY <4>2
            <4> QED  BY <2>4, <4>2, <4>3
        <3> QED  BY <3>1, <3>2
    <2>6. g = [a \in 0 .. m + 1 |-> Step(g, a)]
        <3> HIDE DEF Step
        <3> QED  BY <2>2, <2>5
    <2>7. Chains(g, m + 1)
        BY <2>6 DEF Chains
    <2> QED  BY <2>7
<1>3. Nat \subseteq T
    <2> HIDE DEF T
    <2> QED  BY <1>1, <1>2, NumbersByInduction
<1> QED  BY <1>3

LEMMA ChainHasBlock ==
    ASSUME ChainInv, NEW b \in 1 .. Len(blocks)
    PROVE  b \in Chain(b)
<1>1. b \in Nat /\ b <= Len(blocks) /\ b # 0 /\ b \in 0 .. b
    OBVIOUS
<1>2. PICK f : f = CHOOSE g : Chains(g, b)
    BY Zenon
<1>3. Chains(f, b)
    BY <1>1, <1>2, ChainsExist
<1>4. Chain(b) = f[b]
    BY <1>2 DEF Chain, Chains
<1> DEFINE Step(a) == IF a = 0 THEN {} ELSE {a} \cup f[blocks[a].parent]
<1>5. f[b] = Step(b)
    <2>1. f = [a \in 0 .. b |-> Step(a)]
        BY <1>3 DEF Chains
    <2> HIDE DEF Step
    <2> QED  BY <1>1, <2>1
<1> QED  BY <1>1, <1>4, <1>5

\* What collate_block hands to the relay chain: a candidate that a collator has
\* authored on a chain of ours passes validate_block for the relay parent it was
\* authored on, and the watermark that collect_collation_info read from storage is
\* the one that the validators get.
THEOREM CollationsAlwaysValidate == Spec => []CollationsValidate
<1>1. ParachainInv => CollationsValidate
    <2> SUFFICES ASSUME ParachainInv, NEW c \in candidates, Ours(c.block)
                 PROVE  /\ ValidateBlock(blocks[c.block], heads[c.relay_parent], c.relay_parent)
                        /\ ResultWatermark(blocks[c.block]) = c.watermark
        BY DEF CollationsValidate
    <2>1. ChainInv /\ CandidatesInv
        BY DEF ParachainInv
    <2>2. /\ c.block \in 2 .. Len(blocks) /\ c.watermark = blocks[c.block].stored
          /\ c.block \notin other =>
                 Validated(blocks[c.block], blocks[blocks[c.block].parent],
                           heads[c.relay_parent], c.relay_parent)
        BY <2>1 DEF CandidatesInv
    <2>3. c.block \in Chain(c.block)
        <3>1. c.block \in 1 .. Len(blocks)
            BY <2>2
        <3> QED  BY <2>1, <3>1, ChainHasBlock
    <2>4. c.block \notin other
        BY <2>3 DEF Ours
    <2>5. ValidateBlock(blocks[c.block], heads[c.relay_parent], c.relay_parent)
        BY <2>2, <2>4 DEF Validated, ValidateBlock
    <2>6. Follows(blocks[c.block], blocks[blocks[c.block].parent])
        BY <2>1, <2>2 DEF ChainInv
    <2>7. ResultWatermark(blocks[c.block]) = blocks[c.block].stored
        BY <2>6 DEF Follows, ResultWatermark
    <2> QED  BY <2>2, <2>5, <2>7
<1> QED  BY <1>1, ParachainAlways, PTL
=============================================================================
