--------------------------- MODULE TimestampProofs ---------------------------
(***************************************************************************)
(* Proofs about Timestamp for every number of nodes, any clocks, any       *)
(* intervals and any number of blocks.                                     *)
(***************************************************************************)
EXTENDS Timestamp, WellFoundedInduction, TLAPS

-----------------------------------------------------------------------------
(* Induction over the numbers, stated with a set in place of the operator  *)
(* parameter of the library's theorem.                                     *)

\* A set of numbers that is not empty has a least one.
LEMMA LeastNumber ==
    ASSUME NEW T \in SUBSET Nat, T # {}
    PROVE  \E m \in T : \A k \in T : m <= k
<1>1. \E R : IsWellFoundedOn(R, Nat) /\ \A x, y \in Nat : <<x, y>> \in R <=> x < y
    <2> DEFINE R == OpToRel(<, Nat)
    <2>1. IsWellFoundedOn(R, Nat)
        BY NatLessThanWellFounded
    <2>2. \A x, y \in Nat : <<x, y>> \in R <=> x < y
        BY DEF OpToRel
    <2> HIDE DEF R
    <2> QED  BY <2>1, <2>2
<1>2. PICK R : IsWellFoundedOn(R, Nat) /\ \A x, y \in Nat : <<x, y>> \in R <=> x < y
    BY <1>1
<1>3. T \subseteq Nat /\ IsWellFoundedOn(R, Nat)
    BY <1>2
<1>4. PICK m \in T : \A y \in T : ~(<<y, m>> \in R)
    BY <1>3, WFMin, Zenon
<1>5. ASSUME NEW k \in T PROVE m <= k
    <2>1. ~(k < m) /\ k \in Nat /\ m \in Nat
        BY <1>2, <1>3, <1>4
    <2> QED  BY <2>1
<1> QED  BY <1>5

\* Induction over the numbers.
LEMMA NumbersByInduction ==
    ASSUME NEW T, 0 \in T, \A n \in Nat : n \in T => n + 1 \in T
    PROVE  Nat \subseteq T
<1> SUFFICES ASSUME NEW x \in Nat, x \notin T PROVE FALSE
    OBVIOUS
<1>1. PICK m \in Nat \ T : \A k \in Nat \ T : m <= k
    <2>1. Nat \ T \in SUBSET Nat /\ Nat \ T # {}
        OBVIOUS
    <2> QED  BY <2>1, LeastNumber
<1>2. m # 0 /\ m - 1 \in Nat
    BY <1>1
<1>3. m - 1 \in T
    BY <1>1, <1>2
<1> QED  BY <1>2, <1>3

-----------------------------------------------------------------------------
(* The recursive functions of the model have the values they say.          *)

Chooses(f, txs, kind, n) ==
    f = [i \in 0 .. n |->
            IF i = 0 THEN <<>>
            ELSE IF txs[i].kind = kind THEN Append(f[i - 1], txs[i]) ELSE f[i - 1]]

LEMMA ChoosesExist ==
    ASSUME NEW txs, NEW kind, NEW n \in Nat
    PROVE  \E f : Chooses(f, txs, kind, n)
<1> DEFINE Step(f, i) == IF i = 0 THEN <<>>
                         ELSE IF txs[i].kind = kind THEN Append(f[i - 1], txs[i]) ELSE f[i - 1]
           T == {m \in Nat : \E f : Chooses(f, txs, kind, m)}
<1>1. 0 \in T
    <2>1. PICK f : f = [i \in 0 .. 0 |-> <<>>]
        BY Zenon
    <2>2. Chooses(f, txs, kind, 0)
        BY <2>1 DEF Chooses
    <2> QED  BY <2>2
<1>2. ASSUME NEW m \in Nat, m \in T PROVE m + 1 \in T
    <2>1. PICK f : Chooses(f, txs, kind, m)
        BY <1>2
    <2>2. PICK g : g = [i \in 0 .. m + 1 |-> Step(f, i)]
        BY Zenon
    <2>3. \A i \in 0 .. m : f[i] = Step(f, i)
        <3>1. f = [i \in 0 .. m |-> Step(f, i)]
            BY <2>1, Zenon DEF Chooses
        <3> HIDE DEF Step
        <3> QED  BY <3>1
    <2>4. \A i \in 0 .. m : g[i] = f[i]
        <3> HIDE DEF Step
        <3> QED  BY <2>2, <2>3
    <2>5. ASSUME NEW i \in 0 .. m + 1 PROVE Step(g, i) = Step(f, i)
        <3>1. i = 0 \/ i - 1 \in 0 .. m
            OBVIOUS
        <3> QED  BY <2>4, <3>1
    <2>6. g = [i \in 0 .. m + 1 |-> Step(g, i)]
        <3> HIDE DEF Step
        <3> QED  BY <2>2, <2>5
    <2>7. Chooses(g, txs, kind, m + 1)
        BY <2>6, Zenon DEF Chooses
    <2> QED  BY <2>7
<1>3. Nat \subseteq T
    <2> HIDE DEF T
    <2> QED  BY <1>1, <1>2, NumbersByInduction
<1> QED  BY <1>3

Lives(f, extrinsics, live, n) ==
    f = [i \in 0 .. n |-> IF i = 0 THEN live ELSE Apply(extrinsics[i], f[i - 1])]

LEMMA LivesExist ==
    ASSUME NEW extrinsics, NEW live, NEW n \in Nat
    PROVE  \E f : Lives(f, extrinsics, live, n)
<1> DEFINE Step(f, i) == IF i = 0 THEN live ELSE Apply(extrinsics[i], f[i - 1])
           T == {m \in Nat : \E f : Lives(f, extrinsics, live, m)}
<1>1. 0 \in T
    <2>1. PICK f : f = [i \in 0 .. 0 |-> live]
        BY Zenon
    <2>2. Lives(f, extrinsics, live, 0)
        BY <2>1 DEF Lives
    <2> QED  BY <2>2
<1>2. ASSUME NEW m \in Nat, m \in T PROVE m + 1 \in T
    <2>1. PICK f : Lives(f, extrinsics, live, m)
        BY <1>2
    <2>2. PICK g : g = [i \in 0 .. m + 1 |-> Step(f, i)]
        BY Zenon
    <2>3. \A i \in 0 .. m : f[i] = Step(f, i)
        <3>1. f = [i \in 0 .. m |-> Step(f, i)]
            BY <2>1 DEF Lives
        <3> HIDE DEF Step
        <3> QED  BY <3>1
    <2>4. \A i \in 0 .. m : g[i] = f[i]
        <3> HIDE DEF Step
        <3> QED  BY <2>2, <2>3
    <2>5. ASSUME NEW i \in 0 .. m + 1 PROVE Step(g, i) = Step(f, i)
        <3>1. i = 0 \/ i - 1 \in 0 .. m
            OBVIOUS
        <3> QED  BY <2>4, <3>1
    <2>6. g = [i \in 0 .. m + 1 |-> Step(g, i)]
        <3> HIDE DEF Step
        <3> QED  BY <2>2, <2>5
    <2>7. Lives(g, extrinsics, live, m + 1)
        BY <2>6 DEF Lives
    <2> QED  BY <2>7
<1>3. Nat \subseteq T
    <2> HIDE DEF T
    <2> QED  BY <1>1, <1>2, NumbersByInduction
<1> QED  BY <1>3

\* LiveAfter applies the extrinsics one after the other.
LEMMA LiveAfterIs ==
    ASSUME NEW extrinsics, NEW live, NEW n \in Nat, Len(extrinsics) = n
    PROVE  /\ LiveAfter(extrinsics, live)[0] = live
           /\ \A i \in 1 .. n : LiveAfter(extrinsics, live)[i]
                                    = Apply(extrinsics[i], LiveAfter(extrinsics, live)[i - 1])
<1>1. PICK f : f = LiveAfter(extrinsics, live)
    BY Zenon
<1>2. f = CHOOSE g : Lives(g, extrinsics, live, n)
    BY <1>1 DEF LiveAfter, Lives
<1>3. Lives(f, extrinsics, live, n)
    BY <1>2, LivesExist
<1> DEFINE Step(i) == IF i = 0 THEN live ELSE Apply(extrinsics[i], f[i - 1])
<1>4. f = [i \in 0 .. n |-> Step(i)]
    BY <1>3 DEF Lives
<1>5. \A i \in 0 .. n : f[i] = Step(i)
    <2> HIDE DEF Step
    <2> QED  BY <1>4
<1> QED  BY <1>1, <1>5

\* r has the transactions of the kind among the first n, each of them once.
Selects(r, txs, kind, n, T) ==
    /\ r \in Seq(T)
    /\ \A m \in 1 .. Len(r) : \E i \in 1 .. n : r[m] = txs[i] /\ txs[i].kind = kind
    /\ \A i \in 1 .. n : txs[i].kind = kind => \E m \in 1 .. Len(r) : r[m] = txs[i]
    /\ Len(r) <= 1 <=> \A i, j \in 1 .. n : txs[i].kind = kind /\ txs[j].kind = kind => i = j

LEMMA SelectsMore ==
    ASSUME NEW T, NEW txs \in Seq(T), NEW kind, NEW n \in Nat, n + 1 \in 1 .. Len(txs),
           NEW r, Selects(r, txs, kind, n, T)
    PROVE  Selects(IF txs[n + 1].kind = kind THEN Append(r, txs[n + 1]) ELSE r, txs, kind, n + 1, T)
<1>1. r \in Seq(T) /\ txs[n + 1] \in T
    BY DEF Selects
<1>2. \A i \in 1 .. n + 1 : i \in 1 .. n \/ i = n + 1
    OBVIOUS
<1>3. \A i \in 1 .. n : i \in 1 .. n + 1
    OBVIOUS
<1>4. CASE txs[n + 1].kind # kind
    BY <1>2, <1>3, <1>4 DEF Selects
<1>5. CASE txs[n + 1].kind = kind
    <2>1. PICK s : s = Append(r, txs[n + 1])
        BY Zenon
    <2>2. /\ s \in Seq(T) /\ Len(s) = Len(r) + 1 /\ s[Len(r) + 1] = txs[n + 1]
          /\ \A m \in 1 .. Len(r) : s[m] = r[m]
        BY <1>1, <2>1
    <2>3. \A m \in 1 .. Len(s) : m \in 1 .. Len(r) \/ m = Len(r) + 1
        BY <1>1, <2>2
    <2>4. \A m \in 1 .. Len(s) : \E i \in 1 .. n + 1 : s[m] = txs[i] /\ txs[i].kind = kind
        <3> TAKE m \in 1 .. Len(s)
        <3>1. CASE m \in 1 .. Len(r)
            <4>1. PICK i \in 1 .. n : r[m] = txs[i] /\ txs[i].kind = kind
                BY <3>1 DEF Selects
            <4> QED  BY <1>3, <2>2, <3>1, <4>1
        <3>2. CASE m = Len(r) + 1
            BY <1>5, <2>2, <3>2
        <3> QED  BY <2>3, <3>1, <3>2
    <2>5. ASSUME NEW i \in 1 .. n + 1, txs[i].kind = kind PROVE \E m \in 1 .. Len(s) : s[m] = txs[i]
        <3>1. CASE i = n + 1
            BY <1>1, <2>2, <3>1
        <3>2. CASE i \in 1 .. n
            <4>1. PICK m \in 1 .. Len(r) : r[m] = txs[i]
                BY <2>5, <3>2 DEF Selects
            <4>2. m \in 1 .. Len(s) /\ s[m] = txs[i]
                BY <1>1, <2>2, <4>1
            <4> QED  BY <4>2
        <3> QED  BY <1>2, <3>1, <3>2
    <2>6. ASSUME Len(s) <= 1, NEW i \in 1 .. n, txs[i].kind = kind PROVE FALSE
        <3>1. Len(r) = 0
            BY <1>1, <2>2, <2>6
        <3> QED  BY <2>6, <3>1 DEF Selects
    <2>7. ASSUME \A i, j \in 1 .. n + 1 : txs[i].kind = kind /\ txs[j].kind = kind => i = j
          PROVE  Len(s) <= 1
        <3>1. \A i \in 1 .. n : txs[i].kind # kind
            <4> SUFFICES ASSUME NEW i \in 1 .. n, txs[i].kind = kind PROVE FALSE
                OBVIOUS
            <4>1. i \in 1 .. n + 1 /\ n + 1 \in 1 .. n + 1 /\ i # n + 1
                OBVIOUS
            <4> QED  BY <1>5, <2>7, <4>1
        <3>2. Len(r) = 0
            <4>1. \A m \in 1 .. Len(r) : FALSE
                BY <3>1 DEF Selects
            <4> QED  BY <1>1, <4>1
        <3> QED  BY <2>2, <3>2
    <2>8. Len(s) <= 1 <=> \A i, j \in 1 .. n + 1 : txs[i].kind = kind /\ txs[j].kind = kind => i = j
        BY <1>2, <2>6, <2>7
    <2>9. Selects(s, txs, kind, n + 1, T)
        BY <2>2, <2>4, <2>5, <2>8 DEF Selects
    <2> QED  BY <1>5, <2>1, <2>9
<1> QED  BY <1>4, <1>5

\* What OfKind selects.
LEMMA OfKindIs ==
    ASSUME NEW T, NEW txs \in Seq(T), NEW kind
    PROVE  Selects(OfKind(txs, kind), txs, kind, Len(txs), T)
<1>1. PICK n \in Nat : n = Len(txs)
    OBVIOUS
<1>2. PICK f : f = CHOOSE g : Chooses(g, txs, kind, n)
    BY Zenon
<1>3. Chooses(f, txs, kind, n)
    BY <1>2, ChoosesExist
<1>4. OfKind(txs, kind) = f[n]
    BY <1>1, <1>2 DEF OfKind, Chooses
<1> DEFINE Step(i) == IF i = 0 THEN <<>>
                      ELSE IF txs[i].kind = kind THEN Append(f[i - 1], txs[i]) ELSE f[i - 1]
<1>5. \A i \in 0 .. n : f[i] = Step(i)
    <2>1. f = [i \in 0 .. n |-> Step(i)]
        BY <1>3, Zenon DEF Chooses
    <2> HIDE DEF Step
    <2> QED  BY <2>1
<1> DEFINE U == {m \in Nat : m <= n => Selects(f[m], txs, kind, m, T)}
<1>6. 0 \in U
    <2>1. f[0] = <<>>
        BY <1>5
    <2>2. Selects(<<>>, txs, kind, 0, T)
        BY DEF Selects
    <2> QED  BY <2>1, <2>2
<1>7. ASSUME NEW m \in Nat, m \in U PROVE m + 1 \in U
    <2> SUFFICES ASSUME m + 1 <= n PROVE Selects(f[m + 1], txs, kind, m + 1, T)
        OBVIOUS
    <2>1. Selects(f[m], txs, kind, m, T)
        BY <1>7
    <2>2. f[m + 1] = IF txs[m + 1].kind = kind THEN Append(f[m], txs[m + 1]) ELSE f[m]
        BY <1>5
    <2>3. m + 1 \in 1 .. Len(txs)
        BY <1>1
    <2> QED  BY <2>1, <2>2, <2>3, SelectsMore
<1>8. Nat \subseteq U
    <2> HIDE DEF U
    <2> QED  BY <1>6, <1>7, NumbersByInduction
<1>9. Selects(f[n], txs, kind, n, T)
    BY <1>8
<1> QED  BY <1>1, <1>4, <1>9

\* The opening inherents are the first few extrinsics, up to the first that is none.
LEMMA OpeningIs ==
    ASSUME NEW T, NEW extrinsics \in Seq(T), NEW kinds
    PROVE  \E n \in 0 .. Len(extrinsics) :
               /\ OpeningInherents(extrinsics, kinds) = SubSeq(extrinsics, 1, n)
               /\ \A i \in 1 .. n : extrinsics[i].kind \in kinds
               /\ n < Len(extrinsics) => extrinsics[n + 1].kind \notin kinds
<1> DEFINE last == {n \in 0 .. Len(extrinsics) : \A i \in 1 .. n : extrinsics[i].kind \in kinds}
           Greatest(n) == n \in last /\ \A k \in last : k <= n
<1>1. PICK len \in Nat : len = Len(extrinsics)
    OBVIOUS
<1>2. \E n : Greatest(n)
    <2> DEFINE U == {m \in Nat : m <= len =>
                        \E n : n \in last /\ \A k \in last : k <= m => k <= n}
    <2>1. 0 \in U
        BY <1>1
    <2>2. ASSUME NEW m \in Nat, m \in U PROVE m + 1 \in U
        <3> SUFFICES ASSUME m + 1 <= len
                     PROVE  \E n : n \in last /\ \A k \in last : k <= m + 1 => k <= n
            OBVIOUS
        <3>1. PICK n : n \in last /\ \A k \in last : k <= m => k <= n
            BY <2>2
        <3>2. CASE m + 1 \in last
            BY <3>2
        <3>3. CASE m + 1 \notin last
            <4>1. ASSUME NEW k \in last, k <= m + 1 PROVE k <= n
                <5>1. k # m + 1 /\ k \in Nat
                    BY <3>3, <4>1
                <5>2. k <= m
                    BY <4>1, <5>1
                <5> QED  BY <3>1, <5>2
            <4> QED  BY <3>1, <4>1
        <3> QED  BY <3>2, <3>3
    <2>3. Nat \subseteq U
        <3> HIDE DEF U
        <3> QED  BY <2>1, <2>2, NumbersByInduction
    <2>4. PICK n : n \in last /\ \A k \in last : k <= len => k <= n
        <3>1. len \in U
            BY <2>3
        <3> HIDE DEF last
        <3> QED  BY <3>1
    <2>5. \A k \in last : k <= len
        BY <1>1
    <2> QED  BY <2>4, <2>5
<1>3. PICK n : n = CHOOSE m : Greatest(m)
    BY Zenon
<1>4. Greatest(n)
    BY <1>2, <1>3, Zenon
<1>5. OpeningInherents(extrinsics, kinds) = SubSeq(extrinsics, 1, n)
    BY <1>3, Zenon DEF OpeningInherents
<1>6. ASSUME n < Len(extrinsics) PROVE extrinsics[n + 1].kind \notin kinds
    <2>1. n + 1 \notin last
        BY <1>4
    <2>2. \A i \in 1 .. n + 1 : i \in 1 .. n \/ i = n + 1
        BY <1>4
    <2> QED  BY <1>1, <1>4, <1>6, <2>1, <2>2
<1> QED  BY <1>4, <1>5, <1>6

-----------------------------------------------------------------------------
(* The inductive invariant.                                                *)

Listed(s) == \E T : s \in Seq(T)

Stamped(tx) ==
    /\ tx.kind = "SetTimestamp" /\ Len(tx.outputs) = 1
    /\ Deref(tx).time \in Nat /\ Deref(tx).block \in Nat

Cleans(tx) == tx.kind = "CleanUpTimestamp" /\ tx.outputs = <<>>

\* At most one of the extrinsics is a timestamp, the first.
OneStamp(extrinsics) ==
    \A i \in 1 .. Len(extrinsics) : extrinsics[i].kind = "SetTimestamp" => i = 1

HasStamp(extrinsics) == \E i \in 1 .. Len(extrinsics) : extrinsics[i].kind = "SetTimestamp"

\* The timestamp of a block is live and carries its number; the live ones of this
\* number are the block's own.
BlockOK(B) ==
    /\ B.number \in Nat
    /\ Listed(B.extrinsics) /\ OneStamp(B.extrinsics)
    /\ \A i \in 1 .. Len(B.extrinsics) :
           \/ /\ Stamped(B.extrinsics[i]) /\ Deref(B.extrinsics[i]).block = B.number
              /\ B.extrinsics[i] \in B.live
           \/ Cleans(B.extrinsics[i])
    /\ \A tx \in B.live :
           /\ Stamped(tx) /\ Deref(tx).block <= B.number
           /\ Deref(tx).block = B.number => \E i \in 1 .. Len(B.extrinsics) : tx = B.extrinsics[i]

\* The time of a block is that of its parent and the minimum interval, or later.
Follows(B, P) ==
    /\ B.number = P.number + 1
    /\ P.number # 0 =>
           \A i \in 1 .. Len(B.extrinsics), j \in 1 .. Len(P.extrinsics) :
               B.extrinsics[i].kind = "SetTimestamp" /\ P.extrinsics[j].kind = "SetTimestamp"
               => Deref(B.extrinsics[i]).time >= Deref(P.extrinsics[j]).time + MINIMUM_TIME_INTERVAL

ChainInv ==
    /\ Listed(blocks) /\ Len(blocks) >= 1
    /\ blocks[1].parent = 0 /\ blocks[1].number = 0
    /\ \A b \in 1 .. Len(blocks) : BlockOK(blocks[b])
    /\ \A b \in 2 .. Len(blocks) :
           blocks[b].parent \in 1 .. b - 1 /\ Follows(blocks[b], blocks[blocks[b].parent])

NodesInv ==
    /\ now \in BLOCK_TIME .. MaxTime
    /\ known \in [Node -> SUBSET (1 .. Len(blocks))]
    /\ head \in [Node -> 1 .. Len(blocks)] /\ \A n \in Node : head[n] \in known[n]
    /\ slot \in [Node -> Nat] /\ panicked \in [Node -> BOOLEAN]
    /\ foreign \subseteq 1 .. Len(blocks)

TimestampInv == ChainInv /\ NodesInv

-----------------------------------------------------------------------------
(* A block of valid extrinsics on top of a block in order.                 *)

\* What a transaction of the piece looks like before it is validated.
Shaped(tx) ==
    \/ /\ tx.kind = "SetTimestamp"
       /\ \E old : tx.peeks = <<old>>
       /\ Len(tx.outputs) = 1 => Deref(tx).time \in Nat
    \/ tx.kind = "CleanUpTimestamp"

Executed(extrinsics, live, height) ==
    \A i \in 1 .. Len(extrinsics) :
        /\ Shaped(extrinsics[i])
        /\ Valid(extrinsics[i], LiveAfter(extrinsics, live)[i - 1], height)

\* What the live set holds after some of the extrinsics.
LiveOK(now_live, live, extrinsics, height, n) ==
    /\ \A tx \in now_live :
           \/ tx \in live
           \/ /\ Stamped(tx) /\ Deref(tx).block = height
              /\ \E i \in 1 .. n : tx = extrinsics[i]
    /\ \A i \in 1 .. n : extrinsics[i].kind = "SetTimestamp" => extrinsics[i] \in now_live

LEMMA LiveSteps ==
    ASSUME NEW height \in Nat, NEW live, NEW before, NEW extrinsics, NEW n \in Nat,
           \A tx \in live : Stamped(tx),
           LiveOK(before, live, extrinsics, height, n),
           \A i \in 1 .. n : extrinsics[i].kind = "SetTimestamp" =>
               Stamped(extrinsics[i]) /\ Deref(extrinsics[i]).block = height,
           NEW tx, tx = extrinsics[n + 1], Shaped(tx), Valid(tx, before, height)
    PROVE  /\ LiveOK(Apply(tx, before), live, extrinsics, height, n + 1)
           /\ tx.kind = "SetTimestamp" => Stamped(tx) /\ Deref(tx).block = height
           /\ tx.kind # "SetTimestamp" => Cleans(tx)
<1>1. \A i \in 1 .. n + 1 : i \in 1 .. n \/ i = n + 1
    OBVIOUS
<1>2. \A i \in 1 .. n : i \in 1 .. n + 1
    OBVIOUS
<1>3. CASE tx.kind = "SetTimestamp"
    <2>1. tx.evicted = {} /\ Len(tx.outputs) = 1 /\ tx.outputs[1].block = height
        BY <1>3 DEF Valid, InherentKinds, SetTimestampCheck
    <2>2. Stamped(tx) /\ Deref(tx).block = height
        BY <1>3, <2>1 DEF Stamped, Shaped, Deref
    <2>3. tx.outputs # <<>>
        BY <2>1
    <2>4. Apply(tx, before) = before \cup {tx}
        BY <2>1, <2>3 DEF Apply
    <2>5. LiveOK(before \cup {tx}, live, extrinsics, height, n + 1)
        BY <1>1, <1>2, <2>2 DEF LiveOK
    <2> QED  BY <1>3, <2>2, <2>4, <2>5
<1>4. CASE tx.kind = "CleanUpTimestamp"
    <2>1. /\ tx.outputs = <<>>
          /\ \A old \in tx.evicted : Deref(old).block + MIN_BLOCKS_BEFORE_CLEANUP < height
        BY <1>4 DEF Valid, InherentKinds, CleanUpTimestampCheck
    <2>2. Apply(tx, before) = before \ tx.evicted
        BY <2>1 DEF Apply
    <2>3. ASSUME NEW i \in 1 .. n, extrinsics[i].kind = "SetTimestamp"
          PROVE  extrinsics[i] \notin tx.evicted
        <3>1. Deref(extrinsics[i]).block = height
            BY <2>3
        <3> QED  BY <2>1, <3>1, TimestampPieceAssumption
    <2>4. LiveOK(before \ tx.evicted, live, extrinsics, height, n + 1)
        BY <1>1, <1>2, <1>4, <2>3 DEF LiveOK
    <2> QED  BY <1>4, <2>1, <2>2, <2>4 DEF Cleans
<1> QED  BY <1>3, <1>4 DEF Shaped

LEMMA BlockFits ==
    ASSUME NEW P, BlockOK(P), NEW extrinsics, Listed(extrinsics), OneStamp(extrinsics),
           NEW height, height = P.number + 1, Executed(extrinsics, P.live, height),
           NEW B, B.number = height, B.extrinsics = extrinsics,
           B.live = LiveAfter(extrinsics, P.live)[Len(extrinsics)]
    PROVE  BlockOK(B) /\ Follows(B, P)
<1>1. PICK n \in Nat : n = Len(extrinsics)
    BY DEF Listed
<1>2. PICK f : f = LiveAfter(extrinsics, P.live)
    BY Zenon
<1>3. f[0] = P.live /\ \A i \in 1 .. n : f[i] = Apply(extrinsics[i], f[i - 1])
    BY <1>1, <1>2, LiveAfterIs
<1>4. \A i \in 1 .. n : Shaped(extrinsics[i]) /\ Valid(extrinsics[i], f[i - 1], height)
    BY <1>1, <1>2 DEF Executed
<1>5. height \in Nat /\ P.number \in Nat /\ P.number < height /\ \A tx \in P.live : Stamped(tx)
    BY DEF BlockOK
<1> DEFINE Typed(m) == \A i \in 1 .. m :
               /\ extrinsics[i].kind = "SetTimestamp" =>
                      Stamped(extrinsics[i]) /\ Deref(extrinsics[i]).block = height
               /\ extrinsics[i].kind # "SetTimestamp" => Cleans(extrinsics[i])
           U == {m \in Nat : m <= n => LiveOK(f[m], P.live, extrinsics, height, m) /\ Typed(m)}
<1>6. 0 \in U
    BY <1>3 DEF LiveOK
<1>7. ASSUME NEW m \in Nat, m \in U PROVE m + 1 \in U
    <2> SUFFICES ASSUME m + 1 <= n
                 PROVE  LiveOK(f[m + 1], P.live, extrinsics, height, m + 1) /\ Typed(m + 1)
        OBVIOUS
    <2>1. LiveOK(f[m], P.live, extrinsics, height, m) /\ Typed(m)
        BY <1>7
    <2>2. PICK tx : tx = extrinsics[m + 1]
        BY Zenon
    <2>3. Shaped(tx) /\ Valid(tx, f[m], height) /\ f[m + 1] = Apply(tx, f[m])
        BY <1>3, <1>4, <2>2
    <2>4. /\ LiveOK(f[m + 1], P.live, extrinsics, height, m + 1)
          /\ tx.kind = "SetTimestamp" => Stamped(tx) /\ Deref(tx).block = height
          /\ tx.kind # "SetTimestamp" => Cleans(tx)
        <3>1. \A i \in 1 .. m : extrinsics[i].kind = "SetTimestamp" =>
                  Stamped(extrinsics[i]) /\ Deref(extrinsics[i]).block = height
            BY <2>1
        <3>2. /\ LiveOK(Apply(tx, f[m]), P.live, extrinsics, height, m + 1)
              /\ tx.kind = "SetTimestamp" => Stamped(tx) /\ Deref(tx).block = height
              /\ tx.kind # "SetTimestamp" => Cleans(tx)
            <4> HIDE DEF Typed
            <4> QED  BY <1>5, <2>1, <2>2, <2>3, <3>1, LiveSteps
        <3> QED  BY <2>3, <3>2
    <2>5. \A i \in 1 .. m + 1 : i \in 1 .. m \/ i = m + 1
        OBVIOUS
    <2>6. Typed(m + 1)
        BY <2>1, <2>2, <2>4, <2>5
    <2> QED  BY <2>4, <2>6
<1>8. Nat \subseteq U
    <2> HIDE DEF U
    <2> QED  BY <1>6, <1>7, NumbersByInduction
<1>9. \A m \in 0 .. n : LiveOK(f[m], P.live, extrinsics, height, m) /\ Typed(m)
    <2> HIDE DEF Typed
    <2> QED  BY <1>8
<1>10. LiveOK(B.live, P.live, extrinsics, height, n) /\ Typed(n)
    BY <1>1, <1>2, <1>9
<1>11. BlockOK(B)
    <2>1. \A i \in 1 .. n :
              \/ /\ Stamped(extrinsics[i]) /\ Deref(extrinsics[i]).block = height
                 /\ extrinsics[i] \in B.live
              \/ Cleans(extrinsics[i])
        BY <1>10 DEF LiveOK
    <2>2. ASSUME NEW tx \in B.live
          PROVE  /\ Stamped(tx) /\ Deref(tx).block <= height
                 /\ Deref(tx).block = height => \E i \in 1 .. n : tx = extrinsics[i]
        <3>1. CASE tx \in P.live
            <4>1. Stamped(tx) /\ Deref(tx).block <= P.number
                BY <3>1 DEF BlockOK
            <4>2. Deref(tx).block \in Nat
                BY <4>1 DEF Stamped
            <4> QED  BY <1>5, <4>1, <4>2
        <3>2. CASE tx \notin P.live
            BY <1>5, <1>10, <3>2 DEF LiveOK
        <3> QED  BY <3>1, <3>2
    <2> QED  BY <1>1, <1>5, <2>1, <2>2 DEF BlockOK
<1>12. ASSUME P.number # 0,
              NEW i \in 1 .. n, extrinsics[i].kind = "SetTimestamp",
              NEW j \in 1 .. Len(P.extrinsics), P.extrinsics[j].kind = "SetTimestamp"
       PROVE  Deref(extrinsics[i]).time >= Deref(P.extrinsics[j]).time + MINIMUM_TIME_INTERVAL
    <2>1. PICK tx, old : tx = extrinsics[i] /\ old = tx.peeks[1]
        BY Zenon
    <2>2. SetTimestampCheck(tx, height) /\ \A k \in 1 .. Len(tx.peeks) : tx.peeks[k] \in f[i - 1]
        BY <1>4, <1>12, <2>1 DEF Valid, InherentKinds
    <2>3. /\ tx.peeks # <<>> /\ Deref(tx).block = height
          /\ Deref(old).block = 0 \/ Deref(tx).time >= Deref(old).time + MINIMUM_TIME_INTERVAL
          /\ Deref(tx).block = Deref(old).block + 1
        BY <2>1, <2>2 DEF SetTimestampCheck, Deref
    <2>4. old \in f[i - 1]
        <3>1. 1 \in 1 .. Len(tx.peeks)
            BY <1>4, <1>12, <2>1 DEF Shaped
        <3> QED  BY <2>1, <2>2, <3>1
    <2>5. old \in P.live
        <3>1. i - 1 \in 0 .. n
            OBVIOUS
        <3>2. LiveOK(f[i - 1], P.live, extrinsics, height, i - 1)
            BY <1>9, <3>1
        <3>3. Deref(old).block # height
            BY <1>5, <2>3
        <3> QED  BY <2>4, <3>2, <3>3 DEF LiveOK
    <2>6. Deref(old).block \in Nat
        BY <1>5, <2>5 DEF Stamped
    <2>7. Deref(old).block = P.number
        BY <1>5, <2>3, <2>6
    <2>8. PICK k \in 1 .. Len(P.extrinsics) : old = P.extrinsics[k]
        BY <2>5, <2>7 DEF BlockOK
    <2>9. old.kind = "SetTimestamp"
        BY <1>5, <2>5 DEF Stamped
    <2>10. k = j
        BY <1>12, <2>8, <2>9 DEF BlockOK, OneStamp
    <2> QED  BY <1>12, <2>1, <2>3, <2>7, <2>8, <2>10
<1> QED  BY <1>1, <1>11, <1>12 DEF Follows

-----------------------------------------------------------------------------
(* The blocks that nodes author.                                           *)

Creates(f, leaves, previous, kinds, created, n) ==
    f = [i \in 0 .. n |->
            IF i = 0 THEN <<>>
            ELSE f[i - 1] \o (IF leaves[i] \in kinds THEN <<created[OfKind(previous, leaves[i])[1]]>>
                              ELSE SimpleCreate)]

\* One inherent is created, from the only one of the parent.
LEMMA CreatedIs ==
    ASSUME NEW previous, NEW created
    PROVE  CreateInherents(Leaves, previous, InherentKinds, created)
               = <<created[OfKind(previous, "SetTimestamp")[1]]>>
<1>1. PICK x : x = created[OfKind(previous, "SetTimestamp")[1]]
    BY Zenon
<1>2. /\ Len(Leaves) = 2 /\ Leaves[1] \in InherentKinds /\ Leaves[2] \notin InherentKinds
      /\ Leaves[1] = "SetTimestamp"
    BY DEF Leaves, InherentKinds
<1> DEFINE Leaf(i) == IF Leaves[i] \in InherentKinds THEN <<created[OfKind(previous, Leaves[i])[1]]>>
                      ELSE SimpleCreate
           Step(f, i) == IF i = 0 THEN <<>> ELSE f[i - 1] \o Leaf(i)
<1>3. Leaf(1) = <<x>> /\ Leaf(2) = <<>>
    BY <1>1, <1>2 DEF SimpleCreate
<1>4. PICK g : g = [i \in 0 .. 2 |-> IF i = 0 THEN <<>> ELSE <<x>>]
    BY Zenon
<1>5. \A i \in 0 .. 2 : g[i] = Step(g, i)
    <2>1. g[0] = <<>> /\ g[1] = <<x>> /\ g[2] = <<x>>
        BY <1>4
    <2>2. <<>> \o <<x>> = <<x>> /\ <<x>> \o <<>> = <<x>>
        OBVIOUS
    <2>3. Step(g, 1) = g[0] \o Leaf(1) /\ Step(g, 2) = g[1] \o Leaf(2) /\ Step(g, 0) = <<>>
        OBVIOUS
    <2>4. \A i \in 0 .. 2 : i = 0 \/ i = 1 \/ i = 2
        OBVIOUS
    <2> HIDE DEF Step, Leaf
    <2> QED  BY <1>3, <2>1, <2>2, <2>3, <2>4
<1>6. g = [i \in 0 .. 2 |-> Step(g, i)]
    <2>1. g = [i \in 0 .. 2 |-> g[i]]
        BY <1>4
    <2> HIDE DEF Step
    <2> QED  BY <1>5, <2>1
<1>7. Creates(g, Leaves, previous, InherentKinds, created, 2)
    BY <1>6, Zenon DEF Creates
<1>8. PICK f : f = CHOOSE h : Creates(h, Leaves, previous, InherentKinds, created, 2)
    BY Zenon
<1>9. Creates(f, Leaves, previous, InherentKinds, created, 2)
    BY <1>7, <1>8
<1>10. f = [i \in 0 .. 2 |-> Step(f, i)]
    BY <1>9, Zenon DEF Creates
<1>11. f[0] = Step(f, 0) /\ f[1] = Step(f, 1) /\ f[2] = Step(f, 2)
    <2> HIDE DEF Step
    <2> QED  BY <1>10
<1>12. f[0] = <<>> /\ f[1] = f[0] \o Leaf(1) /\ f[2] = f[1] \o Leaf(2)
    <2>1. Step(f, 1) = f[0] \o Leaf(1) /\ Step(f, 2) = f[1] \o Leaf(2) /\ Step(f, 0) = <<>>
        OBVIOUS
    <2> HIDE DEF Step, Leaf
    <2> QED  BY <1>11, <2>1
<1>13. f[2] = <<x>>
    <2> HIDE DEF Leaf
    <2>1. f[1] = <<x>>
        BY <1>3, <1>12
    <2>2. <<x>> \o <<>> = <<x>>
        OBVIOUS
    <2>3. f[2] = <<x>> \o <<>>
        BY <1>3, <1>12, <2>1, Zenon
    <2> QED  BY <2>2, <2>3
<1>14. CreateInherents(Leaves, previous, InherentKinds, created) = f[2]
    BY <1>2, <1>8 DEF CreateInherents, Creates
<1> QED  BY <1>1, <1>13, <1>14

Pushes(f, created, live, height, n) ==
    f = [i \in 0 .. n |->
            IF i = 0 THEN <<>>
            ELSE IF Valid(created[i], LiveAfter(f[i - 1], live)[Len(f[i - 1])], height)
                 THEN Append(f[i - 1], created[i]) ELSE f[i - 1]]

\* An inherent that is not valid is dropped.
LEMMA PushIs ==
    ASSUME NEW x, NEW live, NEW height
    PROVE  Push(<<x>>, live, height) = IF Valid(x, live, height) THEN <<x>> ELSE <<>>
<1> DEFINE Step(f, i) == IF i = 0 THEN <<>>
                         ELSE IF Valid(<<x>>[i], LiveAfter(f[i - 1], live)[Len(f[i - 1])], height)
                              THEN Append(f[i - 1], <<x>>[i]) ELSE f[i - 1]
<1>1. PICK y : y = IF Valid(x, live, height) THEN <<x>> ELSE <<>>
    BY Zenon
<1>2. PICK g : g = [i \in 0 .. 1 |-> IF i = 0 THEN <<>> ELSE y]
    BY Zenon
<1>3. LiveAfter(<<>>, live)[Len(<<>>)] = live
    <2>1. Len(<<>>) = 0
        OBVIOUS
    <2> QED  BY <2>1, LiveAfterIs
<1>4. ASSUME NEW f, f[0] = <<>> PROVE Step(f, 0) = <<>> /\ Step(f, 1) = y
    <2>1. <<x>>[1] = x /\ Append(<<>>, x) = <<x>>
        OBVIOUS
    <2>2. Step(f, 1) = IF Valid(x, LiveAfter(f[0], live)[Len(f[0])], height)
                       THEN Append(f[0], x) ELSE f[0]
        BY <2>1
    <2>3. Step(f, 1) = y
        <3> HIDE DEF Step
        <3> QED  BY <1>1, <1>3, <1>4, <2>1, <2>2, Zenon
    <2> QED  BY <2>3
<1>5. g[0] = <<>> /\ g[1] = y /\ g = [i \in 0 .. 1 |-> g[i]]
    BY <1>2
<1>6. \A i \in 0 .. 1 : g[i] = Step(g, i)
    <2>1. \A i \in 0 .. 1 : i = 0 \/ i = 1
        OBVIOUS
    <2> HIDE DEF Step
    <2> QED  BY <1>4, <1>5, <2>1
<1>7. g = [i \in 0 .. 1 |-> Step(g, i)]
    <2> HIDE DEF Step
    <2> QED  BY <1>5, <1>6
<1>8. Pushes(g, <<x>>, live, height, 1)
    BY <1>7, Zenon DEF Pushes
<1>9. PICK f : f = CHOOSE h : Pushes(h, <<x>>, live, height, 1)
    BY Zenon
<1>10. Pushes(f, <<x>>, live, height, 1)
    BY <1>8, <1>9
<1>11. f = [i \in 0 .. 1 |-> Step(f, i)]
    BY <1>10, Zenon DEF Pushes
<1>12. f[0] = Step(f, 0) /\ f[1] = Step(f, 1)
    <2> HIDE DEF Step
    <2> QED  BY <1>11
<1>13. f[0] = <<>>
    BY <1>12
<1>14. f[1] = y
    <2> HIDE DEF Step
    <2> QED  BY <1>4, <1>12, <1>13
<1>15. Push(<<x>>, live, height) = f[1]
    <2>1. Len(<<x>>) = 1
        OBVIOUS
    <2> QED  BY <1>9, <2>1 DEF Push, Pushes
<1> QED  BY <1>1, <1>14, <1>15

BodyOK(body, live, height) ==
    Listed(body) /\ OneStamp(body) /\ Executed(body, live, height)

LEMMA ShortLists ==
    ASSUME NEW x, NEW c
    PROVE  /\ Append(<<>>, c) = <<c>>
           /\ Listed(<<>>) /\ Listed(<<x>>) /\ Listed(Append(<<x>>, c))
           /\ Len(<<x>>) = 1 /\ <<x>>[1] = x
           /\ Len(Append(<<x>>, c)) = 2 /\ Append(<<x>>, c)[1] = x /\ Append(<<x>>, c)[2] = c
<1>1. <<>> \in Seq({x}) /\ <<x>> \in Seq({x}) /\ <<x>> \in Seq({x, c})
    OBVIOUS
<1>2. PICK s : s = Append(<<x>>, c)
    BY Zenon
<1>3. s \in Seq({x, c}) /\ Len(s) = 2 /\ s[1] = x /\ s[2] = c
    BY <1>1, <1>2
<1>4. Listed(<<>>) /\ Listed(<<x>>) /\ Listed(s)
    BY <1>1, <1>3, Zenon DEF Listed
<1>5. Append(<<>>, c) = <<c>> /\ Len(<<x>>) = 1 /\ <<x>>[1] = x
    OBVIOUS
<1> QED  BY <1>2, <1>3, <1>4, <1>5, Zenon

LEMMA LiveFirst ==
    ASSUME NEW extrinsics, NEW live, NEW n \in Nat \ {0}, Len(extrinsics) = n
    PROVE  LiveAfter(extrinsics, live)[1] = Apply(extrinsics[1], live)
<1>1. PICK f : f = LiveAfter(extrinsics, live)
    BY Zenon
<1>2. f[0] = live /\ \A i \in 1 .. n : f[i] = Apply(extrinsics[i], f[i - 1])
    BY <1>1, LiveAfterIs, SMTT(30)
<1>3. 1 \in 1 .. n /\ 1 - 1 = 0
    OBVIOUS
<1>4. f[1] = Apply(extrinsics[1], f[1 - 1])
    BY <1>2, <1>3
<1> QED  BY <1>1, <1>2, <1>3, <1>4

\* The inherent of an author, if valid, and then possibly a clean up.
LEMMA AuthoredBody ==
    ASSUME NEW live, NEW height, NEW x, Shaped(x), x.kind = "SetTimestamp",
           NEW pushed, pushed = Push(<<x>>, live, height),
           NEW body,
           \/ body = pushed
           \/ \E c : /\ c.kind = "CleanUpTimestamp" /\ body = Append(pushed, c)
                     /\ Valid(c, LiveAfter(pushed, live)[Len(pushed)], height)
    PROVE  BodyOK(body, live, height)
<1>1. pushed = <<>> \/ (pushed = <<x>> /\ Valid(x, live, height))
    BY PushIs
<1>2. LiveAfter(<<>>, live)[0] = live /\ Len(<<>>) = 0
    BY LiveAfterIs
<1>3. ASSUME NEW s, Len(s) \in Nat PROVE LiveAfter(s, live)[0] = live
    BY <1>3, LiveAfterIs
<1>4. CASE body = <<>>
    BY <1>4 DEF BodyOK, Listed, OneStamp, Executed
<1>5. CASE body = <<x>> /\ Valid(x, live, height)
    <2>1. Listed(body) /\ Len(body) = 1 /\ body[1] = x /\ \A i \in 1 .. 1 : i = 1
        <3>1. \A i \in 1 .. 1 : i = 1
            OBVIOUS
        <3> QED  BY <1>5, <3>1, ShortLists, Zenon
    <2>2. LiveAfter(body, live)[1 - 1] = live
        BY <1>3, <2>1
    <2>3. OneStamp(body)
        BY <2>1 DEF OneStamp
    <2>4. Executed(body, live, height)
        BY <1>5, <2>1, <2>2 DEF Executed
    <2> QED  BY <2>1, <2>3, <2>4 DEF BodyOK
<1>6. CASE pushed = <<>> /\ body # pushed
    <2>1. PICK c : /\ c.kind = "CleanUpTimestamp" /\ body = Append(<<>>, c)
                   /\ Valid(c, live, height)
        BY <1>2, <1>6, Zenon
    <2>2. Listed(body) /\ Len(body) = 1 /\ body[1] = c /\ \A i \in 1 .. 1 : i = 1
        <3>1. \A i \in 1 .. 1 : i = 1
            OBVIOUS
        <3>2. body = <<c>>
            BY <2>1, ShortLists, Zenon
        <3> QED  BY <3>1, <3>2, ShortLists, Zenon
    <2>3. LiveAfter(body, live)[1 - 1] = live
        BY <1>3, <2>2
    <2>4. OneStamp(body)
        BY <2>2 DEF OneStamp
    <2>5. Executed(body, live, height)
        BY <2>1, <2>2, <2>3 DEF Executed, Shaped
    <2> QED  BY <2>2, <2>4, <2>5 DEF BodyOK
<1>7. CASE pushed = <<x>> /\ Valid(x, live, height) /\ body # pushed
    <2>1. PICK c : /\ c.kind = "CleanUpTimestamp" /\ body = Append(<<x>>, c)
                   /\ Valid(c, LiveAfter(<<x>>, live)[1], height)
        BY <1>7, Zenon
    <2>2. /\ Listed(body) /\ Len(body) = 2 /\ body[1] = x /\ body[2] = c
          /\ \A i \in 1 .. 2 : i = 1 \/ i = 2
        <3>1. \A i \in 1 .. 2 : i = 1 \/ i = 2
            OBVIOUS
        <3>2. PICK s : s = Append(<<x>>, c)
            BY Zenon
        <3>3. Listed(s) /\ Len(s) = 2 /\ s[1] = x /\ s[2] = c
            BY <3>2, ShortLists
        <3> QED  BY <2>1, <3>1, <3>2, <3>3, Zenon
    <2>3. LiveAfter(<<x>>, live)[1] = Apply(x, live)
        <3>1. PICK s : s = <<x>>
            BY Zenon
        <3>2. Len(s) = 1 /\ s[1] = x
            BY <3>1, ShortLists, Zenon
        <3>3. LiveAfter(s, live)[1] = Apply(s[1], live)
            <4>1. 1 \in Nat \ {0}
                OBVIOUS
            <4> QED  BY <3>2, <4>1, LiveFirst, Zenon
        <3> QED  BY <3>1, <3>2, <3>3, Zenon
    <2>4. LiveAfter(body, live)[1 - 1] = live /\ LiveAfter(body, live)[2 - 1] = Apply(x, live)
        <3>1. LiveAfter(body, live)[0] = live
            BY <1>3, <2>2
        <3>2. LiveAfter(body, live)[1] = Apply(body[1], live)
            <4>1. 2 \in Nat \ {0}
                OBVIOUS
            <4> QED  BY <2>2, <4>1, LiveFirst, Zenon
        <3> QED  BY <2>2, <3>1, <3>2
    <2>5. OneStamp(body)
        BY <2>1, <2>2 DEF OneStamp
    <2>6. Executed(body, live, height)
        BY <1>7, <2>1, <2>2, <2>3, <2>4 DEF Executed, Shaped
    <2> QED  BY <2>2, <2>5, <2>6 DEF BodyOK
<1> QED  BY <1>1, <1>4, <1>5, <1>6, <1>7

\* What check_inherents and execute_block let pass has exactly one timestamp.
LEMMA AcceptedOnce ==
    ASSUME NEW T, NEW extrinsics \in Seq(T), NEW passed, NEW live, NEW height,
           CheckInherents(Leaves, OpeningInherents(extrinsics, InherentKinds), InherentKinds, passed),
           Executes(extrinsics, live, height)
    PROVE  OneStamp(extrinsics) /\ HasStamp(extrinsics)
<1>1. PICK n \in 0 .. Len(extrinsics) :
          /\ OpeningInherents(extrinsics, InherentKinds) = SubSeq(extrinsics, 1, n)
          /\ \A i \in 1 .. n : extrinsics[i].kind \in InherentKinds
          /\ n < Len(extrinsics) => extrinsics[n + 1].kind \notin InherentKinds
    BY OpeningIs
<1>2. PICK s : s = SubSeq(extrinsics, 1, n)
    BY Zenon
<1>3. s \in Seq(T) /\ Len(s) = n /\ \A i \in 1 .. n : s[i] = extrinsics[i]
    BY <1>2
<1>4. Len(OfKind(s, "SetTimestamp")) = 1
    <2>1. Len(Leaves) = 2 /\ Leaves[1] = "SetTimestamp" /\ "SetTimestamp" \in InherentKinds
        BY DEF Leaves, InherentKinds
    <2> QED  BY <1>1, <1>2, <2>1 DEF CheckInherents, LeafCheck
<1>4a. PICK r : r = OfKind(s, "SetTimestamp")
    BY Zenon
<1>4b. Selects(r, s, "SetTimestamp", n, T) /\ Len(r) = 1 /\ Len(r) <= 1 /\ 1 \in 1 .. Len(r)
    <2>1. Len(r) = 1 /\ Selects(r, s, "SetTimestamp", n, T)
        BY <1>3, <1>4, <1>4a, OfKindIs
    <2> QED  BY <2>1
<1>5. \A i, j \in 1 .. n : s[i].kind = "SetTimestamp" /\ s[j].kind = "SetTimestamp" => i = j
    BY <1>4b DEF Selects
<1>6. ASSUME NEW j \in 1 .. Len(extrinsics), extrinsics[j].kind = "SetTimestamp"
      PROVE  j \in 1 .. n
    <2> SUFFICES ASSUME j > n PROVE FALSE
        OBVIOUS
    <2>1. n + 1 \in 1 .. Len(extrinsics) /\ extrinsics[n + 1].kind \notin InherentKinds
        BY <1>1
    <2>2. extrinsics[j].kind \in InherentKinds
        BY <1>6 DEF InherentKinds
    <2>3. n + 1 < j
        BY <2>1, <2>2
    <2> QED  BY <2>1, <2>2, <2>3 DEF Executes, InherentsComeFirst
<1>7. \E i \in 1 .. n : extrinsics[i].kind = "SetTimestamp"
    <2>1. PICK i \in 1 .. n : r[1] = s[i] /\ s[i].kind = "SetTimestamp"
        BY <1>4b DEF Selects
    <2> QED  BY <1>3, <2>1
<1>8. OneStamp(extrinsics)
    <2> SUFFICES ASSUME NEW j \in 1 .. Len(extrinsics), extrinsics[j].kind = "SetTimestamp"
                 PROVE  j = 1
        BY DEF OneStamp
    <2>1. j \in 1 .. n /\ 1 \in 1 .. n
        BY <1>6
    <2>2. extrinsics[1].kind = "SetTimestamp"
        BY <1>1, <2>1 DEF InherentKinds
    <2> QED  BY <1>3, <1>5, <2>1, <2>2
<1> QED  BY <1>1, <1>7, <1>8 DEF HasStamp

-----------------------------------------------------------------------------
(* The steps.                                                              *)

LEMMA ChainGrows ==
    ASSUME ChainInv, NEW p \in 1 .. Len(blocks), NEW body,
           BodyOK(body, blocks[p].live, blocks[p].number + 1),
           blocks' = Append(blocks, NewBlock(p, body))
    PROVE  ChainInv' /\ Len(blocks) \in Nat /\ Len(blocks') = Len(blocks) + 1
<1>1. PICK B : B = NewBlock(p, body)
    BY Zenon
<1>2. /\ B.parent = p /\ B.number = blocks[p].number + 1 /\ B.extrinsics = body
      /\ B.live = LiveAfter(body, blocks[p].live)[Len(body)]
    BY <1>1 DEF NewBlock
<1>3. BlockOK(blocks[p])
    BY DEF ChainInv
<1>4. BlockOK(B) /\ Follows(B, blocks[p])
    BY <1>2, <1>3, BlockFits DEF BodyOK
<1>5. PICK T : blocks \in Seq(T)
    BY DEF ChainInv, Listed
<1>6. PICK n \in Nat : n = Len(blocks)
    BY <1>5
<1>7. PICK U : U = T \cup {B}
    BY Zenon
<1>8. blocks \in Seq(U) /\ B \in U
    BY <1>5, <1>7
<1>9. /\ blocks' \in Seq(U) /\ Len(blocks') = n + 1 /\ blocks'[n + 1] = B
      /\ \A b \in 1 .. n : blocks'[b] = blocks[b]
    BY <1>1, <1>6, <1>8
<1>10. n >= 1 /\ p \in 1 .. n /\ \A b \in 1 .. n + 1 : b \in 1 .. n \/ b = n + 1
    BY <1>6 DEF ChainInv
<1>11. blocks'[1] = blocks[1]
    BY <1>9, <1>10
<1>12. \A b \in 1 .. n + 1 : BlockOK(blocks'[b])
    BY <1>4, <1>6, <1>9, <1>10 DEF ChainInv
<1>13. ASSUME NEW b \in 2 .. n + 1
       PROVE  blocks'[b].parent \in 1 .. b - 1 /\ Follows(blocks'[b], blocks'[blocks'[b].parent])
    <2>1. CASE b = n + 1
        <3>1. blocks'[b] = B /\ blocks'[p] = blocks[p] /\ B.parent = p
            BY <1>2, <1>9, <1>10, <2>1
        <3>2. p \in 1 .. b - 1
            BY <1>10, <2>1
        <3> QED  BY <1>4, <3>1, <3>2, Zenon
    <2>2. CASE b \in 2 .. n
        <3>1. blocks[b].parent \in 1 .. b - 1 /\ Follows(blocks[b], blocks[blocks[b].parent])
            BY <1>6, <2>2 DEF ChainInv
        <3>2. blocks[b].parent \in 1 .. n /\ blocks'[b] = blocks[b]
            BY <1>9, <2>2, <3>1
        <3> QED  BY <1>9, <3>1, <3>2
    <2>3. b = n + 1 \/ b \in 2 .. n
        BY <1>10
    <2> QED  BY <2>1, <2>2, <2>3, Zenon
<1> QED  BY <1>6, <1>9, <1>10, <1>11, <1>12, <1>13 DEF ChainInv, Listed

LEMMA ClockType ==
    ASSUME NodesInv, NEW n \in Node
    PROVE  Clock(n) \in Nat /\ Clock(n) \div BLOCK_TIME \in Nat
<1>1. now \in Nat /\ Skew[n] \in Nat /\ BLOCK_TIME \in Nat \ {0}
    BY TimestampAssumption DEF NodesInv
<1>2. PICK c \in Nat : c = Clock(n)
    BY <1>1 DEF Clock
<1>3. c \div BLOCK_TIME \in Nat
    BY <1>1
<1> QED  BY <1>2, <1>3

\* Authoring without a panic adds a block in order.
LEMMA AuthorAdds ==
    ASSUME TimestampInv, NEW n \in Node, Author(n), UNCHANGED <<blocks, known, head>> => FALSE
    PROVE  /\ \E body : /\ BodyOK(body, blocks[head[n]].live, blocks[head[n]].number + 1)
                        /\ blocks' = Append(blocks, NewBlock(head[n], body))
           /\ Adopt(n, Len(blocks) + 1, blocks[head[n]].number + 1)
           /\ panicked' = [panicked EXCEPT ![n] = FALSE]
<1>1. PICK P, height : P = blocks[head[n]] /\ height = P.number + 1
    BY Zenon
<1>2. BlockOK(P)
    BY <1>1 DEF TimestampInv, ChainInv, NodesInv
<1>3. PICK previous : previous = OpeningInherents(P.extrinsics, InherentKinds)
    BY Zenon
<1>4. PICK create : create = [tx \in Range(previous) |-> create_inherent(Clock(n), height, tx)]
    BY Zenon
<1>5. PICK y : y = OfKind(previous, "SetTimestamp")[1]
    BY Zenon
<1>6. PICK x : x = create[y]
    BY Zenon
<1>7. PICK pushed : pushed = Push(<<x>>, P.live, height)
    BY Zenon
<1>8. CreateInherents(Leaves, previous, InherentKinds, create) = <<x>>
    BY <1>5, <1>6, CreatedIs, Zenon
<1>9. /\ ~ CreatePanics(Leaves, previous, InherentKinds)
      /\ \E body \in {pushed} \cup {Append(pushed, tx) :
                         tx \in CleanUpTxs(LiveAfter(pushed, P.live)[Len(pushed)], height)} :
             blocks' = Append(blocks, NewBlock(head[n], body))
      /\ Adopt(n, Len(blocks) + 1, height)
      /\ panicked' = [panicked EXCEPT ![n] = FALSE]
    BY <1>1, <1>3, <1>4, <1>7, <1>8, ZenonT(40) DEF Author
<1>10. Shaped(x) /\ x.kind = "SetTimestamp"
    <2>1. PICK T : P.extrinsics \in Seq(T)
        BY <1>2 DEF BlockOK, Listed
    <2>2. previous \in Seq(T)
        <3>1. PICK m \in 0 .. Len(P.extrinsics) : previous = SubSeq(P.extrinsics, 1, m)
            BY <1>3, <2>1, OpeningIs
        <3> QED  BY <2>1, <3>1
    <2>3. Len(OfKind(previous, "SetTimestamp")) = 1
        <3>1. Len(Leaves) = 2 /\ Leaves[1] = "SetTimestamp" /\ "SetTimestamp" \in InherentKinds
            BY DEF Leaves, InherentKinds
        <3> QED  BY <1>9, <3>1 DEF CreatePanics
    <2>4. Selects(OfKind(previous, "SetTimestamp"), previous, "SetTimestamp", Len(previous), T)
        BY <2>2, OfKindIs
    <2>5. \E i \in 1 .. Len(previous) : y = previous[i]
        BY <1>5, <2>3, <2>4 DEF Selects
    <2>6. y \in Range(previous)
        BY <2>2, <2>5 DEF Range
    <2>7. x = create_inherent(Clock(n), height, y)
        BY <1>4, <1>6, <2>6
    <2>8. Clock(n) \in Nat
        BY ClockType DEF TimestampInv
    <2>9. x.kind = "SetTimestamp" /\ x.peeks = <<y>> /\ x.outputs = <<Stamp(Clock(n), height)>>
        BY <2>7 DEF create_inherent, Tx
    <2>10. Deref(x).time = Clock(n)
        BY <2>9 DEF Deref, Stamp
    <2> QED  BY <2>8, <2>9, <2>10 DEF Shaped
<1>11. PICK body \in {pushed} \cup {Append(pushed, tx) :
                         tx \in CleanUpTxs(LiveAfter(pushed, P.live)[Len(pushed)], height)} :
             blocks' = Append(blocks, NewBlock(head[n], body))
    BY <1>9
<1>12. \/ body = pushed
       \/ \E c : /\ c.kind = "CleanUpTimestamp" /\ body = Append(pushed, c)
                 /\ Valid(c, LiveAfter(pushed, P.live)[Len(pushed)], height)
    <2>1. \A live : \A c \in CleanUpTxs(live, height) :
              c.kind = "CleanUpTimestamp" /\ Valid(c, live, height)
        <3>1. ASSUME NEW live, NEW c \in CleanUps(live)
              PROVE  c.kind = "CleanUpTimestamp"
            <4>1. PICK old \in live, new \in live : c = CleanUp(old, new)
                BY DEF CleanUps
            <4> QED  BY <4>1 DEF CleanUp, Tx
        <3> QED  BY <3>1, Zenon DEF CleanUpTxs
    <2> QED  BY <1>11, <2>1
<1>13. BodyOK(body, P.live, height)
    BY <1>7, <1>10, <1>12, AuthoredBody
<1> QED  BY <1>1, <1>9, <1>11, <1>13

\* So does importing a block of unknown origin: its inherents were checked.
LEMMA ForeignShaped ==
    ASSUME NEW n, NEW p, Clock(n) \in Nat, NEW body \in ForeignBodies(n, p)
    PROVE  Listed(body) /\ \A i \in 1 .. Len(body) : Shaped(body[i])
<1>0. ASSUME NEW time \in Nat, NEW h, NEW old
      PROVE  Shaped(create_inherent(time, h, old))
    <2>1. PICK x : x = create_inherent(time, h, old)
        BY Zenon
    <2>2. x.kind = "SetTimestamp" /\ x.peeks = <<old>> /\ x.outputs = <<Stamp(time, h)>>
        BY <2>1 DEF create_inherent, Tx
    <2>3. Deref(x).time = time
        BY <2>2 DEF Deref, Stamp
    <2>4. Shaped(x)
        BY <2>2, <2>3 DEF Shaped
    <2> QED  BY <2>1, <2>4, Zenon
<1>1. ASSUME NEW x \in ForeignInherents(n, p)
      PROVE  Shaped(x)
    <2>1. PICK h, D : h = blocks[p].number + 1 /\ D = 0 .. Clock(n) + MAX_DRIFT + 1
        BY Zenon
    <2>2. x \in {create_inherent(time, h, old) : old \in blocks[p].live, time \in D}
        BY <2>1 DEF ForeignInherents
    <2>3. PICK old \in blocks[p].live, time \in D : x = create_inherent(time, h, old)
        BY <2>2
    <2>4. time \in Nat
        BY <2>1, TimestampAssumption
    <2> QED  BY <1>0, <2>3, <2>4, Zenon
<1>2. ASSUME NEW L, NEW x \in CleanUps(L)
      PROVE  Shaped(x)
    <2>1. PICK old \in L, new \in L : x = CleanUp(old, new)
        BY DEF CleanUps
    <2> QED  BY <2>1 DEF CleanUp, Tx, Shaped
<1>3. \/ body = <<>>
      \/ \E a \in ForeignInherents(n, p) : body = <<a>>
      \/ \E a \in ForeignInherents(n, p) : \E b \in ForeignSeconds(n, p, a) : body = <<a, b>>
    BY Zenon DEF ForeignBodies
<1>4. CASE body = <<>>
    <2>1. Len(body) = 0 /\ \A i \in 1 .. 0 : FALSE
        BY <1>4
    <2> QED  BY <1>4, <2>1, ShortLists, Zenon
<1>5. ASSUME NEW a \in ForeignInherents(n, p), body = <<a>>
      PROVE  Listed(body) /\ \A i \in 1 .. Len(body) : Shaped(body[i])
    <2>1. Listed(body) /\ Len(body) = 1 /\ body[1] = a
        BY <1>5, ShortLists
    <2>2. \A i \in 1 .. 1 : i = 1
        OBVIOUS
    <2> QED  BY <1>1, <2>1, <2>2, Zenon
<1>6. ASSUME NEW a \in ForeignInherents(n, p), NEW b \in ForeignSeconds(n, p, a), body = <<a, b>>
      PROVE  Listed(body) /\ \A i \in 1 .. Len(body) : Shaped(body[i])
    <2>1. body \in Seq({a, b}) /\ Len(body) = 2 /\ body[1] = a /\ body[2] = b
        BY <1>6
    <2>2. \A i \in 1 .. 2 : i = 1 \/ i = 2
        OBVIOUS
    <2>3. CASE b \in CleanUps(blocks[p].live \cup {a})
        BY <1>1, <1>2, <2>1, <2>2, <2>3, Zenon DEF Listed
    <2>4. CASE b \notin CleanUps(blocks[p].live \cup {a})
        <3>1. PICK h, old : b = create_inherent(Clock(n), h, old)
            BY <2>4, Zenon DEF ForeignSeconds
        <3>2. Shaped(b)
            BY <1>0, <3>1
        <3> QED  BY <1>1, <2>1, <2>2, <3>2, Zenon DEF Listed
    <2> QED  BY <2>3, <2>4
<1> QED  BY <1>3, <1>4, <1>5, <1>6, Zenon

LEMMA ForeignAdds ==
    ASSUME TimestampInv, NEW n \in Node, ImportForeign(n)
    PROVE  \E p \in known[n] : \E body :
               /\ BodyOK(body, blocks[p].live, blocks[p].number + 1)
               /\ blocks' = Append(blocks, NewBlock(p, body))
               /\ Adopt(n, Len(blocks) + 1, blocks[p].number + 1)
<1>0. PICK p \in known[n] : \E b \in ForeignBodies(n, p) :
          /\ Accepts(n, b, p)
          /\ blocks' = Append(blocks, NewBlock(p, b))
          /\ Adopt(n, Len(blocks) + 1, blocks[p].number + 1)
    BY Zenon DEF ImportForeign
<1>1. PICK body \in ForeignBodies(n, p) :
          /\ Accepts(n, body, p)
          /\ blocks' = Append(blocks, NewBlock(p, body))
          /\ Adopt(n, Len(blocks) + 1, blocks[p].number + 1)
    BY <1>0, Zenon
<1>2. Listed(body) /\ \A i \in 1 .. Len(body) : Shaped(body[i])
    BY ClockType, ForeignShaped DEF TimestampInv
<1>3. PICK T : body \in Seq(T)
    BY <1>2 DEF Listed
<1>4. PICK live, height : live = blocks[p].live /\ height = blocks[p].number + 1
    BY Zenon
<1>5. PICK passed : /\ CheckInherents(Leaves, OpeningInherents(body, InherentKinds), InherentKinds, passed)
                    /\ Executes(body, live, height)
    BY <1>1, <1>4, Zenon DEF Accepts
<1>6. OneStamp(body)
    BY <1>3, <1>5, AcceptedOnce
<1>7. Executed(body, live, height)
    BY <1>2, <1>5, Zenon DEF Executed, Executes
<1> QED  BY <1>1, <1>2, <1>4, <1>6, <1>7, Zenon DEF BodyOK

\* The nodes when the chain has grown by one block, or not at all.
LEMMA AdoptTypes ==
    ASSUME NodesInv, Len(blocks) \in Nat, Len(blocks') \in Nat, Len(blocks') >= Len(blocks),
           NEW n \in Node, NEW b \in 1 .. Len(blocks'), NEW number, Adopt(n, b, number)
    PROVE  /\ known' \in [Node -> SUBSET (1 .. Len(blocks'))]
           /\ head' \in [Node -> 1 .. Len(blocks')] /\ \A m \in Node : head'[m] \in known'[m]
<1>1. 1 .. Len(blocks) \subseteq 1 .. Len(blocks')
    OBVIOUS
<1>2. PICK new : new = IF number > blocks[head[n]].number THEN b ELSE head[n]
    BY Zenon
<1>3. known' = [known EXCEPT ![n] = known[n] \cup {b}] /\ head' = [head EXCEPT ![n] = new]
    BY <1>2 DEF Adopt, NodesInv
<1>4. new = b \/ new = head[n]
    BY <1>2
<1> QED  BY <1>1, <1>3, <1>4 DEF NodesInv

LEMMA TimestampInit == Init => TimestampInv
<1> SUFFICES ASSUME Init PROVE TimestampInv
    OBVIOUS
<1>1. PICK g : g = genesis_transaction
    BY Zenon
<1>2. g.kind = "SetTimestamp" /\ g.outputs = <<Stamp(0, 0)>>
    BY <1>1 DEF genesis_transaction, Tx
<1>3. Stamped(g) /\ Deref(g).block = 0
    BY <1>2 DEF Stamped, Deref, Stamp
<1>4. PICK xs : xs = <<g>>
    BY Zenon
<1>5. Listed(xs) /\ Len(xs) = 1 /\ xs[1] = g
    BY <1>4, ShortLists
<1>6. PICK B : B = [parent |-> 0, number |-> 0, extrinsics |-> xs, live |-> {g}]
    BY Zenon
<1>7. B.parent = 0 /\ B.number = 0 /\ B.extrinsics = xs /\ B.live = {g}
    BY <1>6
<1>8. /\ \A i \in 1 .. 1 : i = 1 /\ 1 \in 1 .. 1
      /\ \A i \in 2 .. 1 : FALSE
      /\ 0 \in Nat /\ 0 <= 0
    OBVIOUS
<1>9. BlockOK(B)
    <2>1. OneStamp(xs)
        BY <1>5 DEF OneStamp
    <2>2. \A i \in 1 .. Len(xs) : Stamped(xs[i]) /\ Deref(xs[i]).block = B.number /\ xs[i] \in B.live
        BY <1>3, <1>5, <1>7, <1>8
    <2>3. \A tx \in B.live : /\ Stamped(tx) /\ Deref(tx).block <= B.number
                             /\ \E i \in 1 .. Len(xs) : tx = xs[i]
        BY <1>3, <1>5, <1>7, <1>8
    <2> QED  BY <1>5, <1>7, <1>8, <2>1, <2>2, <2>3, Zenon DEF BlockOK
<1>10. blocks = <<B>>
    BY <1>1, <1>4, <1>6 DEF Init
<1>11. Listed(blocks) /\ Len(blocks) = 1 /\ blocks[1] = B
    BY <1>10, ShortLists
<1>12. ChainInv
    BY <1>7, <1>8, <1>9, <1>11 DEF ChainInv
<1>13. NodesInv
    <2>1. now \in BLOCK_TIME .. MaxTime
        BY TimestampAssumption DEF Init
    <2>2. 1 .. Len(blocks) = {1}
        BY <1>11
    <2> QED  BY <2>1, <2>2 DEF Init, NodesInv
<1> QED  BY <1>12, <1>13 DEF TimestampInv

LEMMA TimestampStep == TimestampInv /\ [Next]_vars => TimestampInv'
<1> SUFFICES ASSUME TimestampInv, [Next]_vars PROVE TimestampInv'
    OBVIOUS
<1>1. ChainInv /\ NodesInv
    BY DEF TimestampInv
<1>2. Len(blocks) \in Nat /\ Len(blocks) >= 1
    BY <1>1 DEF ChainInv, Listed
<1>3. ASSUME blocks' = blocks PROVE ChainInv'
    BY <1>1, <1>3, Zenon DEF ChainInv
\* A block more, adopted by the node n.
<1>4. ASSUME NEW n \in Node, NEW p \in known[n], NEW body, NEW number,
             BodyOK(body, blocks[p].live, blocks[p].number + 1),
             blocks' = Append(blocks, NewBlock(p, body)),
             Adopt(n, Len(blocks) + 1, number),
             now' = now, slot' \in [Node -> Nat], panicked' \in [Node -> BOOLEAN],
             foreign' = foreign \/ foreign' = foreign \cup {Len(blocks) + 1}
      PROVE  TimestampInv'
    <2>1. p \in 1 .. Len(blocks)
        BY <1>1 DEF NodesInv
    <2>2. ChainInv' /\ Len(blocks') = Len(blocks) + 1
        BY <1>1, <1>4, <2>1, ChainGrows
    <2>3. /\ Len(blocks') \in Nat /\ Len(blocks') >= Len(blocks)
          /\ Len(blocks) + 1 \in 1 .. Len(blocks') /\ 1 .. Len(blocks) \subseteq 1 .. Len(blocks')
        BY <1>2, <2>2
    <2>4. /\ known' \in [Node -> SUBSET (1 .. Len(blocks'))]
          /\ head' \in [Node -> 1 .. Len(blocks')] /\ \A m \in Node : head'[m] \in known'[m]
        BY <1>1, <1>2, <1>4, <2>3, AdoptTypes
    <2>5. foreign' \subseteq 1 .. Len(blocks')
        BY <1>1, <1>4, <2>3, Zenon DEF NodesInv
    <2>6. now' \in BLOCK_TIME .. MaxTime
        BY <1>1, <1>4 DEF NodesInv
    <2> QED  BY <1>4, <2>2, <2>4, <2>5, <2>6 DEF TimestampInv, NodesInv
<1>5. CASE Tick
    <2>1. now' \in BLOCK_TIME .. MaxTime
        BY <1>1, <1>5, TimestampAssumption DEF Tick, NodesInv
    <2> QED  BY <1>1, <1>3, <1>5, <2>1 DEF Tick, NodesInv, TimestampInv
<1>6. ASSUME NEW n \in Node, Author(n)
      PROVE  TimestampInv'
    <2>1. /\ now' = now /\ foreign' = foreign
          /\ slot' = [slot EXCEPT ![n] = Clock(n) \div BLOCK_TIME]
        BY <1>6, Zenon DEF Author
    <2>2. slot' \in [Node -> Nat]
        <3>1. PICK c \in Nat : c = Clock(n) \div BLOCK_TIME
            BY <1>1, ClockType
        <3> QED  BY <1>1, <2>1, <3>1 DEF NodesInv
    <2>3. CASE UNCHANGED <<blocks, known, head>>
        <3>1. panicked' \in [Node -> BOOLEAN]
            <4>1. \/ panicked' = [panicked EXCEPT ![n] = TRUE]
                  \/ panicked' = [panicked EXCEPT ![n] = FALSE]
                BY <1>6, Zenon DEF Author
            <4> QED  BY <1>1, <4>1, Zenon DEF NodesInv
        <3> QED  BY <1>1, <1>3, <2>1, <2>2, <2>3, <3>1 DEF NodesInv, TimestampInv
    <2>4. CASE ~ UNCHANGED <<blocks, known, head>>
        <3>1. /\ \E body : /\ BodyOK(body, blocks[head[n]].live, blocks[head[n]].number + 1)
                           /\ blocks' = Append(blocks, NewBlock(head[n], body))
              /\ Adopt(n, Len(blocks) + 1, blocks[head[n]].number + 1)
              /\ panicked' = [panicked EXCEPT ![n] = FALSE]
            BY <1>6, <2>4, AuthorAdds
        <3>2. panicked' \in [Node -> BOOLEAN] /\ head[n] \in known[n]
            BY <1>1, <3>1 DEF NodesInv
        <3> QED  BY <1>4, <2>1, <2>2, <3>1, <3>2, Zenon
    <2> QED  BY <2>3, <2>4
<1>7. ASSUME NEW n \in Node, NEW b \in 1 .. Len(blocks), Import(n, b)
      PROVE  TimestampInv'
    <2>1. /\ UNCHANGED <<now, blocks, slot, panicked, foreign>>
          /\ Adopt(n, b, blocks[b].number)
        BY <1>7 DEF Import
    <2>2. Len(blocks') \in Nat /\ Len(blocks') >= Len(blocks) /\ b \in 1 .. Len(blocks')
        BY <1>2, <2>1
    <2>3. /\ known' \in [Node -> SUBSET (1 .. Len(blocks'))]
          /\ head' \in [Node -> 1 .. Len(blocks')] /\ \A m \in Node : head'[m] \in known'[m]
        BY <1>1, <1>2, <2>1, <2>2, AdoptTypes
    <2> QED  BY <1>1, <1>3, <2>1, <2>3 DEF NodesInv, TimestampInv
<1>8. ASSUME NEW n \in Node, ImportForeign(n)
      PROVE  TimestampInv'
    <2>1. /\ now' = now /\ slot' = slot /\ panicked' = panicked
          /\ foreign' = foreign \cup {Len(blocks) + 1}
        BY <1>8 DEF ImportForeign
    <2>2. slot' \in [Node -> Nat] /\ panicked' \in [Node -> BOOLEAN]
        BY <1>1, <2>1 DEF NodesInv
    <2> QED  BY <1>4, <1>8, <2>1, <2>2, ForeignAdds, Zenon
<1>9. CASE UNCHANGED vars
    BY <1>1, <1>3, <1>9 DEF vars, NodesInv, TimestampInv
<1> QED  BY <1>5, <1>6, <1>7, <1>8, <1>9, Zenon DEF Next, Stop

LEMMA TimestampAlways == Spec => []TimestampInv
BY TimestampInit, TimestampStep, PTL DEF Spec

-----------------------------------------------------------------------------
(* The theorems.                                                           *)

\* The timestamps of a block are among its extrinsics.
LEMMA StampsAre ==
    ASSUME ChainInv, NEW b \in 1 .. Len(blocks)
    PROVE  /\ Len(StampsOf(b)) \in Nat
           /\ \A k \in 1 .. Len(StampsOf(b)) : \E i \in 1 .. Len(blocks[b].extrinsics) :
                  StampsOf(b)[k] = blocks[b].extrinsics[i] /\ blocks[b].extrinsics[i].kind = "SetTimestamp"
           /\ StampsOf(b) # <<>> => 1 \in 1 .. Len(StampsOf(b))
<1>1. PICK T : blocks[b].extrinsics \in Seq(T)
    BY DEF ChainInv, BlockOK, Listed
<1>2. PICK r : r = StampsOf(b)
    BY Zenon
<1>3. Selects(r, blocks[b].extrinsics, "SetTimestamp", Len(blocks[b].extrinsics), T)
    BY <1>1, <1>2, OfKindIs DEF StampsOf
<1>4. r \in Seq(T)
    BY <1>3 DEF Selects
<1>5. \A k \in 1 .. Len(r) : \E i \in 1 .. Len(blocks[b].extrinsics) :
          r[k] = blocks[b].extrinsics[i] /\ blocks[b].extrinsics[i].kind = "SetTimestamp"
    BY <1>3 DEF Selects
<1>6. Len(r) \in Nat /\ (r # <<>> => 1 \in 1 .. Len(r))
    BY <1>4
<1> QED  BY <1>2, <1>5, <1>6, Zenon

\* The timestamps on chain, live or in a block, have exactly one output, the
\* clean ups none; parents precede their children, and the nodes know blocks that
\* exist and have imported their best one.
THEOREM TimestampTypes == Spec => []TypeOK
<1>1. TimestampInv => TypeOK
    <2> SUFFICES ASSUME TimestampInv PROVE TypeOK
        OBVIOUS
    <2>1. ChainInv /\ NodesInv
        BY DEF TimestampInv
    <2>2. \A tx : (Stamped(tx) => TxType(tx) /\ tx.kind \in InherentKinds) /\ (Cleans(tx) => TxType(tx))
        <3>1. ASSUME NEW tx, Stamped(tx) PROVE TxType(tx) /\ tx.kind \in InherentKinds
            BY <3>1 DEF Stamped, TxType, InherentKinds
        <3>2. ASSUME NEW tx, Cleans(tx) PROVE TxType(tx)
            <4>1. Len(tx.outputs) = 0
                BY <3>2 DEF Cleans
            <4> QED  BY <3>2, <4>1 DEF Cleans, TxType, InherentKinds
        <3> QED  BY <3>1, <3>2, Zenon
    <2>3. ASSUME NEW b \in 1 .. Len(blocks)
          PROVE  /\ blocks[b].parent \in 0 .. b - 1
                 /\ \A i \in 1 .. Len(blocks[b].extrinsics) : TxType(blocks[b].extrinsics[i])
                 /\ \A tx \in blocks[b].live : TxType(tx) /\ tx.kind \in InherentKinds
        <3>1. BlockOK(blocks[b])
            BY <2>1 DEF ChainInv
        <3>2. blocks[b].parent \in 0 .. b - 1
            <4>1. b = 1 \/ b \in 2 .. Len(blocks)
                BY <2>1 DEF ChainInv, Listed
            <4> QED  BY <2>1, <4>1 DEF ChainInv
        <3> QED  BY <2>2, <3>1, <3>2, Zenon DEF BlockOK
    <2>4. \A n \in Node : /\ known[n] \subseteq 1 .. Len(blocks)
                          /\ head[n] \in known[n]
                          /\ slot[n] \in Nat /\ panicked[n] \in BOOLEAN
        BY <2>1 DEF NodesInv
    <2> QED  BY <2>1, <2>3, <2>4 DEF NodesInv, TypeOK
<1> QED  BY <1>1, TimestampAlways, PTL

\* From block to block the time advances by the minimum interval at least,
\* whatever timestamp the inherent peeks at: SetTimestamp::check asks for the
\* timestamp of the previous height, and only one of that height can be live.
THEOREM TimeAlwaysAdvances == Spec => []TimeAdvances
<1>1. TimestampInv => TimeAdvances
    <2> SUFFICES ASSUME TimestampInv, NEW b \in 2 .. Len(blocks), blocks[b].parent # 1,
                        StampsOf(b) # <<>>, StampsOf(blocks[b].parent) # <<>>
                 PROVE  TimeOf(b) >= TimeOf(blocks[b].parent) + MINIMUM_TIME_INTERVAL
        BY DEF TimeAdvances
    <2>1. ChainInv
        BY DEF TimestampInv
    <2>2. PICK p : p = blocks[b].parent
        BY Zenon
    <2>3. p \in 1 .. b - 1 /\ Follows(blocks[b], blocks[p])
        BY <2>1, <2>2 DEF ChainInv
    <2>4. b \in 1 .. Len(blocks) /\ p \in 1 .. Len(blocks) /\ p \in 2 .. Len(blocks)
        BY <2>2, <2>3
    <2>5. blocks[p].number # 0
        <3>1. PICK q : q = blocks[p].parent
            BY Zenon
        <3>2. q \in 1 .. p - 1 /\ blocks[p].number = blocks[q].number + 1
            BY <2>1, <2>4, <3>1 DEF ChainInv, Follows
        <3>3. q \in 1 .. Len(blocks)
            BY <2>4, <3>2
        <3>4. blocks[q].number \in Nat
            BY <2>1, <3>3 DEF ChainInv, BlockOK
        <3> QED  BY <3>2, <3>4
    <2>6. PICK i \in 1 .. Len(blocks[b].extrinsics) :
              StampsOf(b)[1] = blocks[b].extrinsics[i] /\ blocks[b].extrinsics[i].kind = "SetTimestamp"
        BY <2>1, <2>4, StampsAre, Zenon
    <2>7. PICK j \in 1 .. Len(blocks[p].extrinsics) :
              StampsOf(p)[1] = blocks[p].extrinsics[j] /\ blocks[p].extrinsics[j].kind = "SetTimestamp"
        BY <2>1, <2>2, <2>4, StampsAre, Zenon
    <2>8. Deref(blocks[b].extrinsics[i]).time >= Deref(blocks[p].extrinsics[j]).time + MINIMUM_TIME_INTERVAL
        BY <2>3, <2>5, <2>6, <2>7, Zenon DEF Follows
    <2> QED  BY <2>2, <2>6, <2>7, <2>8, Zenon DEF TimeOf
<1> QED  BY <1>1, TimestampAlways, PTL

\* The timestamp of a block is still live when the next block is made:
\* CleanUpTimestamp::check lets only timestamps of lower blocks go.
THEOREM ParentAlwaysLive == Spec => []ParentTimestampLive
<1>1. TimestampInv => ParentTimestampLive
    <2> SUFFICES ASSUME TimestampInv, NEW b \in 1 .. Len(blocks), NEW k \in 1 .. Len(StampsOf(b))
                 PROVE  StampsOf(b)[k] \in blocks[b].live
        BY DEF ParentTimestampLive
    <2>1. ChainInv
        BY DEF TimestampInv
    <2>2. PICK i \in 1 .. Len(blocks[b].extrinsics) :
              StampsOf(b)[k] = blocks[b].extrinsics[i] /\ blocks[b].extrinsics[i].kind = "SetTimestamp"
        BY <2>1, StampsAre, Zenon
    <2>3. BlockOK(blocks[b])
        BY <2>1 DEF ChainInv
    <2>4. ~ Cleans(blocks[b].extrinsics[i])
        BY <2>2 DEF Cleans
    <2> QED  BY <2>2, <2>3, <2>4, Zenon DEF BlockOK
<1> QED  BY <1>1, TimestampAlways, PTL

-----------------------------------------------------------------------------
(* Blocks that lack their timestamp.                                       *)

\* A block without a timestamp is known to one node at most, and a node that
\* panicked has one.
HomeInv ==
    /\ \A b \in 1 .. Len(blocks) : ~ HasStamp(blocks[b].extrinsics)
           => \A m, n \in Node : b \in known[m] /\ b \in known[n] => m = n
    /\ \A n \in Node : panicked[n] =>
           \E b \in known[n] : ~ HasStamp(blocks[b].extrinsics)

\* A block in order has exactly one timestamp or none.
LEMMA StampCount ==
    ASSUME ChainInv, NEW b \in 1 .. Len(blocks)
    PROVE  Len(StampsOf(b)) = 1 <=> HasStamp(blocks[b].extrinsics)
<1>1. PICK xs : xs = blocks[b].extrinsics
    BY Zenon
<1>2. Listed(xs) /\ OneStamp(xs)
    BY <1>1 DEF ChainInv, BlockOK
<1>3. PICK T : xs \in Seq(T)
    BY <1>2 DEF Listed
<1>4. PICK r : r = StampsOf(b)
    BY Zenon
<1>5. Selects(r, xs, "SetTimestamp", Len(xs), T)
    BY <1>1, <1>3, <1>4, OfKindIs DEF StampsOf
<1>6. Len(r) \in Nat /\ Len(r) <= 1
    <2>1. r \in Seq(T)
        BY <1>5 DEF Selects
    <2>2. \A i, j \in 1 .. Len(xs) : xs[i].kind = "SetTimestamp" /\ xs[j].kind = "SetTimestamp" => i = j
        BY <1>2 DEF OneStamp
    <2>3. Len(r) <= 1
        BY <1>5, <2>2, Zenon DEF Selects
    <2> QED  BY <2>1, <2>3
<1>7. ASSUME Len(r) = 1 PROVE HasStamp(xs)
    <2>1. 1 \in 1 .. Len(r)
        BY <1>7
    <2> QED  BY <1>5, <2>1 DEF Selects, HasStamp
<1>8. ASSUME HasStamp(xs) PROVE Len(r) = 1
    <2>1. PICK i \in 1 .. Len(xs) : xs[i].kind = "SetTimestamp"
        BY <1>8 DEF HasStamp
    <2>2. PICK m \in 1 .. Len(r) : r[m] = xs[i]
        BY <1>5, <2>1 DEF Selects
    <2>3. PICK len \in Nat : len = Len(r)
        BY <1>6
    <2>4. m \in 1 .. len /\ len <= 1
        BY <1>6, <2>2, <2>3
    <2>5. len = 1
        BY <2>3, <2>4
    <2> QED  BY <2>3, <2>5
<1> QED  BY <1>1, <1>4, <1>7, <1>8

\* Creating inherents panics only on top of a block without a timestamp.
LEMMA PanicsOnUntimed ==
    ASSUME NEW P, BlockOK(P),
           CreatePanics(Leaves, OpeningInherents(P.extrinsics, InherentKinds), InherentKinds)
    PROVE  ~ HasStamp(P.extrinsics)
<1> SUFFICES ASSUME HasStamp(P.extrinsics) PROVE FALSE
    OBVIOUS
<1>1. PICK xs : xs = P.extrinsics
    BY Zenon
<1>2. Listed(xs) /\ OneStamp(xs) /\ HasStamp(xs)
    BY <1>1 DEF BlockOK
<1>3. PICK T : xs \in Seq(T)
    BY <1>2 DEF Listed
<1>4. PICK n \in 0 .. Len(xs) :
          /\ OpeningInherents(xs, InherentKinds) = SubSeq(xs, 1, n)
          /\ \A i \in 1 .. n : xs[i].kind \in InherentKinds
          /\ n < Len(xs) => xs[n + 1].kind \notin InherentKinds
    BY <1>3, OpeningIs
<1>5. 1 \in 1 .. Len(xs) /\ xs[1].kind = "SetTimestamp"
    BY <1>2 DEF HasStamp, OneStamp
<1>6. n = 1
    <2>1. n # 0
        BY <1>3, <1>4, <1>5 DEF InherentKinds
    <2>2. n <= 1
        <3> SUFFICES ASSUME n > 1 PROVE FALSE
            BY <1>3, <1>4
        <3>1. 2 \in 1 .. n /\ 2 \in 1 .. Len(xs)
            BY <1>3, <1>4
        <3>2. xs[2].kind = "SetTimestamp"
            BY <1>4, <3>1 DEF InherentKinds
        <3> QED  BY <1>2, <3>1, <3>2 DEF OneStamp
    <2> QED  BY <1>3, <1>4, <2>1, <2>2
<1>7. PICK s : s = SubSeq(xs, 1, n)
    BY Zenon
<1>8. s \in Seq(T) /\ Len(s) = 1 /\ s[1] = xs[1]
    BY <1>3, <1>5, <1>6, <1>7
<1>9. PICK r : r = OfKind(s, "SetTimestamp")
    BY Zenon
<1>10. Len(r) = 1
    <2>1. Selects(r, s, "SetTimestamp", 1, T)
        BY <1>8, <1>9, OfKindIs
    <2>2. \A i, j \in 1 .. 1 : i = j
        OBVIOUS
    <2>3. r \in Seq(T) /\ Len(r) <= 1
        BY <2>1, <2>2 DEF Selects
    <2>4. 1 \in 1 .. 1 /\ s[1].kind = "SetTimestamp"
        BY <1>5, <1>8
    <2>5. PICK m \in 1 .. Len(r) : r[m] = s[1]
        BY <2>1, <2>4 DEF Selects
    <2>6. PICK len \in Nat : len = Len(r)
        BY <2>3
    <2>7. m \in 1 .. len /\ len <= 1
        BY <2>3, <2>5, <2>6
    <2>8. len = 1
        BY <2>6, <2>7
    <2> QED  BY <2>6, <2>8
<1>11. Len(Leaves) = 2 /\ Leaves[1] = "SetTimestamp" /\ Leaves[2] \notin InherentKinds
    BY DEF Leaves, InherentKinds
<1>12. \A i \in 1 .. 2 : i = 1 \/ i = 2
    OBVIOUS
<1> QED  BY <1>1, <1>4, <1>7, <1>9, <1>10, <1>11, <1>12, Zenon DEF CreatePanics

\* A block more, which only its author or importer knows.
LEMMA HomeGrows ==
    ASSUME TimestampInv, HomeInv, NEW n \in Node, NEW B, NEW number,
           blocks' = Append(blocks, B), Adopt(n, Len(blocks) + 1, number),
           panicked' = panicked \/ panicked' = [panicked EXCEPT ![n] = FALSE]
    PROVE  HomeInv'
<1>1. PICK len \in Nat : len = Len(blocks)
    BY DEF TimestampInv, ChainInv, Listed
<1>2. /\ Len(blocks') = len + 1 /\ \A b \in 1 .. len : blocks'[b] = blocks[b]
    BY <1>1 DEF TimestampInv, ChainInv, Listed
<1>3. /\ known \in [Node -> SUBSET (1 .. len)] /\ panicked \in [Node -> BOOLEAN]
      /\ known' = [known EXCEPT ![n] = known[n] \cup {len + 1}]
    BY <1>1 DEF TimestampInv, NodesInv, Adopt
<1>4. /\ \A m \in Node : known[m] \subseteq known'[m] /\ known[m] \subseteq 1 .. len
      /\ \A m \in Node : m # n => known'[m] = known[m]
      /\ known'[n] = known[n] \cup {len + 1}
    BY <1>3
<1>5. ASSUME NEW b \in 1 .. len + 1, ~ HasStamp(blocks'[b].extrinsics),
             NEW k \in Node, NEW m \in Node, b \in known'[k], b \in known'[m]
      PROVE  k = m
    <2>1. CASE b = len + 1
        <3>1. b \notin 1 .. len
            BY <2>1
        <3> QED  BY <1>4, <1>5, <3>1
    <2>2. CASE b \in 1 .. len
        <3>1. b # len + 1
            BY <2>2
        <3>2. b \in known[k] /\ b \in known[m]
            BY <1>4, <1>5, <3>1
        <3>3. ~ HasStamp(blocks[b].extrinsics)
            BY <1>2, <1>5, <2>2
        <3> QED  BY <1>1, <2>2, <3>2, <3>3 DEF HomeInv
    <2>3. b = len + 1 \/ b \in 1 .. len
        BY <1>5
    <2> QED  BY <2>1, <2>2, <2>3
<1>6. ASSUME NEW m \in Node, panicked'[m]
      PROVE  \E b \in known'[m] : ~ HasStamp(blocks'[b].extrinsics)
    <2>1. panicked[m]
        BY <1>3, <1>6
    <2>2. PICK b \in known[m] : ~ HasStamp(blocks[b].extrinsics)
        BY <2>1 DEF HomeInv
    <2>3. b \in known'[m] /\ b \in 1 .. len
        BY <1>4, <2>2
    <2> QED  BY <1>2, <2>2, <2>3
<1> QED  BY <1>2, <1>5, <1>6, Zenon DEF HomeInv

\* Importing never brings a block without a timestamp to another node.
LEMMA HomeImport ==
    ASSUME TimestampInv, HomeInv, NEW n \in Node, NEW b \in 1 .. Len(blocks), Import(n, b)
    PROVE  HomeInv'
<1>1. HasStamp(blocks[b].extrinsics)
    <2>1. PICK xs, live, height : /\ xs = blocks[b].extrinsics /\ live = blocks[blocks[b].parent].live
                                  /\ height = blocks[blocks[b].parent].number + 1
        BY Zenon
    <2>2. Listed(xs)
        BY <2>1 DEF TimestampInv, ChainInv, BlockOK
    <2>3. PICK T : xs \in Seq(T)
        BY <2>2 DEF Listed
    <2>4. PICK passed : /\ CheckInherents(Leaves, OpeningInherents(xs, InherentKinds), InherentKinds, passed)
                        /\ Executes(xs, live, height)
        BY <2>1, Zenon DEF Import, Accepts
    <2> QED  BY <2>1, <2>3, <2>4, AcceptedOnce
<1>2. /\ blocks' = blocks /\ panicked' = panicked
      /\ known' = [known EXCEPT ![n] = known[n] \cup {b}]
    BY DEF Import, Adopt, TimestampInv, NodesInv
<1>3. /\ \A m \in Node : known[m] \subseteq known'[m]
      /\ \A m \in Node : \A c \in known'[m] : c \in known[m] \/ c = b
    BY <1>2 DEF TimestampInv, NodesInv
<1>4. ASSUME NEW c \in 1 .. Len(blocks), ~ HasStamp(blocks[c].extrinsics),
             NEW k \in Node, NEW m \in Node, c \in known'[k], c \in known'[m]
      PROVE  k = m
    <2>1. c \in known[k] /\ c \in known[m]
        BY <1>1, <1>3, <1>4
    <2> QED  BY <1>4, <2>1 DEF HomeInv
<1>5. ASSUME NEW m \in Node, panicked[m]
      PROVE  \E c \in known'[m] : ~ HasStamp(blocks[c].extrinsics)
    BY <1>3, <1>5 DEF HomeInv
<1> QED  BY <1>2, <1>4, <1>5, Zenon DEF HomeInv

LEMMA HomeStep == TimestampInv /\ HomeInv /\ [Next]_vars => HomeInv'
<1> SUFFICES ASSUME TimestampInv, HomeInv, [Next]_vars PROVE HomeInv'
    OBVIOUS
<1>1. ASSUME UNCHANGED <<blocks, known, panicked>> PROVE HomeInv'
    BY <1>1, Zenon DEF HomeInv
<1>2. ASSUME NEW n \in Node, Author(n) PROVE HomeInv'
    <2>1. CASE CreatePanics(Leaves, OpeningInherents(blocks[head[n]].extrinsics, InherentKinds), InherentKinds)
        <3>1. /\ UNCHANGED <<blocks, known, head>>
              /\ panicked' = [panicked EXCEPT ![n] = TRUE]
            BY <1>2, <2>1, Zenon DEF Author
        <3>2. PICK h : h = head[n]
            BY Zenon
        <3>3. h \in known[n] /\ BlockOK(blocks[h])
            BY <3>2 DEF TimestampInv, ChainInv, NodesInv
        <3>4. ~ HasStamp(blocks[h].extrinsics)
            BY <2>1, <3>2, <3>3, PanicsOnUntimed
        <3>5. ASSUME NEW m \in Node, panicked'[m]
              PROVE  \E b \in known[m] : ~ HasStamp(blocks[b].extrinsics)
            <4>1. m = n \/ panicked[m]
                BY <3>1, <3>5 DEF TimestampInv, NodesInv
            <4> QED  BY <3>3, <3>4, <4>1, Zenon DEF HomeInv
        <3> QED  BY <3>1, <3>5, Zenon DEF HomeInv
    <2>2. CASE ~ CreatePanics(Leaves, OpeningInherents(blocks[head[n]].extrinsics, InherentKinds), InherentKinds)
        <3>1. /\ \E body : blocks' = Append(blocks, NewBlock(head[n], body))
              /\ Adopt(n, Len(blocks) + 1, blocks[head[n]].number + 1)
              /\ panicked' = [panicked EXCEPT ![n] = FALSE]
            BY <1>2, <2>2, ZenonT(40) DEF Author
        <3> QED  BY <3>1, HomeGrows
    <2> QED  BY <2>1, <2>2
<1>3. ASSUME NEW n \in Node, ImportForeign(n) PROVE HomeInv'
    <2>1. PICK p : \E body : /\ blocks' = Append(blocks, NewBlock(p, body))
                             /\ Adopt(n, Len(blocks) + 1, blocks[p].number + 1)
        BY <1>3, Zenon DEF ImportForeign
    <2>2. panicked' = panicked
        BY <1>3, Zenon DEF ImportForeign
    <2> QED  BY <2>1, <2>2, HomeGrows
<1>4. CASE Tick
    BY <1>1, <1>4 DEF Tick
<1>5. CASE UNCHANGED vars
    BY <1>1, <1>5 DEF vars
<1> QED  BY <1>2, <1>3, <1>4, <1>5, HomeImport, Zenon DEF Next, Stop

LEMMA HomeInit == Init => HomeInv
<1> SUFFICES ASSUME Init PROVE HomeInv
    OBVIOUS
<1>1. PICK g : g = genesis_transaction
    BY Zenon
<1>2. g.kind = "SetTimestamp"
    BY <1>1 DEF genesis_transaction, Tx
<1>3. Len(blocks) = 1 /\ blocks[1].extrinsics = <<g>>
    BY <1>1 DEF Init
<1>4. HasStamp(blocks[1].extrinsics)
    <2>1. Len(<<g>>) = 1 /\ <<g>>[1] = g /\ 1 \in 1 .. 1
        OBVIOUS
    <2> QED  BY <1>2, <1>3, <2>1 DEF HasStamp
<1>5. \A b \in 1 .. 1 : b = 1
    OBVIOUS
<1>6. \A n \in Node : ~ panicked[n]
    BY DEF Init
<1> QED  BY <1>3, <1>4, <1>5, <1>6, Zenon DEF HomeInv

\* For any number of nodes, clocks, delays and intervals, a block that lacks its
\* timestamp, or has more than one, never leaves the node that made it, and creating
\* inherents panics only for that node.
THEOREM UntimedStaysHome == Spec => []OneTimestampPerBlock
<1>1. TimestampInv /\ HomeInv => OneTimestampPerBlock
    <2> SUFFICES ASSUME TimestampInv, HomeInv PROVE OneTimestampPerBlock
        OBVIOUS
    <2>1. \A b \in 1 .. Len(blocks) : Len(StampsOf(b)) = 1 <=> HasStamp(blocks[b].extrinsics)
        BY StampCount DEF TimestampInv
    <2>2. \A n \in Node : \A b \in known[n] : b \in 1 .. Len(blocks)
        BY DEF TimestampInv, NodesInv
    <2> QED  BY <2>1, <2>2, Zenon DEF OneTimestampPerBlock, HomeInv
<1>2. Spec => []HomeInv
    BY HomeInit, HomeStep, TimestampAlways, PTL DEF Spec
<1> QED  BY <1>1, <1>2, TimestampAlways, PTL
=============================================================================
