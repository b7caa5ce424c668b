--------------------------- MODULE WalletSyncProofs ---------------------------
(***************************************************************************)
(* Proofs about WalletSync, for any tree of blocks, any transactions, any  *)
(* number of crashes and failed calls and a node that moves at any time.   *)
(*                                                                         *)
(* The writes that are ahead touch the table of block hashes with the      *)
(* first of them at most, and only when the loop variable has already gone *)
(* on: what a crash or a failed call leaves is a table without gaps.       *)
(***************************************************************************)
EXTENDS WalletSync, FiniteSetTheorems, WellFoundedInduction, TLAPS

-----------------------------------------------------------------------------
(* Induction over the numbers, stated with a set in place of the operator  *)
(* parameter of the library's theorem.                                     *)

\* A set of numbers that is not empty has a least one.
LEMMA LeastNumber ==
    ASSUME NEW T \in SUBSET Nat, T # {}
    PROVE  \E m \in T : \A k \in T : m <= k
<1>1. \E R : IsWellFoundedOn(R, Nat) /\ \A x, y \in Nat : <<x, y>> \in R <=> x < y
    <2> DEFINE R == OpToRel(<, Nat)
    <2>1. IsWellFoundedOn(R, Nat)
        BY NatLessThanWellFounded
    <2>2. \A x, y \in Nat : <<x, y>> \in R <=> x < y
        BY DEF OpToRel
    <2> HIDE DEF R
    <2> QED  BY <2>1, <2>2
<1>2. PICK R : IsWellFoundedOn(R, Nat) /\ \A x, y \in Nat : <<x, y>> \in R <=> x < y
    BY <1>1
<1>3. T \subseteq Nat /\ IsWellFoundedOn(R, Nat)
    BY <1>2
<1>4. PICK m \in T : \A y \in T : ~(<<y, m>> \in R)
    BY <1>3, WFMin, Zenon
<1>5. ASSUME NEW k \in T PROVE m <= k
    <2>1. ~(k < m) /\ k \in Nat /\ m \in Nat
        BY <1>2, <1>3, <1>4
    <2> QED  BY <2>1
<1> QED  BY <1>5

\* Induction over the numbers.
LEMMA NumbersByInduction ==
    ASSUME NEW T, 0 \in T, \A n \in Nat : n \in T => n + 1 \in T
    PROVE  Nat \subseteq T
<1> SUFFICES ASSUME NEW x \in Nat, x \notin T PROVE FALSE
    OBVIOUS
<1>1. PICK m \in Nat \ T : \A k \in Nat \ T : m <= k
    <2>1. Nat \ T \in SUBSET Nat /\ Nat \ T # {}
        OBVIOUS
    <2> QED  BY <2>1, LeastNumber
<1>2. m # 0 /\ m - 1 \in Nat
    BY <1>1
<1>3. m - 1 \in T
    BY <1>1, <1>2
<1> QED  BY <1>2, <1>3

-----------------------------------------------------------------------------
(* The tree of blocks.                                                     *)

\* Header numbers count the blocks below.
Counts(number) ==
    /\ number \in [Block -> 0 .. MaxNumber] /\ number[Genesis] = 0
    /\ \A b \in Block \ {Genesis} : number[b] = number[Parent[b]] + 1

Below(number, n) == {b \in Block : number[b] <= n}

Paths(P, S) == P = [b \in S |-> IF b = Genesis THEN <<b>> ELSE Append(P[Parent[b]], b)]

LEMMA PathsExist ==
    ASSUME NEW number, Counts(number), NEW n \in Nat
    PROVE  \E P : Paths(P, Below(number, n))
<1> DEFINE Step(P, b) == IF b = Genesis THEN <<b>> ELSE Append(P[Parent[b]], b)
           T == {m \in Nat : \E P : Paths(P, Below(number, m))}
<1>1. ASSUME NEW m \in Nat, NEW b \in Below(number, m), b # Genesis
      PROVE  Parent[b] \in Below(number, m) /\ m # 0 /\ Parent[b] \in Below(number, m - 1)
    <2>1. b \in Block \ {Genesis} /\ number[b] \in Nat /\ number[b] <= m
        BY <1>1 DEF Below, Counts
    <2>2. Parent[b] \in Block /\ number[b] = number[Parent[b]] + 1
        BY <2>1, TreeAssumption DEF Counts
    <2>3. number[Parent[b]] \in Nat
        BY <2>2 DEF Counts
    <2> QED  BY <2>1, <2>2, <2>3 DEF Below
<1>2. 0 \in T
    <2>1. PICK P : P = [b \in Below(number, 0) |-> <<b>>]
        OBVIOUS
    <2>2. \A b \in Below(number, 0) : b = Genesis
        BY <1>1
    <2>3. Paths(P, Below(number, 0))
        BY <2>1, <2>2 DEF Paths
    <2> QED  BY <2>3
<1>3. ASSUME NEW m \in Nat, m \in T PROVE m + 1 \in T
    <2>1. PICK P : Paths(P, Below(number, m))
        BY <1>3
    <2>2. PICK Q : Q = [b \in Below(number, m + 1) |-> Step(P, b)]
        OBVIOUS
    <2>3. \A b \in Below(number, m) : b \in Below(number, m + 1) /\ P[b] = Step(P, b)
        <3>1. Below(number, m) \subseteq Below(number, m + 1)
            BY DEF Below, Counts
        <3>2. P = [b \in Below(number, m) |-> Step(P, b)]
            BY <2>1 DEF Paths
        <3>3. \A b \in Below(number, m) : P[b] = Step(P, b)
            <4> HIDE DEF Step
            <4> QED  BY <3>2
        <3> QED  BY <3>1, <3>3
    <2>4. ASSUME NEW b \in Below(number, m) PROVE Q[b] = P[b]
        <3> HIDE DEF Step
        <3> QED  BY <2>2, <2>3
    <2>5. ASSUME NEW b \in Below(number, m + 1) PROVE Step(Q, b) = Step(P, b)
        <3>1. CASE b = Genesis
            BY <3>1
        <3>2. CASE b # Genesis
            <4>1. Parent[b] \in Below(number, (m + 1) - 1)
                BY <1>1, <3>2
            <4>2. Parent[b] \in Below(number, m)
                BY <4>1
            <4> QED  BY <2>4, <4>2
        <3> QED  BY <3>1, <3>2
    <2>6. Q = [b \in Below(number, m + 1) |-> Step(Q, b)]
        <3> HIDE DEF Step
        <3> QED  BY <2>2, <2>5
    <2>7. Paths(Q, Below(number, m + 1))
        BY <2>6 DEF Paths
    <2> QED  BY <2>7
<1>4. Nat \subseteq T
    <2> HIDE DEF T
    <2> QED  BY <1>2, <1>3, NumbersByInduction
<1> QED  BY <1>4

LEMMA PathIs ==
    /\ Path[Genesis] = <<Genesis>>
    /\ \A b \in Block \ {Genesis} : Path[b] = Append(Path[Parent[b]], b)
<1> DEFINE Step(P, b) == IF b = Genesis THEN <<b>> ELSE Append(P[Parent[b]], b)
<1>1. PICK number : Counts(number)
    BY TreeAssumption DEF Counts
<1>2. Below(number, MaxNumber) = Block
    BY <1>1, TreeAssumption DEF Below, Counts
<1>3. PICK P : Paths(P, Block)
    BY <1>1, <1>2, PathsExist, TreeAssumption
<1>4. PICK Q : Q = Path
    OBVIOUS
<1>5. Q = CHOOSE R : R = [b \in Block |-> Step(R, b)]
    BY <1>4 DEF Path
<1>6. Q = [b \in Block |-> Step(Q, b)]
    <2>1. P = [b \in Block |-> Step(P, b)]
        BY <1>3 DEF Paths
    <2> HIDE DEF Step
    <2> QED  BY <1>5, <2>1
<1>7. \A b \in Block : Q[b] = Step(Q, b)
    <2> HIDE DEF Step
    <2> QED  BY <1>6
<1> QED  BY <1>4, <1>7, TreeAssumption

\* Every block is at the end of its path, which starts with the genesis block, and the
\* blocks on it have the numbers of their places.
Placed(b) ==
    /\ Path[b] \in Seq(Block) /\ Len(Path[b]) \in 1 .. MaxNumber + 1
    /\ Path[b][1] = Genesis /\ Path[b][Len(Path[b])] = b
    /\ \A i \in 1 .. Len(Path[b]) : Len(Path[Path[b][i]]) = i
    /\ Len(Path[b]) = 1 => b = Genesis

LEMMA BlocksPlaced == \A b \in Block : Placed(b)
<1>1. PICK number : Counts(number)
    BY TreeAssumption DEF Counts
<1> DEFINE T == {n \in Nat : \A b \in Block : number[b] = n => Placed(b) /\ Len(Path[b]) = n + 1}
<1>2. Placed(Genesis) /\ Len(Path[Genesis]) = 1
    <2>1. Path[Genesis] = <<Genesis>> /\ Genesis \in Block /\ MaxNumber \in Nat
        BY PathIs, TreeAssumption
    <2>2. Len(Path[Genesis]) = 1 /\ Path[Genesis][1] = Genesis /\ Path[Genesis] \in Seq(Block)
        BY <2>1
    <2>3. \A i \in 1 .. 1 : i = 1
        OBVIOUS
    <2>4. \A i \in 1 .. Len(Path[Genesis]) : Len(Path[Path[Genesis][i]]) = i
        BY <2>2, <2>3
    <2> QED  BY <2>1, <2>2, <2>4 DEF Placed
<1>3. ASSUME NEW b \in Block, number[b] = 0 PROVE b = Genesis
    <2> SUFFICES ASSUME b # Genesis PROVE FALSE
        OBVIOUS
    <2>1. Parent[b] \in Block /\ number[b] = number[Parent[b]] + 1
        BY <1>1, TreeAssumption DEF Counts
    <2>2. number[Parent[b]] \in Nat
        BY <1>1, <2>1 DEF Counts
    <2> QED  BY <1>3, <2>1, <2>2
<1>4. 0 \in T
    BY <1>2, <1>3
<1>5. ASSUME NEW n \in Nat, n \in T PROVE n + 1 \in T
    <2> SUFFICES ASSUME NEW b \in Block, number[b] = n + 1
                 PROVE  Placed(b) /\ Len(Path[b]) = n + 2
        OBVIOUS
    <2>1. b # Genesis /\ n + 1 <= MaxNumber /\ MaxNumber \in Nat
        BY <1>1, TreeAssumption DEF Counts
    <2>2. PICK p : p = Parent[b]
        OBVIOUS
    <2>3. p \in Block /\ number[b] = number[p] + 1 /\ number[p] \in Nat
        BY <1>1, <2>1, <2>2, TreeAssumption DEF Counts
    <2>4. Placed(p) /\ Len(Path[p]) = n + 1
        BY <1>5, <2>3
    <2>5. PICK s : s = Path[p]
        OBVIOUS
    <2>6. /\ s \in Seq(Block) /\ Len(s) = n + 1 /\ s[1] = Genesis
          /\ \A i \in 1 .. n + 1 : Len(Path[s[i]]) = i
        BY <2>4, <2>5 DEF Placed
    <2>7. Path[b] = Append(s, b)
        BY <2>1, <2>2, <2>5, PathIs
    <2>8. /\ Path[b] \in Seq(Block) /\ Len(Path[b]) = n + 2 /\ Path[b][n + 2] = b
          /\ \A i \in 1 .. n + 1 : Path[b][i] = s[i]
        BY <2>6, <2>7
    <2>9. \A i \in 1 .. n + 2 : Len(Path[Path[b][i]]) = i
        <3> SUFFICES ASSUME NEW i \in 1 .. n + 2 PROVE Len(Path[Path[b][i]]) = i
            OBVIOUS
        <3>1. CASE i = n + 2
            BY <2>8, <3>1
        <3>2. CASE i \in 1 .. n + 1
            BY <2>6, <2>8, <3>2
        <3> QED  BY <3>1, <3>2
    <2>10. Path[b][1] = Genesis
        BY <2>6, <2>8
    <2> QED  BY <2>1, <2>8, <2>9, <2>10 DEF Placed
<1>6. Nat \subseteq T
    <2> HIDE DEF T
    <2> QED  BY <1>4, <1>5, NumbersByInduction
<1>7. \A b \in Block : number[b] \in Nat
    BY <1>1 DEF Counts
<1> QED  BY <1>6, <1>7

LEMMA NumberType ==
    ASSUME NEW b \in Block
    PROVE  Number(b) \in 0 .. MaxNumber /\ (Number(b) = 0 => b = Genesis)
<1>1. Placed(b) /\ MaxNumber \in Nat
    BY BlocksPlaced, TreeAssumption
<1> QED  BY <1>1 DEF Placed, Number

LEMMA GenesisNumber == Genesis \in Block /\ Number(Genesis) = 0
BY PathIs, TreeAssumption DEF Number

\* What chain_getBlockHash returns for a height has that height.
LEMMA NodeHashIs ==
    ASSUME best \in Block, NEW n \in Nat
    PROVE  /\ NodeHash(n) \in Block \cup {None}
           /\ NodeHash(n) # None => NodeHash(n) \in Block /\ Number(NodeHash(n)) = n
           /\ NodeHash(0) = Genesis
<1>1. Placed(best) /\ None \notin Block
    BY BlocksPlaced, TreeAssumption
<1>2. PICK s : s = Path[best]
    OBVIOUS
<1>3. /\ s \in Seq(Block) /\ Len(s) \in Nat \ {0} /\ s[1] = Genesis
      /\ \A i \in 1 .. Len(s) : Len(Path[s[i]]) = i
    BY <1>1, <1>2 DEF Placed
<1>4. NodeHash(0) = Genesis
    BY <1>2, <1>3 DEF NodeHash
<1>5. CASE n < Len(s)
    <2>1. NodeHash(n) = s[n + 1] /\ n + 1 \in 1 .. Len(s)
        BY <1>2, <1>3, <1>5 DEF NodeHash
    <2>2. s[n + 1] \in Block /\ Len(Path[s[n + 1]]) = n + 1
        BY <1>3, <2>1
    <2>3. Number(NodeHash(n)) = n
        BY <2>1, <2>2 DEF Number
    <2> QED  BY <1>4, <2>1, <2>2, <2>3
<1>6. CASE ~(n < Len(s))
    BY <1>2, <1>4, <1>6 DEF NodeHash
<1> QED  BY <1>5, <1>6

-----------------------------------------------------------------------------
(* The writes.                                                             *)

Flattens(f, seqs, m) ==
    f = [i \in 1 .. m |-> IF i = 1 THEN seqs[i] ELSE f[i - 1] \o seqs[i]]

LEMMA FlattensExist ==
    ASSUME NEW seqs, NEW n \in Nat
    PROVE  \E f : Flattens(f, seqs, n)
<1> DEFINE Step(f, i) == IF i = 1 THEN seqs[i] ELSE f[i - 1] \o seqs[i]
           T == {m \in Nat : \E f : Flattens(f, seqs, m)}
<1>1. 0 \in T
    <2>1. PICK f : f = [i \in 1 .. 0 |-> <<>>]
        OBVIOUS
    <2>2. Flattens(f, seqs, 0)
        BY <2>1 DEF Flattens
    <2> QED  BY <2>2
<1>2. ASSUME NEW m \in Nat, m \in T PROVE m + 1 \in T
    <2>1. PICK f : Flattens(f, seqs, m)
        BY <1>2
    <2>2. PICK g : g = [i \in 1 .. m + 1 |-> Step(f, i)]
        OBVIOUS
    <2>3. \A i \in 1 .. m : f[i] = Step(f, i)
        <3>1. f = [i \in 1 .. m |-> Step(f, i)]
            BY <2>1 DEF Flattens
        <3> HIDE DEF Step
        <3> QED  BY <3>1
    <2>4. \A i \in 1 .. m : g[i] = f[i]
        <3> HIDE DEF Step
        <3> QED  BY <2>2, <2>3
    <2>5. ASSUME NEW i \in 1 .. m + 1 PROVE Step(g, i) = Step(f, i)
        <3>1. i = 1 \/ i - 1 \in 1 .. m
            OBVIOUS
        <3> QED  BY <2>4, <3>1
    <2>6. g = [i \in 1 .. m + 1 |-> Step(g, i)]
        <3> HIDE DEF Step
        <3> QED  BY <2>2, <2>5
    <2>7. Flattens(g, seqs, m + 1)
        BY <2>6 DEF Flattens
    <2> QED  BY <2>7
<1>3. Nat \subseteq T
    <2> HIDE DEF T
    <2> QED  BY <1>1, <1>2, NumbersByInduction
<1> QED  BY <1>3

\* FlattenSeq of sequences of something is a sequence of it.
LEMMA FlattenType ==
    ASSUME NEW S, NEW seqs \in Seq(Seq(S))
    PROVE  FlattenSeq(seqs) \in Seq(S)
<1>1. CASE Len(seqs) = 0
    BY <1>1 DEF FlattenSeq
<1>2. CASE Len(seqs) # 0
    <2> DEFINE Step(f, i) == IF i = 1 THEN seqs[i] ELSE f[i - 1] \o seqs[i]
    <2>1. PICK n \in Nat \ {0} : n = Len(seqs)
        BY <1>2
    <2>2. \A i \in 1 .. n : seqs[i] \in Seq(S)
        BY <2>1
    <2>3. PICK f : f = CHOOSE h : Flattens(h, seqs, n)
        OBVIOUS
    <2>8. Flattens(f, seqs, n)
        BY <2>3, FlattensExist
    <2>9. FlattenSeq(seqs) = f[n]
        BY <1>2, <2>1, <2>3 DEF FlattenSeq, Flattens
    <2>10. \A i \in 1 .. n : f[i] = Step(f, i)
        <3>1. f = [i \in 1 .. n |-> Step(f, i)]
            BY <2>8 DEF Flattens
        <3> HIDE DEF Step
        <3> QED  BY <3>1
    <2> DEFINE U == {m \in Nat : m + 1 <= n => f[m + 1] \in Seq(S)}
    <2>11. 0 \in U
        BY <2>2, <2>10
    <2>12. ASSUME NEW m \in Nat, m \in U PROVE m + 1 \in U
        <3> SUFFICES ASSUME m + 2 <= n PROVE f[m + 2] \in Seq(S)
            OBVIOUS
        <3>1. f[m + 2] = f[m + 1] \o seqs[m + 2] /\ m + 2 \in 1 .. n /\ f[m + 1] \in Seq(S)
            <4>1. m + 2 \in 1 .. n /\ m + 2 # 1 /\ (m + 2) - 1 = m + 1 /\ m + 1 <= n
                OBVIOUS
            <4>2. f[m + 2] = f[(m + 2) - 1] \o seqs[m + 2]
                BY <2>10, <4>1
            <4> QED  BY <2>12, <4>1, <4>2
        <3> QED  BY <2>2, <3>1
    <2>13. Nat \subseteq U
        <3> HIDE DEF U
        <3> QED  BY <2>11, <2>12, NumbersByInduction
    <2>14. n - 1 \in U /\ (n - 1) + 1 = n
        BY <2>13
    <2> QED  BY <2>9, <2>14
<1> QED  BY <1>1, <1>2

-----------------------------------------------------------------------------
(* The writes that leave BLOCK_HASHES alone, and those that open_db and     *)
(* the genesis block need.                                                 *)

QuietWrite ==
    [op : {"spend", "unspend", "drop"}, arg : Ref]
    \cup [op : {"add", "put_spent"}, arg : Coins]
    \cup [op : {"time"}, arg : Timestamps]
    \cup [op : {"put_block", "take_block"}, arg : Block]

OpeningWrite == QuietWrite \cup {Do("put_hash", Genesis)}

\* The first write is w and the others leave BLOCK_HASHES alone.
Opens(w, s) ==
    s \in Seq(QuietWrite \cup {w}) /\ s # <<>> /\ Head(s) = w /\ Tail(s) \in Seq(QuietWrite)

\* The table has exactly the numbers below k.
Filled(k) == \A n \in 0 .. MaxNumber : hashes[n] # None <=> n < k

\* How the loop variable and the writes ahead fit the height of the table.
InStep(k) ==
    /\ pc \in {"down", "synced", "fetch"} => todo = <<>>
    /\ pc = "open" => /\ todo \in Seq(OpeningWrite)
                      /\ k = 0 => todo # <<>> /\ Head(todo) = Do("put_hash", Genesis)
    /\ pc \in {"compare", "ask", "fetch"} => k > 0
    /\ pc = "compare" => \/ todo \in Seq(QuietWrite) /\ height = k - 1
                         \/ /\ \E b \in Block : Opens(Do("take_hash", b), todo)
                            /\ k > 1 /\ height = k - 2
    /\ pc = "ask" => \/ todo \in Seq(QuietWrite) /\ height = k
                     \/ /\ \E b \in Block : Number(b) = k /\ Opens(Do("put_hash", b), todo)
                        /\ height = k + 1
    /\ pc = "fetch" => height = k /\ hash \in Block /\ Number(hash) = k

Tables ==
    /\ best \in Block
    /\ hashes \in [0 .. MaxNumber -> Block \cup {None}] /\ hashes[0] \in {Genesis, None}
    /\ blocks \subseteq Block
    /\ unspent \subseteq Coins /\ spent \subseteq Coins
    /\ timestamp \in Timestamps \cup {None}

Process ==
    /\ exists \in BOOLEAN
    /\ pc \in {"down", "open", "compare", "ask", "fetch", "synced"}
    /\ height \in 0 .. MaxNumber + 1
    /\ hash \in Block \cup {None}
    /\ failures \in 0 .. MaxFailures /\ crashes \in 0 .. MaxCrashes /\ moves \in 0 .. MaxMoves
    /\ nodeMoved \in BOOLEAN /\ rolledBack \in BOOLEAN

SyncInv ==
    /\ Tables
    /\ Process
    /\ \E k \in 0 .. MaxNumber + 1 : Filled(k) /\ InStep(k)

\* height() is one less than the number of entries.
LEMMA HeightIs ==
    ASSUME NEW k \in 0 .. MaxNumber + 1, Filled(k)
    PROVE  Height = k - 1
<1>1. MaxNumber \in Nat
    BY TreeAssumption
<1>2. {n \in 0 .. MaxNumber : hashes[n] # None} = 0 .. k - 1
    BY <1>1 DEF Filled
<1>3. Cardinality(0 .. k - 1) = k
    BY <1>1, FS_Interval
<1> QED  BY <1>1, <1>2, <1>3 DEF Height

LEMMA ListIsSeq ==
    ASSUME NEW S, NEW n \in Nat, NEW f \in [1 .. n -> S]
    PROVE  f \in Seq(S)
OBVIOUS

LEMMA SeqInto ==
    ASSUME NEW S, NEW U, NEW t \in Seq(U), \A i \in 1 .. Len(t) : t[i] \in S
    PROVE  t \in Seq(S)
<1>1. PICK n \in Nat : n = Len(t)
    OBVIOUS
<1>2. t = [i \in 1 .. n |-> t[i]]
    BY <1>1
<1>3. t \in [1 .. n -> S]
    BY <1>1, <1>2
<1> QED  BY <1>3, ListIsSeq

LEMMA PairAhead ==
    ASSUME NEW O, NEW p \in O, NEW q \in O, NEW s \in Seq(O)
    PROVE  /\ <<p, q>> \o s \in Seq(O) /\ <<p, q>> \o s # <<>> /\ Head(<<p, q>> \o s) = p
           /\ <<>> \o s = s
OBVIOUS

LEMMA ConcatQuiet ==
    ASSUME NEW S, NEW s \in Seq(S), NEW t \in Seq(S)
    PROVE  s \o t \in Seq(S)
OBVIOUS

LEMMA ApplyTransactionQuiet ==
    ASSUME NEW t \in Tx
    PROVE  ApplyTransaction(t) \in Seq(QuietWrite)
<1>1. PICK ins \in Seq(Ref), outs \in Seq(Ref) : ins = Inputs[t] /\ outs = Outputs[t]
    BY TreeAssumption
<1>2. \A ref \in Ref : ApplyOutput(ref) \in Seq(QuietWrite)
    <2> TAKE ref \in Ref
    <2>1. ref \in Coins => Do("add", ref) \in QuietWrite
        BY DEF QuietWrite, Do
    <2>2. ref \in Timestamps => Do("time", ref) \in QuietWrite
        BY DEF QuietWrite, Do
    <2> QED  BY <2>1, <2>2 DEF ApplyOutput
<1>3. [n \in DOMAIN outs |-> ApplyOutput(outs[n])] \in Seq(Seq(QuietWrite))
    <2> PICK n \in Nat : n = Len(outs) /\ DOMAIN outs = 1 .. n
        OBVIOUS
    <2>1. [i \in DOMAIN outs |-> ApplyOutput(outs[i])] \in [1 .. n -> Seq(QuietWrite)]
        BY <1>2
    <2> QED  BY <2>1, ListIsSeq
<1>4. FlattenSeq([n \in DOMAIN outs |-> ApplyOutput(outs[n])]) \in Seq(QuietWrite)
    BY <1>3, FlattenType
<1>5. \A ref \in Ref : Do("spend", ref) \in QuietWrite
    BY DEF QuietWrite, Do
<1>6. [n \in DOMAIN ins |-> Do("spend", ins[n])] \in Seq(QuietWrite)
    BY <1>5
<1> QED  BY <1>1, <1>4, <1>6, ConcatQuiet DEF ApplyTransaction

LEMMA UnapplyTransactionQuiet ==
    ASSUME NEW t \in Tx
    PROVE  UnapplyTransaction(t) \in Seq(QuietWrite)
<1>1. PICK ins \in Seq(Ref), outs \in Seq(Ref) : ins = Inputs[t] /\ outs = Outputs[t]
    BY TreeAssumption
<1>2. \A ref \in Ref : Do("unspend", ref) \in QuietWrite /\ Do("drop", ref) \in QuietWrite
    BY DEF QuietWrite, Do
<1>3. [n \in DOMAIN ins |-> Do("unspend", ins[n])] \in Seq(QuietWrite)
    BY <1>2
<1>4. [n \in DOMAIN outs |-> Do("drop", outs[n])] \in Seq(QuietWrite)
    BY <1>2
<1> QED  BY <1>1, <1>3, <1>4, ConcatQuiet DEF UnapplyTransaction

\* Two writes ahead of quiet ones.
LEMMA TwoAhead ==
    ASSUME NEW v, NEW w \in QuietWrite, NEW s \in Seq(QuietWrite)
    PROVE  Opens(v, <<v, w>> \o s)
<1> PICK Q : Q = QuietWrite
    BY Zenon
<1>1. s \in Seq(Q) /\ w \in Q
    OBVIOUS
<1>2. PICK U : U = Q \cup {v}
    BY Zenon
<1>3. <<v, w>> \in Seq(U) /\ s \in Seq(U)
    BY <1>1, <1>2
<1>4. PICK r : r = <<v, w>> \o s
    BY Zenon
<1>5. r \in Seq(U) /\ Len(r) = Len(s) + 2 /\ r # <<>> /\ r[1] = v /\ r[2] = w
    BY <1>3, <1>4
<1>6. \A i \in 1 .. Len(s) : r[i + 2] = s[i] /\ s[i] \in Q
    BY <1>1, <1>3, <1>4
<1>7. Tail(r) \in Seq(Q)
    <2>1. /\ Tail(r) \in Seq(U) /\ Len(Tail(r)) = Len(s) + 1
          /\ \A i \in 1 .. Len(s) + 1 : Tail(r)[i] = r[i + 1]
        BY <1>3, <1>5
    <2>2. \A i \in 1 .. Len(s) + 1 : r[i + 1] \in Q
        <3> TAKE i \in 1 .. Len(s) + 1
        <3>1. CASE i = 1
            BY <1>1, <1>5, <3>1
        <3>2. CASE i # 1
            <4>1. i - 1 \in 1 .. Len(s) /\ r[(i - 1) + 2] = s[i - 1]
                BY <1>1, <1>6, <3>2
            <4> QED  BY <1>1, <1>6, <4>1
        <3> QED  BY <3>1, <3>2
    <2>3. PICK q : q = Tail(r)
        BY Zenon
    <2>4. q \in Seq(U) /\ \A i \in 1 .. Len(q) : q[i] \in Q
        BY <2>1, <2>2, <2>3
    <2>5. q \in Seq(Q)
        BY <2>4, SeqInto
    <2> QED  BY <2>3, <2>5
<1>8. U = QuietWrite \cup {v}
    BY <1>2
<1> QED  BY <1>4, <1>5, <1>7, <1>8 DEF Opens

LEMMA TransactionsQuiet ==
    ASSUME NEW b \in Block
    PROVE  FlattenSeq([n \in DOMAIN Txs[b] |-> ApplyTransaction(Txs[b][n])]) \in Seq(QuietWrite)
<1>1. PICK txs \in Seq(Tx) : txs = Txs[b]
    BY TreeAssumption
<1>2. PICK m \in Nat : m = Len(txs) /\ DOMAIN txs = 1 .. m
    BY <1>1
<1>3. [n \in DOMAIN txs |-> ApplyTransaction(txs[n])] \in [1 .. m -> Seq(QuietWrite)]
    BY <1>1, <1>2, ApplyTransactionQuiet
<1>4. [n \in DOMAIN txs |-> ApplyTransaction(txs[n])] \in Seq(Seq(QuietWrite))
    BY <1>3, ListIsSeq
<1> QED  BY <1>1, <1>4, FlattenType

LEMMA ApplyBlockOpens ==
    ASSUME NEW b \in Block
    PROVE  Opens(Do("put_hash", b), ApplyBlock(b))
<1>1. Do("put_block", b) \in QuietWrite
    BY DEF QuietWrite, Do
<1> QED  BY <1>1, TransactionsQuiet, TwoAhead DEF ApplyBlock

LEMMA UnapplyBlockOpens ==
    ASSUME NEW b \in Block
    PROVE  Opens(Do("take_hash", b), UnapplyBlock(b))
<1>1. PICK txs \in Seq(Tx) : txs = Txs[b]
    BY TreeAssumption
<1>2. \A n \in DOMAIN txs : Reverse(txs)[n] \in Tx
    BY <1>1 DEF Reverse
<1>3. [n \in DOMAIN txs |-> UnapplyTransaction(Reverse(txs)[n])] \in Seq(Seq(QuietWrite))
    <2> PICK n \in Nat : n = Len(txs) /\ DOMAIN txs = 1 .. n
        OBVIOUS
    <2>1. [i \in DOMAIN txs |-> UnapplyTransaction(Reverse(txs)[i])] \in [1 .. n -> Seq(QuietWrite)]
        BY <1>2, UnapplyTransactionQuiet
    <2> QED  BY <2>1, ListIsSeq
<1>4. FlattenSeq([n \in DOMAIN txs |-> UnapplyTransaction(Reverse(txs)[n])]) \in Seq(QuietWrite)
    BY <1>3, FlattenType
<1>5. Do("take_block", b) \in QuietWrite
    BY DEF QuietWrite, Do
<1> QED  BY <1>1, <1>4, <1>5, TwoAhead DEF UnapplyBlock

-----------------------------------------------------------------------------
(* One write.                                                              *)

LEMMA QuietFields ==
    ASSUME NEW w \in QuietWrite
    PROVE  /\ w.op \notin {"put_hash", "take_hash"}
           /\ w.op \in {"add", "put_spent"} => w.arg \in Coins
           /\ w.op = "time" => w.arg \in Timestamps
           /\ w.op \in {"put_block", "take_block"} => w.arg \in Block
BY DEF QuietWrite

LEMMA QuietStep ==
    ASSUME Tables, Write, Head(todo) \in QuietWrite
    PROVE  /\ Tables' /\ hashes' = hashes
           /\ \/ pc' = "down" /\ todo' = <<>>
              \/ pc' = pc /\ todo' = Tail(todo)
              \/ pc' = pc /\ \E w \in QuietWrite : todo' = <<w>> \o Tail(todo)
<1>1. PICK op, arg : op = Head(todo).op /\ arg = Head(todo).arg
    BY Zenon
<1>2. /\ op \notin {"put_hash", "take_hash"}
      /\ op \in {"add", "put_spent"} => arg \in Coins
      /\ op = "time" => arg \in Timestamps
      /\ op \in {"put_block", "take_block"} => arg \in Block
    BY <1>1, QuietFields
<1>3. hashes' = hashes /\ best' = best
    BY <1>1, <1>2 DEF Write
<1>4. blocks' \subseteq Block
    BY <1>1, <1>2 DEF Write, Tables
<1>5. unspent' \subseteq Coins
    BY <1>1, <1>2 DEF Write, Tables
<1>6. spent' \subseteq Coins
    BY <1>1, <1>2 DEF Write, Tables
<1>7. timestamp' \in Timestamps \cup {None}
    BY <1>1, <1>2 DEF Write, Tables
<1>8. \A a \in Coins : Do("put_spent", a) \in QuietWrite /\ Do("add", a) \in QuietWrite
    BY DEF QuietWrite, Do
<1>9. \/ pc' = "down" /\ todo' = <<>>
      \/ pc' = pc /\ todo' = Tail(todo)
      \/ pc' = pc /\ \E w \in QuietWrite : todo' = <<w>> \o Tail(todo)
    <2>1. CASE op = "take_block" /\ arg \notin blocks
        BY <1>1, <2>1 DEF Write
    <2>2. CASE op = "spend" /\ arg \in unspent
        BY <1>1, <1>8, <2>2 DEF Write, Tables
    <2>3. CASE op = "unspend" /\ arg \in spent
        BY <1>1, <1>8, <2>3 DEF Write, Tables
    <2>4. CASE /\ ~(op = "take_block" /\ arg \notin blocks)
               /\ ~(op = "spend" /\ arg \in unspent) /\ ~(op = "unspend" /\ arg \in spent)
        BY <1>1, <2>4 DEF Write
    <2> QED  BY <2>1, <2>2, <2>3, <2>4, Zenon
<1> QED  BY <1>3, <1>4, <1>5, <1>6, <1>7, <1>9 DEF Tables

LEMMA HashStep ==
    ASSUME Tables, Write, NEW b \in Block, NEW op \in {"put_hash", "take_hash"},
           Head(todo) = Do(op, b)
    PROVE  /\ pc' = pc /\ todo' = Tail(todo)
           /\ UNCHANGED <<best, blocks, unspent, spent, timestamp>>
           /\ op = "put_hash" => hashes' = [hashes EXCEPT ![Number(b)] = b]
           /\ op = "take_hash" => hashes' = [hashes EXCEPT ![Height] = None]
<1>1. Head(todo).op = op /\ Head(todo).arg = b
    BY DEF Do
<1>2. pc' = pc /\ todo' = Tail(todo) /\ best' = best
    BY <1>1 DEF Write
<1>3. UNCHANGED <<blocks, unspent, spent, timestamp>>
    BY <1>1 DEF Write
<1>4. op = "put_hash" => hashes' = [hashes EXCEPT ![Number(b)] = b]
    BY <1>1 DEF Write
<1>5. op = "take_hash" => hashes' = [hashes EXCEPT ![Height] = None]
    BY <1>1 DEF Write
<1> QED  BY <1>2, <1>3, <1>4, <1>5

\* A quiet write at the head of writes from S leaves writes from S.
LEMMA QuietRest ==
    ASSUME NEW S, QuietWrite \subseteq S, todo \in Seq(S), Tables, Write, Head(todo) \in QuietWrite
    PROVE  todo' \in Seq(S)
<1>1. todo # <<>>
    BY DEF Write
<1>2. Tail(todo) \in Seq(S)
    BY <1>1
<1>3. \A w \in QuietWrite : <<w>> \o Tail(todo) \in Seq(S)
    BY <1>2
<1>4. <<>> \in Seq(S)
    OBVIOUS
<1> QED  BY <1>2, <1>3, <1>4, QuietStep

\* The three ways a write can stand at the head.
LEMMA HeadIs ==
    ASSUME NEW k, InStep(k), pc \in {"down", "open", "compare", "ask", "fetch", "synced"},
           todo # <<>>
    PROVE  \/ Head(todo) \in QuietWrite
           \/ pc = "open" /\ Head(todo) = Do("put_hash", Genesis)
           \/ /\ pc = "compare" /\ k > 1 /\ height = k - 2
              /\ \E b \in Block : Opens(Do("take_hash", b), todo)
           \/ /\ pc = "ask" /\ height = k + 1
              /\ \E b \in Block : Number(b) = k /\ Opens(Do("put_hash", b), todo)
<1>1. \A S : todo \in Seq(S) => Head(todo) \in S
    OBVIOUS
<1>2. todo \in Seq(OpeningWrite) => Head(todo) \in QuietWrite \/ Head(todo) = Do("put_hash", Genesis)
    BY <1>1 DEF OpeningWrite
<1>3. pc \in {"open", "compare", "ask"}
    BY DEF InStep
<1>4. CASE pc = "open"
    BY <1>2, <1>4 DEF InStep
<1>5. CASE pc = "compare"
    BY <1>1, <1>5 DEF InStep
<1>6. CASE pc = "ask"
    BY <1>1, <1>6 DEF InStep
<1> QED  BY <1>3, <1>4, <1>5, <1>6

LEMMA NotQuiet ==
    ASSUME NEW op \in {"put_hash", "take_hash"}, NEW b
    PROVE  Do(op, b) \notin QuietWrite
BY QuietFields DEF Do

\* What is left of the process when a write does not end it.
LEMMA WriteKeeps ==
    ASSUME Process, Write, pc' \in {pc, "down"}
    PROVE  Process' /\ height' = height /\ hash' = hash
<1>1. UNCHANGED <<exists, height, hash, failures, crashes, moves, nodeMoved>>
    BY DEF Write, events
<1>2. rolledBack' \in BOOLEAN
    BY Zenon DEF Write
<1> QED  BY <1>1, <1>2 DEF Process

LEMMA WriteQuiet ==
    ASSUME SyncInv, Write, Head(todo) \in QuietWrite
    PROVE  SyncInv'
<1>1. PICK k \in 0 .. MaxNumber + 1 : Filled(k) /\ InStep(k)
    BY DEF SyncInv
<1>2. /\ Tables' /\ hashes' = hashes /\ pc' \in {pc, "down"}
      /\ pc' = "down" /\ pc # "down" => todo' = <<>>
    BY <1>1, QuietStep DEF SyncInv
<1>3. Process' /\ height' = height /\ hash' = hash
    BY <1>2, WriteKeeps DEF SyncInv
<1>4. Filled(k)'
    BY <1>1, <1>2 DEF Filled
<1>5. todo # <<>>
    BY DEF Write
<1>6. todo \in Seq(QuietWrite) => todo' \in Seq(QuietWrite)
    BY QuietRest DEF SyncInv
<1>7. todo \in Seq(OpeningWrite) => todo' \in Seq(OpeningWrite)
    BY QuietRest DEF SyncInv, OpeningWrite
<1>8. \A op \in {"put_hash", "take_hash"} : \A b : Head(todo) # Do(op, b)
    BY NotQuiet
<1>9. \A op \in {"put_hash", "take_hash"} : \A b : ~ Opens(Do(op, b), todo)
    BY <1>8 DEF Opens
<1>10. InStep(k)'
    <2>1. CASE pc' = "down"
        BY <1>1, <1>2, <1>5, <2>1 DEF InStep
    <2>2. CASE pc' = pc /\ pc = "open"
        BY <1>1, <1>7, <1>8, <2>2 DEF InStep
    <2>3. CASE pc' = pc /\ pc = "compare"
        BY <1>1, <1>3, <1>6, <1>9, <2>3 DEF InStep
    <2>4. CASE pc' = pc /\ pc = "ask"
        BY <1>1, <1>3, <1>6, <1>9, <2>4 DEF InStep
    <2>5. pc \in {"open", "compare", "ask"}
        BY <1>1, <1>5 DEF InStep, SyncInv, Process
    <2> QED  BY <1>2, <2>1, <2>2, <2>3, <2>4, <2>5
<1> QED  BY <1>1, <1>2, <1>3, <1>4, <1>10 DEF SyncInv

\* The genesis hash fills the empty table or is already there.
LEMMA WriteGenesis ==
    ASSUME SyncInv, Write, pc = "open", Head(todo) = Do("put_hash", Genesis)
    PROVE  SyncInv'
<1>1. PICK k \in 0 .. MaxNumber + 1 : Filled(k) /\ InStep(k)
    BY DEF SyncInv
<1>2. MaxNumber \in Nat /\ Genesis \in Block /\ None \notin Block
    BY TreeAssumption
<1>3. /\ pc' = pc /\ todo' = Tail(todo) /\ hashes' = [hashes EXCEPT ![0] = Genesis]
      /\ UNCHANGED <<best, blocks, unspent, spent, timestamp>>
    BY HashStep, GenesisNumber DEF SyncInv
<1>4. Process'
    BY <1>3, WriteKeeps DEF SyncInv
<1>5. Tables'
    BY <1>2, <1>3 DEF SyncInv, Tables
<1>6. PICK m \in 1 .. MaxNumber + 1 : m = IF k = 0 THEN 1 ELSE k
    BY <1>2
<1>7. Filled(m)'
    <2> SUFFICES ASSUME NEW n \in 0 .. MaxNumber PROVE hashes'[n] # None <=> n < m
        BY DEF Filled
    <2>1. CASE n = 0
        BY <1>2, <1>3, <1>6, <2>1 DEF SyncInv, Tables
    <2>2. CASE n # 0
        BY <1>1, <1>2, <1>3, <1>6, <2>2 DEF SyncInv, Tables, Filled
    <2> QED  BY <2>1, <2>2
<1>8. todo' \in Seq(OpeningWrite)
    <2>1. todo \in Seq(OpeningWrite) /\ todo # <<>>
        BY <1>1 DEF InStep, Write
    <2> QED  BY <1>3, <2>1
<1>9. InStep(m)'
    BY <1>3, <1>6, <1>8 DEF InStep
<1> QED  BY <1>4, <1>5, <1>6, <1>7, <1>9 DEF SyncInv

\* unapply_highest_block takes the entry with the highest number.
LEMMA WriteTake ==
    ASSUME SyncInv, Write, pc = "compare",
           NEW k \in 0 .. MaxNumber + 1, Filled(k), k > 1, height = k - 2,
           NEW b \in Block, Opens(Do("take_hash", b), todo)
    PROVE  SyncInv'
<1>1. MaxNumber \in Nat
    BY TreeAssumption
<1>2. Height = k - 1
    BY HeightIs
<1>3. Head(todo) = Do("take_hash", b) /\ Tail(todo) \in Seq(QuietWrite)
    BY DEF Opens
<1>4. /\ pc' = pc /\ todo' = Tail(todo) /\ hashes' = [hashes EXCEPT ![k - 1] = None]
      /\ UNCHANGED <<best, blocks, unspent, spent, timestamp>>
    BY <1>2, <1>3, HashStep DEF SyncInv
<1>5. Process' /\ height' = height
    BY <1>4, WriteKeeps DEF SyncInv
<1>6. Tables'
    BY <1>1, <1>4 DEF SyncInv, Tables
<1>7. Filled(k - 1)'
    BY <1>1, <1>4 DEF SyncInv, Tables, Filled
<1>8. InStep(k - 1)'
    BY <1>1, <1>3, <1>4, <1>5 DEF InStep
<1>9. k - 1 \in 0 .. MaxNumber + 1
    BY <1>1
<1> QED  BY <1>5, <1>6, <1>7, <1>8, <1>9 DEF SyncInv

\* apply_block adds the entry with the next number.
LEMMA WritePut ==
    ASSUME SyncInv, Write, pc = "ask",
           NEW k \in 0 .. MaxNumber + 1, Filled(k), k > 0, height = k + 1,
           NEW b \in Block, Number(b) = k, Opens(Do("put_hash", b), todo)
    PROVE  SyncInv'
<1>1. MaxNumber \in Nat /\ None \notin Block /\ k \in 1 .. MaxNumber
    BY TreeAssumption, NumberType
<1>2. Head(todo) = Do("put_hash", b) /\ Tail(todo) \in Seq(QuietWrite)
    BY DEF Opens
<1>3. /\ pc' = pc /\ todo' = Tail(todo) /\ hashes' = [hashes EXCEPT ![k] = b]
      /\ UNCHANGED <<best, blocks, unspent, spent, timestamp>>
    BY <1>2, HashStep DEF SyncInv
<1>4. Process' /\ height' = height
    BY <1>3, WriteKeeps DEF SyncInv
<1>5. Tables'
    BY <1>1, <1>3 DEF SyncInv, Tables
<1>6. Filled(k + 1)'
    BY <1>1, <1>3 DEF SyncInv, Tables, Filled
<1>7. InStep(k + 1)'
    BY <1>1, <1>2, <1>3, <1>4 DEF InStep
<1>8. k + 1 \in 0 .. MaxNumber + 1
    BY <1>1
<1> QED  BY <1>4, <1>5, <1>6, <1>7, <1>8 DEF SyncInv

LEMMA WriteStep ==
    ASSUME SyncInv, Write
    PROVE  SyncInv'
<1>1. PICK k \in 0 .. MaxNumber + 1 : Filled(k) /\ InStep(k)
    BY DEF SyncInv
<1>2. pc \in {"compare", "ask"} => k > 0
    BY <1>1 DEF InStep
<1>3. \/ Head(todo) \in QuietWrite
      \/ pc = "open" /\ Head(todo) = Do("put_hash", Genesis)
      \/ /\ pc = "compare" /\ k > 1 /\ height = k - 2
         /\ \E b \in Block : Opens(Do("take_hash", b), todo)
      \/ /\ pc = "ask" /\ height = k + 1
         /\ \E b \in Block : Number(b) = k /\ Opens(Do("put_hash", b), todo)
    BY <1>1, HeadIs DEF SyncInv, Process, Write
<1> QED  BY <1>1, <1>2, <1>3, WriteQuiet, WriteGenesis, WriteTake, WritePut

-----------------------------------------------------------------------------
(* The other steps.                                                        *)

\* The writes of open_db and of the genesis block.
LEMMA OpeningWrites ==
    ASSUME NEW s, s = OpenDb \o (IF exists THEN <<>> ELSE ApplyBlock(Genesis))
    PROVE  /\ s \in Seq(OpeningWrite)
           /\ Height = -1 => s # <<>> /\ Head(s) = Do("put_hash", Genesis)
<1>1. PICK P, B, O : P = Do("put_hash", Genesis) /\ B = Do("put_block", Genesis) /\ O = OpeningWrite
    BY Zenon
<1>2. P \in O /\ B \in O
    BY <1>1, GenesisNumber DEF OpeningWrite, QuietWrite, Do
<1>3. ApplyBlock(Genesis) \in Seq(O)
    <2>1. PICK t \in Seq(QuietWrite) :
              t = FlattenSeq([n \in DOMAIN Txs[Genesis] |-> ApplyTransaction(Txs[Genesis][n])])
        BY TransactionsQuiet, GenesisNumber
    <2>2. \A i \in 1 .. Len(t) : t[i] \in O
        BY <1>1, <2>1 DEF OpeningWrite
    <2>3. t \in Seq(O) /\ <<P, B>> \in Seq(O)
        BY <1>2, <2>1, <2>2, SeqInto
    <2>4. <<P, B>> \o t \in Seq(O)
        BY <2>3, ConcatQuiet
    <2> QED  BY <1>1, <2>1, <2>4 DEF ApplyBlock
<1>4. PICK later : later = IF exists THEN <<>> ELSE ApplyBlock(Genesis)
    BY Zenon
<1>5. later \in Seq(O)
    BY <1>3, <1>4
<1>6. CASE Height = -1
    <2>1. s = <<P, B>> \o later
        BY <1>1, <1>4, <1>6 DEF OpenDb
    <2>2. s \in Seq(O) /\ s # <<>> /\ Head(s) = P
        <3>1. /\ <<P, B>> \o later \in Seq(O) /\ <<P, B>> \o later # <<>>
              /\ Head(<<P, B>> \o later) = P
            BY <1>2, <1>5, PairAhead
        <3> QED  BY <2>1, <3>1, Zenon
    <2> QED  BY <1>1, <2>2
<1>7. CASE Height # -1
    <2>1. s = <<>> \o later
        BY <1>4, <1>7 DEF OpenDb
    <2>2. s \in Seq(O)
        BY <1>2, <1>5, <2>1, PairAhead, Zenon
    <2> QED  BY <1>1, <1>7, <2>2
<1> QED  BY <1>6, <1>7

\* A step that leaves the tables alone.
LEMMA TablesStay ==
    ASSUME Tables, NEW k, Filled(k), UNCHANGED <<best, tables>>
    PROVE  Tables' /\ Filled(k)'
BY DEF Tables, Filled, tables

LEMMA OtherSteps ==
    ASSUME SyncInv, Next, ~ Write
    PROVE  SyncInv'
<1>1. PICK k \in 0 .. MaxNumber + 1 : Filled(k) /\ InStep(k)
    BY DEF SyncInv
<1>2. MaxNumber \in Nat /\ Height = k - 1
    BY <1>1, HeightIs, TreeAssumption
<1>3. \A n \in 0 .. MaxNumber : hashes[n] # None <=> n <= Height
    BY <1>1, <1>2 DEF Filled
<1> USE DEF SyncInv, events
<1>4. CASE Open
    <2>1. Process'
        BY <1>4 DEF Open, Process
    <2>2. InStep(k)'
        <3>1. todo' \in Seq(OpeningWrite)
            BY <1>4, OpeningWrites DEF Open
        <3>2. k = 0 => todo' # <<>> /\ Head(todo') = Do("put_hash", Genesis)
            BY <1>2, <1>4, OpeningWrites DEF Open
        <3> QED  BY <1>4, <3>1, <3>2 DEF Open, InStep
    <2> QED  BY <1>1, <1>4, <2>1, <2>2, TablesStay DEF Open
<1>5. CASE SkipSync
    <2>1. Process' /\ InStep(k)'
        BY <1>5 DEF SkipSync, Process, InStep
    <2> QED  BY <1>1, <1>5, <2>1, TablesStay DEF SkipSync
<1>6. CASE BeginSync
    <2>1. k > 0
        BY <1>1, <1>6 DEF BeginSync, InStep
    <2>2. height' = k - 1 /\ todo' = <<>> /\ pc' = "compare"
        BY <1>2, <1>6 DEF BeginSync
    <2>3. Process'
        BY <1>2, <1>6, <2>1, <2>2 DEF BeginSync, Process
    <2>4. InStep(k)'
        BY <2>1, <2>2 DEF InStep
    <2> QED  BY <1>1, <1>6, <2>3, <2>4, TablesStay DEF BeginSync
<1>7. CASE Compare
    <2>1. pc = "compare" /\ todo = <<>> /\ UNCHANGED <<best, tables, exists, hash, events, rolledBack>>
        BY <1>7 DEF Compare, Calling
    <2>2. k > 0 /\ height = k - 1
        <3>1. ASSUME NEW b \in Block PROVE ~ Opens(Do("take_hash", b), todo)
            BY <2>1 DEF Opens
        <3> QED  BY <1>1, <2>1, <3>1 DEF InStep
    <2>3. CASE hashes[height] = NodeHash(height)
        <3>1. pc' = "ask" /\ height' = k /\ todo' = <<>>
            BY <1>2, <1>7, <2>1, <2>2, <2>3 DEF Compare
        <3>2. Process'
            BY <1>2, <2>1, <2>2, <3>1 DEF Process
        <3>3. InStep(k)'
            BY <2>2, <3>1 DEF InStep
        <3> QED  BY <1>1, <2>1, <3>2, <3>3, TablesStay
    <2>4. CASE hashes[height] # NodeHash(height)
        <3>1. height \in Nat /\ height <= MaxNumber
            BY <1>2, <2>2
        <3>2. height # 0
            <4>1. NodeHash(0) = Genesis
                BY NodeHashIs DEF Tables
            <4>2. height = 0 => hashes[0] = Genesis
                BY <1>1, <1>2, <2>2 DEF Tables, Filled
            <4> QED  BY <2>4, <4>1, <4>2
        <3>3. PICK b \in Block : b = hashes[Height]
            BY <1>2, <1>3, <2>2, <3>1 DEF Tables
        <3>4. pc' = "compare" /\ height' = k - 2 /\ todo' = UnapplyBlock(b)
            BY <1>2, <1>7, <2>1, <2>2, <2>4, <3>3 DEF Compare
        <3>5. Opens(Do("take_hash", b), todo')
            BY <3>3, <3>4, UnapplyBlockOpens
        <3>6. k > 1
            BY <1>2, <2>2, <3>1, <3>2
        <3>7. Process'
            BY <1>2, <2>1, <3>4, <3>6 DEF Process
        <3>8. InStep(k)'
            BY <3>3, <3>4, <3>5, <3>6 DEF InStep, Opens
        <3> QED  BY <1>1, <2>1, <3>7, <3>8, TablesStay
    <2> QED  BY <2>3, <2>4
<1>8. CASE AskHash
    <2>1. /\ pc = "ask" /\ todo = <<>> /\ hash' = NodeHash(height)
          /\ pc' = IF NodeHash(height) = None THEN "synced" ELSE "fetch"
          /\ UNCHANGED <<best, tables, exists, height, todo, events, rolledBack>>
        BY <1>8 DEF AskHash, Calling
    <2>2. k > 0 /\ height = k
        <3>1. ASSUME NEW b \in Block PROVE ~ Opens(Do("put_hash", b), todo)
            BY <2>1 DEF Opens
        <3> QED  BY <1>1, <2>1, <3>1 DEF InStep
    <2>3. /\ NodeHash(k) \in Block \cup {None}
          /\ NodeHash(k) # None => NodeHash(k) \in Block /\ Number(NodeHash(k)) = k
        BY <1>2, NodeHashIs DEF Tables
    <2>4. Process'
        BY <2>1, <2>2, <2>3 DEF Process
    <2>5. InStep(k)'
        BY <2>1, <2>2, <2>3 DEF InStep
    <2> QED  BY <1>1, <2>1, <2>4, <2>5, TablesStay
<1>9. CASE FetchBlock
    <2>1. /\ pc = "fetch" /\ todo' = ApplyBlock(hash) /\ height' = height + 1 /\ pc' = "ask"
          /\ UNCHANGED <<best, tables, exists, hash, events, rolledBack>>
        BY <1>9 DEF FetchBlock, Calling
    <2>2. k > 0 /\ height = k /\ hash \in Block /\ Number(hash) = k
        BY <1>1, <2>1 DEF InStep
    <2>3. Opens(Do("put_hash", hash), todo')
        BY <2>1, <2>2, ApplyBlockOpens
    <2>4. k <= MaxNumber
        BY <1>2, <2>2, NumberType
    <2>5. Process'
        BY <1>2, <2>1, <2>2, <2>4 DEF Process
    <2>6. InStep(k)'
        <3>1. \E b \in Block : Number(b) = k /\ Opens(Do("put_hash", b), todo')
            BY <2>2, <2>3
        <3> QED  BY <2>1, <2>2, <3>1 DEF InStep, Opens, Number
    <2> QED  BY <1>1, <2>1, <2>5, <2>6, TablesStay
<1>10. CASE Exit
    <2>1. Process' /\ InStep(k)'
        BY <1>1, <1>10 DEF Exit, Process, InStep
    <2> QED  BY <1>1, <1>10, <2>1, TablesStay DEF Exit
<1>11. CASE CallFails
    <2>1. failures' \in 0 .. MaxFailures
        BY <1>11, TreeAssumption DEF CallFails, Process
    <2>2. Process' /\ InStep(k)'
        BY <1>11, <2>1 DEF CallFails, Calling, Process, InStep
    <2> QED  BY <1>1, <1>11, <2>2, TablesStay DEF CallFails
<1>12. CASE Crash
    <2>1. crashes' \in 0 .. MaxCrashes
        BY <1>12, TreeAssumption DEF Crash, Process
    <2>2. Process' /\ InStep(k)'
        BY <1>12, <2>1 DEF Crash, Process, InStep
    <2> QED  BY <1>1, <1>12, <2>2, TablesStay DEF Crash
<1>13. CASE NodeMoves
    <2>1. moves' \in 0 .. MaxMoves
        BY <1>13, TreeAssumption DEF NodeMoves, Process
    <2>2. Process' /\ InStep(k)'
        BY <1>1, <1>13, <2>1 DEF NodeMoves, process, Process, InStep, Opens, Number
    <2>3. Tables' /\ Filled(k)'
        BY <1>1, <1>13 DEF NodeMoves, tables, Tables, Filled
    <2> QED  BY <1>1, <2>2, <2>3
<1> QED
    BY <1>4, <1>5, <1>6, <1>7, <1>8, <1>9, <1>10, <1>11, <1>12, <1>13 DEF Next, Sync

LEMMA SyncInvariant == Spec => []SyncInv
<1>1. Init => SyncInv
    <2> SUFFICES ASSUME Init PROVE SyncInv
        OBVIOUS
    <2>1. Tables
        BY TreeAssumption DEF Init, Tables
    <2>2. Process
        <3>1. /\ 0 \in 0 .. MaxNumber + 1 /\ 0 \in 0 .. MaxFailures /\ 0 \in 0 .. MaxCrashes
              /\ 0 \in 0 .. MaxMoves
            BY TreeAssumption
        <3> QED  BY <3>1, Zenon DEF Init, Process
    <2>3. Filled(0)
        BY TreeAssumption DEF Init, Filled
    <2>4. InStep(0)
        BY DEF Init, InStep
    <2>5. 0 \in 0 .. MaxNumber + 1
        BY TreeAssumption
    <2> QED  BY <2>1, <2>2, <2>3, <2>4, <2>5 DEF SyncInv
<1>2. SyncInv /\ [Next]_vars => SyncInv'
    <2> SUFFICES ASSUME SyncInv, [Next]_vars PROVE SyncInv'
        OBVIOUS
    <2>1. CASE Next
        BY <2>1, WriteStep, OtherSteps
    <2>2. CASE UNCHANGED vars
        <3>1. PICK k \in 0 .. MaxNumber + 1 : Filled(k) /\ InStep(k)
            BY DEF SyncInv
        <3>2. Tables' /\ Filled(k)'
            BY <2>2, <3>1, TablesStay DEF SyncInv, vars
        <3>3. Process'
            BY <2>2 DEF SyncInv, Process, vars, process, events
        <3>4. InStep(k)'
            BY <2>2, <3>1 DEF InStep, Opens, Number, vars, process
        <3> QED  BY <3>1, <3>2, <3>3, <3>4 DEF SyncInv
    <2> QED  BY <2>1, <2>2
<1> QED  BY <1>1, <1>2, PTL DEF Spec

\* Every write names a block or a reference, as its operation needs.
LEMMA WritesTyped ==
    ASSUME SyncInv
    PROVE  todo \in Seq([op : {"put_hash", "put_block", "add", "time", "spend", "put_spent",
                               "take_hash", "take_block", "unspend", "drop"},
                         arg : Block \cup Ref])
<1>1. PICK A : A = [op : {"put_hash", "put_block", "add", "time", "spend", "put_spent",
                          "take_hash", "take_block", "unspend", "drop"},
                    arg : Block \cup Ref]
    BY Zenon
<1>2. QuietWrite \subseteq A
    BY <1>1, TreeAssumption DEF QuietWrite
<1>3. \A b \in Block : Do("put_hash", b) \in A /\ Do("take_hash", b) \in A
    BY <1>1 DEF Do
<1>4. \A s : s \in Seq(QuietWrite) => s \in Seq(A)
    BY <1>2, SeqInto
<1>5. \A s : s \in Seq(OpeningWrite) => s \in Seq(A)
    BY <1>2, <1>3, GenesisNumber, SeqInto DEF OpeningWrite
<1>6. PICK k : InStep(k)
    BY DEF SyncInv
<1>7. ASSUME NEW op \in {"put_hash", "take_hash"}, NEW b \in Block, Opens(Do(op, b), todo)
      PROVE  todo \in Seq(A)
    BY <1>2, <1>3, <1>7, SeqInto DEF Opens
<1>8. <<>> \in Seq(A)
    OBVIOUS
<1>9. todo \in Seq(A)
    BY <1>4, <1>5, <1>6, <1>7, <1>8 DEF SyncInv, Process, InStep
<1> QED  BY <1>1, <1>9

(* TypeOK for every tree of blocks and every schedule of writes, calls,    *)
(* crashes and moves of the node: no table of sync.rs gets an entry of     *)
(* another type, and the u32 that synchronize_helper decrements never      *)
(* passes below zero.                                                      *)
THEOREM WalletTypes == Spec => []TypeOK
<1>1. SyncInv => TypeOK
    BY WritesTyped DEF SyncInv, Tables, Process, TypeOK
<1> QED  BY <1>1, SyncInvariant, PTL

(* HeightIsBest for every tree of blocks and every schedule: the number of *)
(* entries that height() counts is the best block's number, and the loops  *)
(* of synchronize_helper stay in step with it, through crashes between any *)
(* two writes of apply_block and unapply_highest_block.                    *)
THEOREM HeightCorrect == Spec => []HeightIsBest
<1>1. SyncInv => HeightIsBest
    <2> SUFFICES ASSUME SyncInv PROVE HeightIsBest
        OBVIOUS
    <2>1. PICK k \in 0 .. MaxNumber + 1 : Filled(k) /\ InStep(k)
        BY DEF SyncInv
    <2>2. MaxNumber \in Nat /\ Height = k - 1
        BY <2>1, HeightIs, TreeAssumption
    <2>3. \A n \in 0 .. MaxNumber : hashes[n] # None <=> n <= Height
        BY <2>1, <2>2 DEF Filled
    <2>4. \A w : ~ Opens(w, <<>>)
        BY DEF Opens
    <2>5. Calling("compare") => height = Height /\ hashes[height] # None
        BY <2>1, <2>2, <2>3, <2>4 DEF Calling, InStep
    <2>6. Calling("ask") \/ Calling("fetch") => height = Height + 1
        BY <2>1, <2>2, <2>4 DEF Calling, InStep
    <2> QED  BY <2>3, <2>5, <2>6 DEF HeightIsBest
<1> QED  BY <1>1, SyncInvariant, PTL

=============================================================================
