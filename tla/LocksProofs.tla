---------------------------- MODULE LocksProofs ----------------------------
(***************************************************************************)
(* Proofs about Locks, for any keys, verifiers, transactions and number of *)
(* blocks.  What is accepted stays accepted as the chain grows, what a     *)
(* verifier other than the multisignature accepts was authorised, and what *)
(* is unspendable is never accepted; the rest is that a redeemer in the    *)
(* pool holds nothing that was not signed or revealed.                     *)
(***************************************************************************)
EXTENDS Locks, FiniteSetTheorems, TLAPS

\* A transaction in the pool redeems an output that is there with what was signed
\* and revealed.
PoolRedeems ==
    \A s \in pool :
        /\ s.tx \in Tx
        /\ s.redeemer \in Redeemers(Lock[Spends[s.tx]], signed, known)
        /\ Spends[s.tx] \in DOMAIN spent
        /\ spent[Spends[s.tx]] = NotSpent

LocksInv == TypeOK /\ PoolRedeems /\ PoolStaysValid /\ SpentAsAuthorised /\ UnspendableStays

-----------------------------------------------------------------------------
(* Redeemers and verifiers.                                                *)

\* What can be put together stays so when more is signed and revealed.
LEMMA RedeemersGrow ==
    ASSUME NEW v, NEW S, NEW T, NEW K, NEW L, S \subseteq T, K \subseteq L
    PROVE  Redeemers(v, S, K) \subseteq Redeemers(v, T, L)
<1>1. [type : {v.type}, signature : S] \subseteq [type : {v.type}, signature : T]
    OBVIOUS
<1>2. [type : {v.type}, pubkey : Key, signature : S]
          \subseteq [type : {v.type}, pubkey : Key, signature : T]
    OBVIOUS
<1>3. [type : {v.type}, secret : K] \subseteq [type : {v.type}, secret : L]
    OBVIOUS
<1>4. [type : {v.type}, path : {"Claim"}, secret : K, signature : S]
          \subseteq [type : {v.type}, path : {"Claim"}, secret : L, signature : T]
    OBVIOUS
<1>5. [type : {v.type}, path : {"Refund"}, signature : S]
          \subseteq [type : {v.type}, path : {"Refund"}, signature : T]
    OBVIOUS
<1>6. MultiRedeemers(S) \subseteq MultiRedeemers(T)
    <2>1. [signature : S, index : 0 .. MaxSigs - 1]
              \subseteq [signature : T, index : 0 .. MaxSigs - 1]
        OBVIOUS
    <2> DEFINE Lists(Pair) == UNION {[1 .. n -> Pair] : n \in 0 .. MaxSigs}
    <2>2. Lists([signature : S, index : 0 .. MaxSigs - 1])
              \subseteq Lists([signature : T, index : 0 .. MaxSigs - 1])
        BY <2>1
    <2> QED  BY <2>2 DEF MultiRedeemers
<1> QED  BY <1>1, <1>2, <1>3, <1>4, <1>5, <1>6, Zenon DEF Redeemers

\* No verifier closes a path that it opened: the height is only ever compared with
\* a lower bound.
LEMMA VerifyStaysOpen ==
    ASSUME NEW c \in Coin, NEW tx, NEW r, NEW h \in Nat, NEW g \in Nat, h <= g,
           OuterVerify(Lock[c], tx, h, r) = "accept"
    PROVE  OuterVerify(Lock[c], tx, g, r) = "accept"
<1> DEFINE v == Lock[c]
<1>1. /\ v.type \in Variants
      /\ v.type = "TimeLock" => v.unlock_block_height \in Nat
      /\ v.type = "HashTimeLockContract" => v.claim_period_end \in Nat
    BY LockAssumption
<1>2. v.type = "TimeLock" /\ TimeLock(v, tx, h, r) = "accept" => TimeLock(v, tx, g, r) = "accept"
    BY <1>1 DEF TimeLock, Bool
<1>3. v.type = "HashTimeLockContract" /\ HashTimeLockContract(v, tx, h, r) = "accept"
          => HashTimeLockContract(v, tx, g, r) = "accept"
    BY <1>1 DEF HashTimeLockContract, Bool
<1> QED
    BY <1>1, <1>2, <1>3 DEF Variants, OuterVerify, UpForGrabs, Unspendable, TestVerifier, Sr25519Signature,
       P2PKH, BlakeTwoHashLock, ThresholdMultiSignature

\* What the code has verified is what the verifier's parties agreed to, unless
\* they share a multisignature.
LEMMA AcceptedIsAuthorised ==
    ASSUME TypeOK, NEW c \in Coin, ~IsMultisig(c), NEW t \in Tx, NEW h \in Nat,
           NEW r \in Redeemers(Lock[c], signed, known),
           OuterVerify(Lock[c], t, h, r) = "accept"
    PROVE  Authorised(Lock[c], t, h)
<1> DEFINE v == Lock[c]
<1>1. v.type \in Variants \ {"ThresholdMultiSignature"} /\ r.type = v.type
    BY LockAssumption DEF OuterVerify, IsMultisig
<1>2. signed \subseteq Signatures
    BY DEF TypeOK
<1>3. ASSUME NEW k, Signature(k, t) \in signed
      PROVE  k \in Signers(Key, t)
    <2>1. PICK j \in Key, u \in Tx : Signature(k, t) = Signature(j, u)
        BY <1>2, <1>3 DEF Signatures
    <2>2. k = j
        BY <2>1 DEF Signature
    <2> QED  BY <1>3, <2>2 DEF Signers
<1>4. CASE v.type \in {"UpForGrabs", "Unspendable", "TestVerifier", "TimeLock"}
    BY <1>1, <1>4 DEF OuterVerify, Authorised, Unspendable, TestVerifier, TimeLock, Bool
<1>5. CASE v.type = "Sr25519Signature"
    <2>1. r.signature \in signed /\ r.signature = Signature(v.owner_pubkey, t)
        BY <1>1, <1>5 DEF Redeemers, UnitRedeemers, OuterVerify, Sr25519Signature, sr25519_verify, Bool
    <2>2. v.owner_pubkey \in Signers(Key, t)
        BY <1>3, <2>1
    <2> QED  BY <1>5, <2>2 DEF Authorised
<1>6. CASE v.type = "P2PKH"
    <2>1. /\ r.signature \in signed /\ r.signature = Signature(r.pubkey, t)
          /\ BlakeTwo256(r.pubkey) = v.owner_pubkey_hash
        BY <1>1, <1>6 DEF Redeemers, UnitRedeemers, OuterVerify, P2PKH, sr25519_verify, Bool
    <2>2. \E k \in Signers(Key, t) : BlakeTwo256(k) = v.owner_pubkey_hash
        BY <1>3, <2>1
    <2> QED  BY <1>6, <2>2 DEF Authorised
<1>7. CASE v.type = "BlakeTwoHashLock"
    <2>1. r.secret \in known /\ BlakeTwo256(r.secret) = v.hash_lock
        BY <1>1, <1>7 DEF Redeemers, UnitRedeemers, OuterVerify, BlakeTwoHashLock, Bool
    <2> QED  BY <1>7, <2>1 DEF Authorised
<1>8. CASE v.type = "HashTimeLockContract"
    <2>1. \/ r \in [type : {v.type}, path : {"Claim"}, secret : known, signature : signed]
          \/ r \in [type : {v.type}, path : {"Refund"}, signature : signed]
        BY <1>1, <1>8 DEF Redeemers, UnitRedeemers
    <2>2. \/ /\ r.path = "Claim"
             /\ BlakeTwo256(r.secret) = v.hash_lock
             /\ r.signature = Signature(v.recipient_pubkey, t)
          \/ /\ r.path = "Refund"
             /\ h >= v.claim_period_end
             /\ r.signature = Signature(v.refunder_pubkey, t)
        BY <1>1, <1>8 DEF OuterVerify, HashTimeLockContract, sr25519_verify, Bool
    <2>3. \/ /\ v.recipient_pubkey \in Signers(Key, t)
             /\ \E s \in known : BlakeTwo256(s) = v.hash_lock
          \/ /\ v.refunder_pubkey \in Signers(Key, t)
             /\ h >= v.claim_period_end
        BY <1>3, <2>1, <2>2
    <2> QED  BY <1>8, <2>3 DEF Authorised
<1> QED  BY <1>1, <1>4, <1>5, <1>6, <1>7, <1>8 DEF Variants

\* As many signatures as the threshold, with indexes that differ and that are all
\* below the number of signatories, are no more than there are signatories.
LEMMA ThresholdWithinSignatories ==
    ASSUME NEW v, v.threshold \in Nat, v.signatories \in Seq(Key), NEW t, NEW h, NEW S,
           NEW r \in MultiRedeemers(S), ThresholdMultiSignature(v, t, h, r) = "accept"
    PROVE  v.threshold <= Len(v.signatories)
<1> DEFINE m == Len(v.signatories)
           n == Len(r.sigs)
           f == Indexes(r.sigs)
<1>1. PICK k \in 0 .. MaxSigs : r.sigs \in [1 .. k -> [signature : S, index : 0 .. MaxSigs - 1]]
    BY DEF MultiRedeemers
<1>2. n = k /\ m \in Nat /\ k \in Nat
    BY <1>1, LocksAssumption
<1>3. /\ n >= v.threshold
      /\ ~HasDuplicates(f)
      /\ \A i \in 1 .. n : r.sigs[i].index < m
    BY <1>1, <1>2, LocksAssumption DEF ThresholdMultiSignature
<1>4. f \in [1 .. n -> 0 .. m - 1]
    BY <1>1, <1>2, <1>3, LocksAssumption DEF Indexes
<1>5. Len(f) = n
    BY <1>2 DEF Indexes
<1>6. \A i, j \in 1 .. n : i # j => f[i] # f[j]
    BY <1>3, <1>5 DEF HasDuplicates
<1>7. \A a, b \in Int : /\ IsFiniteSet(a .. b)
                         /\ Cardinality(a .. b) = IF a > b THEN 0 ELSE b - a + 1
    BY FS_Interval, Zenon
<1>8. IsFiniteSet(1 .. n) /\ Cardinality(1 .. n) = n
    BY <1>2, <1>7
<1>9. IsFiniteSet(0 .. m - 1) /\ Cardinality(0 .. m - 1) = m
    <2> HIDE DEF m, n, f
    <2>1. 0 \in Int /\ m - 1 \in Int
        BY <1>2
    <2>2. /\ IsFiniteSet(0 .. m - 1)
          /\ Cardinality(0 .. m - 1) = IF 0 > m - 1 THEN 0 ELSE (m - 1) - 0 + 1
        BY <1>7, <2>1, Zenon
    <2> QED  BY <1>2, <2>2
<1>10. ~(m < n)
    <2> HIDE DEF m, n, f
    <2> SUFFICES ASSUME m < n PROVE FALSE
        OBVIOUS
    <2>1. Cardinality(0 .. m - 1) < Cardinality(1 .. n)
        BY <1>8, <1>9
    <2>2. \E x, y \in 1 .. n : x # y /\ f[x] = f[y]
        BY <1>4, <1>8, <1>9, <2>1, FS_PigeonHole, Zenon
    <2> QED  BY <1>6, <2>2
<1> QED  BY <1>2, <1>3, <1>10

\* No redeemer opens a verifier of new_unspendable.
LEMMA LockedNeverAccepts ==
    ASSUME NEW c \in Coin, Locked(Lock[c]), NEW t \in Tx, NEW h \in Nat,
           NEW r \in Redeemers(Lock[c], Signatures, Secret)
    PROVE  OuterVerify(Lock[c], t, h, r) # "accept"
<1> DEFINE v == Lock[c]
<1> SUFFICES ASSUME OuterVerify(v, t, h, r) = "accept" PROVE FALSE
    OBVIOUS
<1>1. r.type = v.type
    BY DEF OuterVerify
<1>2. ASSUME NEW x PROVE BlakeTwo256(x) # ZeroHash
    BY DEF BlakeTwo256, ZeroHash
<1>3. CASE v.type = "Unspendable"
    BY <1>3 DEF OuterVerify, Unspendable, Bool
<1>4. CASE v.type = "Sr25519Signature"
    <2>1. v.owner_pubkey = ZeroHash
        BY <1>4 DEF Locked, new_unspendable
    <2>2. r.signature \in Signatures /\ r.signature = Signature(ZeroHash, t)
        BY <1>1, <1>4, <2>1
        DEF Redeemers, UnitRedeemers, OuterVerify, Sr25519Signature, sr25519_verify, Bool
    <2>3. PICK j \in Key, u \in Tx : Signature(ZeroHash, t) = Signature(j, u)
        BY <2>2 DEF Signatures
    <2> QED  BY <2>3, LockAssumption DEF Signature
<1>5. CASE v.type = "P2PKH"
    <2>1. v.owner_pubkey_hash = ZeroHash
        BY <1>5 DEF Locked, new_unspendable
    <2> QED  BY <1>1, <1>2, <1>5, <2>1 DEF OuterVerify, P2PKH, Bool
<1>6. CASE v.type = "BlakeTwoHashLock"
    <2>1. v.hash_lock = ZeroHash
        BY <1>6 DEF Locked, new_unspendable
    <2> QED  BY <1>1, <1>2, <1>6, <2>1 DEF OuterVerify, BlakeTwoHashLock, Bool
<1>7. CASE v.type = "ThresholdMultiSignature"
    <2>1. v.threshold \in Nat /\ v.signatories \in Seq(Key) /\ v.threshold > Len(v.signatories)
        BY <1>7, LockAssumption DEF Locked
    <2>2. r \in MultiRedeemers(Signatures)
        BY <1>1, <1>7 DEF Redeemers, UnitRedeemers
    <2>3. ThresholdMultiSignature(v, t, h, r) = "accept"
        BY <1>1, <1>7 DEF OuterVerify
    <2>4. v.threshold <= Len(v.signatories)
        BY <2>1, <2>2, <2>3, ThresholdWithinSignatories
    <2> QED  BY <2>1, <2>4
<1> QED  BY <1>3, <1>4, <1>5, <1>6, <1>7 DEF Locked

-----------------------------------------------------------------------------
(* The chain and the pool.                                                 *)

\* Signing and revealing only add to what was agreed to.
LEMMA AuthorisedStays ==
    ASSUME NEW c \in Coin, ~IsMultisig(c), NEW t, NEW h,
           signed \subseteq signed', known \subseteq known', Authorised(Lock[c], t, h)
    PROVE  Authorised(Lock[c], t, h)'
<1>1. \A keys : Signers(keys, t) \subseteq Signers(keys, t)'
    BY DEF Signers
<1>2. Lock[c].type \in Variants \ {"ThresholdMultiSignature"}
    BY LockAssumption DEF IsMultisig
<1> QED  BY <1>1, <1>2 DEF Authorised, Variants

\* Every step keeps the outputs, the pool and the height together.
LEMMA LocksStep ==
    ASSUME LocksInv, [Next]_vars
    PROVE  LocksInv'
<1> USE DEF LocksInv
<1>1. /\ height \in 0 .. MaxHeight /\ MaxHeight \in Nat /\ height \in Nat
      /\ DOMAIN spent \subseteq Coin
    BY LocksAssumption DEF TypeOK
<1>2. ASSUME signed \subseteq signed', known \subseteq known', signed' \subseteq Signatures,
             known' \subseteq Secret, UNCHANGED <<height, spent, pool, outcome>>
      PROVE  LocksInv'
    <2>1. TypeOK'
        BY <1>2 DEF TypeOK, IsSpend
    <2>2. PoolRedeems'
        BY <1>2, RedeemersGrow DEF PoolRedeems
    <2>3. PoolStaysValid' /\ UnspendableStays'
        BY <1>2 DEF PoolStaysValid, VerifyAt, UnspendableStays
    <2>4. SpentAsAuthorised'
        BY <1>2, <1>1, AuthorisedStays DEF SpentAsAuthorised, AuthorisedIfSpent, IsMultisig
    <2> QED  BY <2>1, <2>2, <2>3, <2>4
<1>3. ASSUME NEW k \in Key, NEW t \in Txs, Sign(k, t) PROVE LocksInv'
    BY <1>2, <1>3 DEF Sign, Txs, TypeOK, Signatures
<1>4. ASSUME NEW secret \in Secret, Reveal(secret) PROVE LocksInv'
    BY <1>2, <1>4 DEF Reveal, TypeOK
<1>5. ASSUME NEW t \in Txs, NEW r \in Redeemers(Lock[Spends[t]], signed, known),
             ValidateTransaction([tx |-> t, redeemer |-> r])
      PROVE  LocksInv'
    <2> DEFINE s == [tx |-> t, redeemer |-> r]
    <2>1. /\ UNCHANGED <<height, spent, signed, known>>
          /\ spent[Spends[t]] = NotSpent
          /\ outcome' = OuterVerify(Lock[Spends[t]], t, height, r)
          /\ pool' = IF outcome' = "accept" THEN pool \cup {s} ELSE pool
        BY <1>5 DEF ValidateTransaction, VerifyAt
    <2>2. t \in Tx /\ Spends[t] \in Coin /\ Spends[t] \in DOMAIN spent
        BY LocksAssumption DEF Txs
    <2>3. r \in Redeemers(Lock[Spends[t]], Signatures, Secret)
        BY RedeemersGrow DEF TypeOK
    <2>4. TypeOK'
        <3>1. \A p \in pool' : IsSpend(p)
            BY <2>1, <2>2, <2>3 DEF TypeOK, IsSpend
        <3>2. outcome' \in Outcome
            BY <2>1, <2>2, LockAssumption DEF Outcome, Variants, OuterVerify, UpForGrabs,
               Unspendable, TestVerifier, Sr25519Signature, P2PKH, TimeLock, BlakeTwoHashLock,
               HashTimeLockContract, ThresholdMultiSignature, Bool
        <3> QED  BY <2>1, <3>1, <3>2 DEF TypeOK, IsSpend
    <2>5. PoolRedeems'
        BY <2>1, <2>2 DEF PoolRedeems
    <2>6. PoolStaysValid'
        <3>1. ASSUME NEW p \in pool', NEW h \in height .. MaxHeight
              PROVE  VerifyAt(p, h) = "accept"
            <4>1. CASE p \in pool
                BY <4>1 DEF PoolStaysValid
            <4>2. CASE p = s /\ outcome' = "accept"
                <5>1. OuterVerify(Lock[Spends[t]], t, height, r) = "accept" /\ h \in Nat /\ height <= h
                    BY <1>1, <2>1, <4>2
                <5>2. OuterVerify(Lock[Spends[t]], t, h, r) = "accept"
                    BY <1>1, <2>2, <5>1, VerifyStaysOpen
                <5> QED  BY <4>2, <5>2 DEF VerifyAt
            <4> QED  BY <2>1, <3>1, <4>1, <4>2
        <3> QED  BY <2>1, <3>1 DEF PoolStaysValid, VerifyAt
    <2>7. SpentAsAuthorised' /\ UnspendableStays'
        BY <1>1, <2>1, AuthorisedStays
        DEF SpentAsAuthorised, AuthorisedIfSpent, IsMultisig, UnspendableStays
    <2> QED  BY <2>4, <2>5, <2>6, <2>7
<1>6. CASE EmptyBlock
    <2>1. TypeOK'
        BY <1>1, <1>6 DEF EmptyBlock, TypeOK, IsSpend
    <2>2. PoolRedeems' /\ UnspendableStays'
        BY <1>6 DEF EmptyBlock, PoolRedeems, UnspendableStays
    <2>3. PoolStaysValid'
        BY <1>1, <1>6 DEF EmptyBlock, PoolStaysValid, VerifyAt
    <2>4. SpentAsAuthorised'
        BY <1>1, <1>6, AuthorisedStays
        DEF EmptyBlock, SpentAsAuthorised, AuthorisedIfSpent, IsMultisig
    <2> QED  BY <2>1, <2>2, <2>3, <2>4
<1>7. ASSUME NEW s \in pool, BlockWith(s) PROVE LocksInv'
    <2> DEFINE coin == Spends[s.tx]
    <2>1. /\ s.tx \in Tx /\ coin \in DOMAIN spent /\ coin \in Coin
          /\ s.redeemer \in Redeemers(Lock[coin], signed, known)
          /\ IsSpend(s)
        BY <1>1 DEF PoolRedeems, TypeOK
    <2>2. height < MaxHeight /\ height' = height + 1 /\ signed' = signed /\ known' = known
        BY <1>7 DEF BlockWith
    <2>3. VerifyAt(s, height + 1) = "accept"
        BY <1>1, <2>2 DEF PoolStaysValid
    <2>4. /\ outcome' = "accept"
          /\ spent' = [spent EXCEPT ![coin] = [spend |-> s, at |-> height + 1]]
          /\ pool' = {p \in pool : Spends[p.tx] # coin}
        BY <1>7, <2>3 DEF BlockWith
    <2>5. /\ DOMAIN spent' = DOMAIN spent
          /\ spent'[coin] = [spend |-> s, at |-> height + 1]
          /\ \A c \in DOMAIN spent : c # coin => spent'[c] = spent[c]
        BY <2>1, <2>4
    <2>6. TypeOK'
        <3>1. height' \in 0 .. MaxHeight /\ outcome' \in Outcome
            BY <1>1, <2>2, <2>4 DEF Outcome
        <3>2. ASSUME NEW c \in DOMAIN spent, spent'[c] # NotSpent
              PROVE  /\ IsSpend(spent'[c].spend) /\ Spends[spent'[c].spend.tx] = c
                     /\ spent'[c].at \in 1 .. height'
            <4>1. CASE c = coin
                BY <1>1, <2>1, <2>2, <2>5, <4>1
            <4>2. CASE c # coin
                BY <1>1, <2>2, <2>5, <3>2, <4>2 DEF TypeOK
            <4> QED  BY <4>1, <4>2
        <3>3. \A p \in pool' : IsSpend(p)
            BY <2>4 DEF TypeOK
        <3> QED  BY <2>2, <2>5, <3>1, <3>2, <3>3 DEF TypeOK, IsSpend
    <2>7. PoolRedeems'
        BY <2>2, <2>4, <2>5 DEF PoolRedeems
    <2>8. PoolStaysValid'
        BY <1>1, <2>2, <2>4 DEF PoolStaysValid, VerifyAt
    <2>9. SpentAsAuthorised'
        <3>1. ~IsMultisig(coin) => Authorised(Lock[coin], s.tx, height + 1)
            <4>1. height + 1 \in Nat /\ OuterVerify(Lock[coin], s.tx, height + 1, s.redeemer) = "accept"
                BY <1>1, <2>3 DEF VerifyAt
            <4> HIDE DEF coin
            <4> QED  BY <2>1, <4>1, AcceptedIsAuthorised
        <3>2. ASSUME NEW c \in DOMAIN spent, ~IsMultisig(c), spent'[c] # NotSpent
              PROVE  Authorised(Lock[c], spent'[c].spend.tx, spent'[c].at)
            BY <2>5, <3>1, <3>2 DEF SpentAsAuthorised, AuthorisedIfSpent
        <3>3. ASSUME NEW c \in Coin, ~IsMultisig(c), NEW t, NEW h, Authorised(Lock[c], t, h)
              PROVE  Authorised(Lock[c], t, h)'
            BY <2>2, <3>3, AuthorisedStays
        <3> QED  BY <1>1, <2>5, <3>2, <3>3 DEF SpentAsAuthorised, AuthorisedIfSpent, IsMultisig
    <2>10. UnspendableStays'
        <3>1. ~Locked(Lock[coin])
            BY <1>1, <2>1, <2>3, LockedNeverAccepts DEF VerifyAt, IsSpend
        <3> QED  BY <2>5, <3>1 DEF UnspendableStays
    <2> QED  BY <2>6, <2>7, <2>8, <2>9, <2>10
<1>8. CASE UNCHANGED vars
    <2>1. /\ signed \subseteq signed' /\ known \subseteq known'
          /\ signed' \subseteq Signatures /\ known' \subseteq Secret
        BY <1>8 DEF vars, TypeOK
    <2> QED  BY <1>2, <1>8, <2>1 DEF vars
<1> QED  BY <1>3, <1>4, <1>5, <1>6, <1>7, <1>8 DEF Next

\* The inductive invariant.
LEMMA LocksInvariant == Spec => []LocksInv
<1>1. Init => LocksInv
    <2> SUFFICES ASSUME Init PROVE LocksInv
        OBVIOUS
    <2>1. PICK coins \in Genesis : spent = [c \in coins |-> NotSpent]
        BY DEF Init
    <2>2. DOMAIN spent \in Genesis /\ \A c \in DOMAIN spent : spent[c] = NotSpent
        BY <2>1
    <2> QED
        BY <2>2, LocksAssumption
        DEF Init, LocksInv, TypeOK, PoolRedeems, PoolStaysValid, SpentAsAuthorised,
            AuthorisedIfSpent, UnspendableStays, Outcome
<1>2. LocksInv /\ [Next]_vars => LocksInv'
    BY LocksStep
<1> QED  BY <1>1, <1>2, PTL DEF Spec

\* What the chain and the pool hold are transactions with redeemers for the outputs
\* they take, and every verification came to an outcome.
THEOREM LocksTypes == Spec => []TypeOK
BY LocksInvariant, PTL DEF LocksInv

\* An output under any verifier but the multisignature leaves only by a transaction
\* that the parties its verifier names have signed as it stands, at a height at which
\* the verifier lets them, however many blocks after the pool validated it: the
\* verifiers of tuxedo-core, the generated aggregate and the height that open_block
\* stores before transactions are applied.
THEOREM SpendingAuthorised == Spec => []SpentAsAuthorised
BY LocksInvariant, PTL DEF LocksInv

\* A transaction that validate_transaction accepted is accepted by every later block
\* as long as its output is there, at any height: no verifier closes a path.
THEOREM PoolValid == Spec => []PoolStaysValid
BY LocksInvariant, PTL DEF LocksInv

\* The output of new_unspendable, or of a multisignature whose threshold is above the
\* number of its signatories, is never taken, whatever is signed and revealed.
THEOREM UnspendableCorrect == Spec => []UnspendableStays
BY LocksInvariant, PTL DEF LocksInv
=============================================================================
