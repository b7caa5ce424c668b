------------------------------- MODULE Locks -------------------------------
(***************************************************************************)
(* Outputs guarded by verifiers, on a chain that grows.  Key holders sign  *)
(* transactions and reveal preimages; a transaction with a redeemer is     *)
(* validated by the pool at the height of the best block and again by the  *)
(* block that includes it, one height or many later.                       *)
(*                                                                         *)
(* A transaction stands for its stripped encoding, the message that is     *)
(* signed; Spends[t] is the output it redeems.                             *)
(***************************************************************************)
EXTENDS Verifiers

CONSTANTS
    Key,        \* holders of sr25519 keys
    Secret,     \* preimages
    Coin,       \* outputs
    Genesis,    \* sets of outputs that may be the UTXO set at height 0
    Lock,       \* Lock[c] is the verifier of output c
    Tx,         \* stripped transactions
    Spends,     \* Spends[t] is the output redeemed by t
    NotSpent,   \* the output is in the UTXO set
    MaxHeight,  \* bound: height of the chain
    MaxPool,    \* bound: transactions in the pool
    MaxSigs     \* bound: signatures in one multisignature redeemer

VARIABLES
    height,     \* HEIGHT_KEY, the number of the best block
    spent,      \* spent[c]: the transaction, redeemer and height that took it
    pool,       \* transactions with redeemers that the pool has validated
    signed,     \* the signatures that were made
    known,      \* the preimages that were revealed
    outcome     \* what the last call of verify came to

vars == <<height, spent, pool, signed, known, outcome>>

UnitRedeemers == [type : {"UpForGrabs", "Unspendable", "TestVerifier", "TimeLock"}]
MultiRedeemers(signatures) ==
    LET SignatureAndIndex == [signature : signatures, index : 0 .. MaxSigs - 1]
    IN  [type : {"ThresholdMultiSignature"},
         sigs : UNION {[1 .. n -> SignatureAndIndex] : n \in 0 .. MaxSigs}]

\* The redeemers for a verifier that can be put together from what was signed and
\* revealed.  A redeemer of another variant is unwrapped, whatever it holds, and
\* the unit redeemers stand for all of them.
Redeemers(v, signatures, secrets) ==
    UnitRedeemers \cup
    CASE v.type = "Sr25519Signature" -> [type : {v.type}, signature : signatures]
      [] v.type = "P2PKH"            -> [type : {v.type}, pubkey : Key, signature : signatures]
      [] v.type = "BlakeTwoHashLock" -> [type : {v.type}, secret : secrets]
      [] v.type = "HashTimeLockContract" ->
             [type : {v.type}, path : {"Claim"}, secret : secrets, signature : signatures]
             \cup [type : {v.type}, path : {"Refund"}, signature : signatures]
      [] v.type = "ThresholdMultiSignature" -> MultiRedeemers(signatures)
      [] OTHER                       -> {}

Signatures == {Signature(k, t) : k \in Key, t \in Tx}
IsSpend(s) == s.tx \in Tx /\ s.redeemer \in Redeemers(Lock[Spends[s.tx]], Signatures, Secret)

ASSUME LocksAssumption ==
    /\ Spends \in [Tx -> Coin]
    /\ \A coins \in Genesis : coins \subseteq Coin
    /\ MaxHeight \in Nat /\ MaxPool \in Nat /\ MaxSigs \in Nat

Variants == {"UpForGrabs", "Unspendable", "TestVerifier", "Sr25519Signature", "P2PKH", "TimeLock",
             "BlakeTwoHashLock", "HashTimeLockContract", "ThresholdMultiSignature"}

\* The fields of a verifier that are compared are numbers, and nobody holds a key
\* that is zero.
ASSUME LockAssumption ==
    /\ ZeroHash \notin Key
    /\ \A c \in Coin :
           /\ Lock[c].type \in Variants
           /\ Lock[c].type = "TimeLock" => Lock[c].unlock_block_height \in Nat
           /\ Lock[c].type = "HashTimeLockContract" => Lock[c].claim_period_end \in Nat
           /\ Lock[c].type = "ThresholdMultiSignature" =>
                  Lock[c].threshold \in Nat /\ Lock[c].signatories \in Seq(Key)

TypeOK ==
    /\ height \in 0 .. MaxHeight
    /\ DOMAIN spent \in Genesis
    /\ \A c \in DOMAIN spent : spent[c] # NotSpent =>
           /\ IsSpend(spent[c].spend) /\ Spends[spent[c].spend.tx] = c
           /\ spent[c].at \in 1 .. height
    /\ \A s \in pool : IsSpend(s)
    /\ signed \subseteq Signatures
    /\ known \subseteq Secret
    /\ outcome \in Outcome

Init ==
    /\ height = 0
    /\ \E coins \in Genesis : spent = [c \in coins |-> NotSpent]
    /\ pool = {} /\ signed = {} /\ known = {}
    /\ outcome = "accept"

Sign(k, t) ==
    /\ signed' = signed \cup {Signature(k, t)}
    /\ UNCHANGED <<height, spent, pool, known, outcome>>

Reveal(secret) ==
    /\ known' = known \cup {secret}
    /\ UNCHANGED <<height, spent, pool, signed, outcome>>

VerifyAt(s, h) == OuterVerify(Lock[Spends[s.tx]], s.tx, h, s.redeemer)

\* The pool calls validate_transaction, which verifies at the stored height.
ValidateTransaction(s) ==
    /\ Cardinality(pool) < MaxPool
    /\ spent[Spends[s.tx]] = NotSpent
    /\ outcome' = VerifyAt(s, height)
    /\ pool' = IF outcome' = "accept" THEN pool \cup {s} ELSE pool
    /\ UNCHANGED <<height, spent, signed, known>>

EmptyBlock ==
    /\ height < MaxHeight
    /\ height' = height + 1
    /\ UNCHANGED <<spent, pool, signed, known, outcome>>

\* Mutant: the transaction is applied before the height is stored.
BlockWithOldHeight(s) ==
    LET coin == Spends[s.tx]
    IN  /\ height < MaxHeight
        /\ height' = height + 1
        /\ outcome' = VerifyAt(s, height)
        /\ spent' = [spent EXCEPT ![coin] = [spend |-> s, at |-> height]]
        /\ pool' = {p \in pool : Spends[p.tx] # coin}
        /\ UNCHANGED <<signed, known>>

\* The block's height is stored before its transactions are applied.  What
\* conflicts with a transaction of the block leaves the pool with it.
BlockWith(s) ==
    LET coin == Spends[s.tx]
    IN  /\ height < MaxHeight
        /\ height' = height + 1
        /\ outcome' = VerifyAt(s, height + 1)
        /\ IF outcome' = "accept"
           THEN /\ spent' = [spent EXCEPT ![coin] = [spend |-> s, at |-> height + 1]]
                /\ pool' = {p \in pool : Spends[p.tx] # coin}
           ELSE /\ pool' = pool \ {s}
                /\ UNCHANGED spent
        /\ UNCHANGED <<signed, known>>

\* The transactions that redeem an output of this chain.
Txs == {t \in Tx : Spends[t] \in DOMAIN spent}

Next ==
    \/ \E k \in Key, t \in Txs : Sign(k, t)
    \/ \E secret \in Secret : Reveal(secret)
    \/ \E t \in Txs : \E r \in Redeemers(Lock[Spends[t]], signed, known) :
           ValidateTransaction([tx |-> t, redeemer |-> r])
    \/ EmptyBlock
    \/ \E s \in pool : BlockWith(s)

Spec == Init /\ [][Next]_vars

-----------------------------------------------------------------------------
(* Properties.                                                             *)

Signers(keys, t) == {k \in keys : Signature(k, t) \in signed}

Members(v) == {v.signatories[i] : i \in 1 .. Len(v.signatories)}

\* Who has to have agreed to transaction t, included at height h, before it
\* takes an output guarded by v: what the documentation of each verifier says.
Authorised(v, t, h) ==
    CASE v.type = "UpForGrabs"           -> TRUE
      [] v.type = "Unspendable"          -> FALSE
      [] v.type = "TestVerifier"         -> v.verifies
      [] v.type = "Sr25519Signature"     -> v.owner_pubkey \in Signers(Key, t)
      [] v.type = "P2PKH"                -> \E k \in Signers(Key, t) :
                                                BlakeTwo256(k) = v.owner_pubkey_hash
      [] v.type = "TimeLock"             -> h >= v.unlock_block_height
      [] v.type = "BlakeTwoHashLock"     -> \E s \in known : BlakeTwo256(s) = v.hash_lock
      [] v.type = "HashTimeLockContract" ->
             \/ /\ v.recipient_pubkey \in Signers(Key, t)
                /\ \E s \in known : BlakeTwo256(s) = v.hash_lock
             \/ /\ v.refunder_pubkey \in Signers(Key, t)
                /\ h >= v.claim_period_end
      [] v.type = "ThresholdMultiSignature" -> Cardinality(Signers(Members(v), t)) >= v.threshold

AuthorisedIfSpent(c) ==
    spent[c] # NotSpent => Authorised(Lock[c], spent[c].spend.tx, spent[c].at)

IsMultisig(c) == Lock[c].type = "ThresholdMultiSignature"

\* An output under any verifier but the multisignature leaves only by a
\* transaction that the parties its verifier names signed as it stands, no
\* earlier than the verifier's height: whatever was signed for other
\* transactions and whenever the pool validated it.  A hash time lock is
\* refunded in no block before claim_period_end.  Of multisignatures this is
\* false: see MultisigAuthorised.
SpentAsAuthorised == \A c \in DOMAIN spent : ~IsMultisig(c) => AuthorisedIfSpent(c)

\* What the pool accepted stays acceptable in every later block as long as the
\* output is there: no verifier closes a path that it opened, so a claim
\* waiting in the pool survives the opening of the refund path, and unwrapping
\* the redeemer of a transaction from the pool never panics in a block.
PoolStaysValid ==
    \A s \in pool, h \in height .. MaxHeight : VerifyAt(s, h) = "accept"

Locked(v) ==
    \/ v.type \in {"Unspendable", "Sr25519Signature", "P2PKH", "BlakeTwoHashLock"}
       /\ v = new_unspendable(v.type)
    \/ v.type = "ThresholdMultiSignature" /\ v.threshold > Len(v.signatories)

\* The verifiers of new_unspendable, and a multisignature with a threshold
\* above the number of its signatories, never let their output go.
UnspendableStays == \A c \in DOMAIN spent : Locked(Lock[c]) => spent[c] = NotSpent

\* "A valid redeemer must supply valid signatures by at least `threshold` of the
\* signatories" (multi_signature.rs): a multisignature output leaves only by a
\* transaction that so many of its signatories have signed.
MultisigAuthorised == \A c \in DOMAIN spent : IsMultisig(c) => AuthorisedIfSpent(c)
=============================================================================
