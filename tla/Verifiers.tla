----------------------------- MODULE Verifiers -----------------------------
(***************************************************************************)
(* The verifiers of tuxedo-core (verifier.rs and verifier/ *.rs) and the   *)
(* aggregate verifier that the tuxedo_verifier macro generates.            *)
(*                                                                         *)
(* A verifier is a record whose type field is its variant in the           *)
(* aggregate; a redeemer is a record whose type field is its variant in    *)
(* the generated redeemer enum.  Verifying accepts, rejects, or panics.    *)
(* An sr25519 signature is the key and the message it was made with, and   *)
(* BlakeTwo256 is taken to be injective and never to return zero.          *)
(***************************************************************************)
EXTENDS Integers, Sequences, FiniteSets

ZeroHash == <<"zero">>
BlakeTwo256(preimage) == <<"hash", preimage>>
Signature(key, message) == [by |-> key, over |-> message]
sr25519_verify(signature, message, pubkey) == signature = Signature(pubkey, message)

Outcome == {"accept", "reject", "panic"}
Bool(holds) == IF holds THEN "accept" ELSE "reject"

UpForGrabs(v, tx, height, r) == Bool(TRUE)
Unspendable(v, tx, height, r) == Bool(FALSE)
TestVerifier(v, tx, height, r) == Bool(v.verifies)

Sr25519Signature(v, tx, height, r) ==
    Bool(sr25519_verify(r.signature, tx, v.owner_pubkey))

P2PKH(v, tx, height, r) ==
    Bool(/\ BlakeTwo256(r.pubkey) = v.owner_pubkey_hash
         /\ sr25519_verify(r.signature, tx, r.pubkey))

TimeLock(v, tx, height, r) == Bool(height >= v.unlock_block_height)

BlakeTwoHashLock(v, tx, height, r) == Bool(BlakeTwo256(r.secret) = v.hash_lock)

\* Mutant: the refund path does not look at the height.
HashTimeLockContractEarly(v, tx, height, r) ==
    Bool(\/ /\ r.path = "Claim"
            /\ BlakeTwo256(r.secret) = v.hash_lock
            /\ sr25519_verify(r.signature, tx, v.recipient_pubkey)
         \/ /\ r.path = "Refund"
            /\ sr25519_verify(r.signature, tx, v.refunder_pubkey))

\* Mutant: the claim path closes when the refund path opens.
HashTimeLockContractCloses(v, tx, height, r) ==
    Bool(IF height < v.claim_period_end
         THEN /\ r.path = "Claim"
              /\ BlakeTwo256(r.secret) = v.hash_lock
              /\ sr25519_verify(r.signature, tx, v.recipient_pubkey)
         ELSE /\ r.path = "Refund"
              /\ sr25519_verify(r.signature, tx, v.refunder_pubkey))

\* The two spend paths.  The first stays open when the second one opens.
HashTimeLockContract(v, tx, height, r) ==
    Bool(\/ /\ r.path = "Claim"
            /\ BlakeTwo256(r.secret) = v.hash_lock
            /\ sr25519_verify(r.signature, tx, v.recipient_pubkey)
         \/ /\ r.path = "Refund"
            /\ height >= v.claim_period_end
            /\ sr25519_verify(r.signature, tx, v.refunder_pubkey))

HasDuplicates(s) == \E i, j \in 1 .. Len(s) : i # j /\ s[i] = s[j]
Indexes(sigs) == [i \in 1 .. Len(sigs) |-> sigs[i].index]

\* Mutant: the number of signatures is not compared with the threshold.
ThresholdMultiSignatureAny(v, tx, height, r) ==
    Bool(\A i \in 1 .. Len(r.sigs) : r.sigs[i].index < Len(v.signatories))

\* The signatures are verified one by one, which panics on an index past the
\* signatories; what verifying them returned is not looked at.
ThresholdMultiSignature(v, tx, height, r) ==
    IF \/ HasDuplicates(v.signatories)
       \/ Len(r.sigs) < v.threshold
       \/ \E i \in 1 .. Len(r.sigs) : r.sigs[i].index >= Len(r.sigs)
       \/ HasDuplicates(Indexes(r.sigs))
    THEN "reject"
    ELSE IF \E i \in 1 .. Len(r.sigs) : r.sigs[i].index >= Len(v.signatories)
    THEN "panic"
    ELSE Bool(Len(r.sigs) >= v.threshold)

\* The generated verify: unwrap the redeemer as the verifier's own variant.
OuterVerify(v, tx, height, r) ==
    IF r.type # v.type
    THEN "panic"
    ELSE CASE v.type = "UpForGrabs"              -> UpForGrabs(v, tx, height, r)
           [] v.type = "Unspendable"             -> Unspendable(v, tx, height, r)
           [] v.type = "TestVerifier"            -> TestVerifier(v, tx, height, r)
           [] v.type = "Sr25519Signature"        -> Sr25519Signature(v, tx, height, r)
           [] v.type = "P2PKH"                   -> P2PKH(v, tx, height, r)
           [] v.type = "TimeLock"                -> TimeLock(v, tx, height, r)
           [] v.type = "BlakeTwoHashLock"        -> BlakeTwoHashLock(v, tx, height, r)
           [] v.type = "HashTimeLockContract"    -> HashTimeLockContract(v, tx, height, r)
           [] v.type = "ThresholdMultiSignature" -> ThresholdMultiSignature(v, tx, height, r)

\* new_unspendable of each verifier that has one; the aggregate takes that of
\* its first variant.
new_unspendable(type) ==
    CASE type = "Unspendable"             -> [type |-> type]
      [] type = "TestVerifier"            -> [type |-> type, verifies |-> FALSE]
      [] type = "Sr25519Signature"        -> [type |-> type, owner_pubkey |-> ZeroHash]
      [] type = "P2PKH"                   -> [type |-> type, owner_pubkey_hash |-> ZeroHash]
      [] type = "BlakeTwoHashLock"        -> [type |-> type, hash_lock |-> ZeroHash]
      [] type = "ThresholdMultiSignature" -> [type |-> type, threshold |-> 1,
                                              signatories |-> <<>>]
=============================================================================
