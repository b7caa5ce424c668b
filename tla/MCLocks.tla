------------------------------ MODULE MCLocks ------------------------------
(***************************************************************************)
(* Small instances of Locks.  Two transactions compete for the hash time   *)
(* lock; every other output has one transaction that redeems it.           *)
(***************************************************************************)
EXTENDS Locks

CONSTANTS Alice, Bob

MCLock == [c \in Coin |->
    CASE c = "htlc"  -> [type |-> "HashTimeLockContract", hash_lock |-> BlakeTwo256("x"),
                         recipient_pubkey |-> Bob, refunder_pubkey |-> Alice,
                         claim_period_end |-> 2]
      [] c = "sig"   -> [type |-> "Sr25519Signature", owner_pubkey |-> Alice]
      [] c = "p2pkh" -> [type |-> "P2PKH", owner_pubkey_hash |-> BlakeTwo256(Bob)]
      [] c = "time"  -> [type |-> "TimeLock", unlock_block_height |-> 2]
      [] c = "hash"  -> [type |-> "BlakeTwoHashLock", hash_lock |-> BlakeTwo256("x")]
      [] c = "open"  -> [type |-> "UpForGrabs"]
      [] c = "test"  -> [type |-> "TestVerifier", verifies |-> TRUE]
      [] c = "never" -> new_unspendable("Unspendable")
      [] c = "zero"  -> new_unspendable("Sr25519Signature")
      [] c = "multi" -> [type |-> "ThresholdMultiSignature", threshold |-> 2,
                         signatories |-> <<Alice, Bob>>]
      [] c = "over"  -> [type |-> "ThresholdMultiSignature", threshold |-> 2,
                         signatories |-> <<Alice>>]
      [] c = "empty" -> new_unspendable("ThresholdMultiSignature")]

MCGenesis == {{"htlc", "p2pkh"}, {"sig", "zero"}, {"time", "hash"}, {"open", "test", "never"},
              {"multi"}, {"over"}, {"empty"}}
MCMultiGenesis == {{"multi"}}

\* A transaction is named by its output, or by its output and a number.
MCSpends == [t \in Tx |-> IF t = "htlc2" THEN "htlc" ELSE t]
=============================================================================
