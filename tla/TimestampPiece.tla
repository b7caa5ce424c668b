-------------------------- MODULE TimestampPiece --------------------------
(***************************************************************************)
(* The timestamp piece (wardrobe/timestamp): the inherent that notes the   *)
(* time of every block, and the clean up of old timestamps.                *)
(*                                                                         *)
(* A transaction stands for its hash, which is unique because it peeks at  *)
(* the transaction before it; a reference to an output is the transaction  *)
(* that made it.                                                           *)
(***************************************************************************)
EXTENDS Inherents

CONSTANTS
    MINIMUM_TIME_INTERVAL, MAX_DRIFT,
    MIN_TIME_BEFORE_CLEANUP, MIN_BLOCKS_BEFORE_CLEANUP

ASSUME TimestampPieceAssumption ==
    /\ MINIMUM_TIME_INTERVAL \in Nat /\ MAX_DRIFT \in Nat
    /\ MIN_TIME_BEFORE_CLEANUP \in Nat /\ MIN_BLOCKS_BEFORE_CLEANUP \in Nat

Stamp(time, block) == [time |-> time, block |-> block]
Tx(kind, evicted, peeks, outputs) ==
    [kind |-> kind, evicted |-> evicted, peeks |-> peeks, outputs |-> outputs]
\* The data of the output that a reference stands for.
Deref(tx) == tx.outputs[1]

genesis_transaction == Tx("SetTimestamp", {}, <<>>, <<Stamp(0, 0)>>)

create_inherent(time, height, previous) ==
    Tx("SetTimestamp", {}, <<previous>>, <<Stamp(time, height)>>)

\* Mutant: a block is refused when its time is off in either direction.
check_inherentBothWays(local_time, tx) ==
    /\ tx.outputs # <<>>
    /\ Deref(tx).time <= local_time + MAX_DRIFT
    /\ Deref(tx).time + MAX_DRIFT >= local_time

check_inherent(local_time, tx) ==
    tx.outputs # <<>> /\ Deref(tx).time <= local_time + MAX_DRIFT

\* Mutant: the height of the timestamp peeked at is not looked at.
SetTimestampCheckAnyPeek(tx, height) ==
    LET old == Deref(tx.peeks[1])
        new == tx.outputs[1]
    IN  /\ new.block = height
        /\ old.block = 0 \/ new.time >= old.time + MINIMUM_TIME_INTERVAL

SetTimestampCheck(tx, height) ==
    /\ tx.evicted = {}
    /\ Len(tx.outputs) = 1
    /\ tx.outputs[1].block = height
    /\ tx.peeks # <<>>
    /\ LET old == Deref(tx.peeks[1])
           new == tx.outputs[1]
       IN  /\ \/ old.block = 0
              \/ new.time >= old.time + MINIMUM_TIME_INTERVAL
           /\ new.block = old.block + 1

\* Mutant: the age of what is cleaned up is not looked at.
CleanUpTimestampCheckAny(tx, height) == tx.peeks # <<>> /\ tx.outputs = <<>>

CleanUpTimestampCheck(tx, height) ==
    /\ tx.peeks # <<>>
    /\ tx.outputs = <<>>
    /\ \A old \in tx.evicted :
           /\ Deref(old).time + MIN_TIME_BEFORE_CLEANUP < Deref(tx.peeks[1]).time
           /\ Deref(old).block + MIN_BLOCKS_BEFORE_CLEANUP < height

-----------------------------------------------------------------------------
(* What a block does to the set of transactions whose output is unspent.   *)

Apply(tx, live) ==
    (live \ tx.evicted) \cup (IF tx.outputs = <<>> THEN {} ELSE {tx})

\* live after the first i extrinsics.
LiveAfter(extrinsics, live) ==
    LET f[i \in 0 .. Len(extrinsics)] ==
            IF i = 0 THEN live ELSE Apply(extrinsics[i], f[i - 1])
    IN  f
=============================================================================
