----------------------------- MODULE Timestamp -----------------------------
(***************************************************************************)
(* The timestamp piece on a network: nodes (node/src/service.rs) author    *)
(* blocks in Aura slots by their own clocks, check the inherents of the    *)
(* blocks they import against these clocks, and execute them.              *)
(***************************************************************************)
EXTENDS TimestampPiece, FiniteSets

CONSTANTS
    Node,                       \* the nodes, numbered 0 .. N - 1 as authorities
    Skew,                       \* Skew[n]: how far n's clock is ahead
    BLOCK_TIME,                 \* the duration of a slot
    MaxTime,                    \* bound: time that passes
    MaxBlocks,                  \* bound: blocks in all
    MaxForeign,                 \* bound: blocks of unknown origin
    MaxCleanUps                 \* bound: users clean up in the first blocks only

ASSUME TimestampAssumption ==
    /\ Node = 0 .. Cardinality(Node) - 1
    /\ Skew \in [Node -> Nat]
    /\ BLOCK_TIME \in Nat \ {0}
    /\ MaxTime \in Nat /\ MaxTime >= BLOCK_TIME /\ MaxBlocks \in Nat \ {0}
    /\ MaxForeign \in Nat /\ MaxCleanUps \in Nat

VARIABLES
    now,        \* the time
    blocks,     \* all blocks, in the order they were made; the first is genesis
    known,      \* known[n]: the blocks that n has imported
    head,       \* head[n]: the best block of n, the longest chain
    slot,       \* slot[n]: the slot n last authored in
    panicked,   \* panicked[n]: creating inherents panicked when n last authored
    foreign     \* the blocks of unknown origin

vars == <<now, blocks, known, head, slot, panicked, foreign>>

Clock(n) == now + Skew[n]

-----------------------------------------------------------------------------
(* The aggregation.                                                        *)

Leaves == <<"SetTimestamp", "CleanUpTimestamp">>
InherentKinds == {"SetTimestamp"}

-----------------------------------------------------------------------------
(* The executive, over the set of transactions whose timestamp is unspent. *)

Valid(tx, live, height) ==
    /\ tx.evicted \subseteq live
    /\ \A i \in 1 .. Len(tx.peeks) : tx.peeks[i] \in live
    /\ tx \notin live
    /\ IF tx.kind \in InherentKinds THEN SetTimestampCheck(tx, height)
                              ELSE CleanUpTimestampCheck(tx, height)

Executes(extrinsics, live, height) ==
    /\ InherentsComeFirst(extrinsics, InherentKinds)
    /\ \A i \in 1 .. Len(extrinsics) :
           Valid(extrinsics[i], LiveAfter(extrinsics, live)[i - 1], height)

\* The proposer pushes the inherents one after the other and drops one that fails.
Push(created, live, height) ==
    LET pushed[n \in 0 .. Len(created)] ==
            IF n = 0 THEN <<>>
            ELSE LET before == pushed[n - 1]
                 IN  IF Valid(created[n], LiveAfter(before, live)[Len(before)], height)
                     THEN Append(before, created[n]) ELSE before
    IN  pushed[Len(created)]

NewBlock(parent, extrinsics) ==
    [parent |-> parent, number |-> blocks[parent].number + 1, extrinsics |-> extrinsics,
     live |-> LiveAfter(extrinsics, blocks[parent].live)[Len(extrinsics)]]

-----------------------------------------------------------------------------
(* The nodes.                                                              *)

Init ==
    /\ now = BLOCK_TIME
    /\ blocks = <<[parent |-> 0, number |-> 0, extrinsics |-> <<genesis_transaction>>,
                   live |-> {genesis_transaction}]>>
    /\ known = [n \in Node |-> {1}]
    /\ head = [n \in Node |-> 1]
    /\ slot = [n \in Node |-> 0]
    /\ panicked = [n \in Node |-> FALSE]
    /\ foreign = {}

\* The authorities take turns by slot.  An author starts at any time in its slot, or
\* misses it: the minimum interval may not have passed since its parent's timestamp.
Due(n) ==
    LET current == Clock(n) \div BLOCK_TIME
    IN  /\ Len(blocks) < MaxBlocks
        /\ current > slot[n]
        /\ current % Cardinality(Node) = n

Tick ==
    /\ now < MaxTime
    /\ now' = now + 1
    /\ UNCHANGED <<blocks, known, head, slot, panicked, foreign>>

\* Mutant: the head moves to a block that was not imported.
AdoptHead(n, b, number) ==
    head' = [head EXCEPT ![n] = IF number > blocks[@].number THEN b ELSE @] /\ UNCHANGED known

\* The longest chain rule.
Adopt(n, b, number) ==
    /\ known' = [known EXCEPT ![n] = @ \cup {b}]
    /\ head' = [head EXCEPT ![n] = IF number > blocks[@].number THEN b ELSE @]

CleanUp(old, new) == Tx("CleanUpTimestamp", {old}, <<new>>, <<>>)
CleanUps(live) == {CleanUp(old, new) : old \in live, new \in live}

CleanUpTxs(live, height) ==
    IF height <= MaxCleanUps THEN {tx \in CleanUps(live) : Valid(tx, live, height)} ELSE {}

\* The inherents are created from the parent block and the local clock and pushed,
\* and the proposer goes on with the pool.
Author(n) ==
    LET parent == blocks[head[n]]
        height == parent.number + 1
        previous == OpeningInherents(parent.extrinsics, InherentKinds)
        create == [tx \in Range(previous) |-> create_inherent(Clock(n), height, tx)]
    IN  /\ Due(n)
        /\ slot' = [slot EXCEPT ![n] = Clock(n) \div BLOCK_TIME]
        /\ IF CreatePanics(Leaves, previous, InherentKinds)
           THEN /\ panicked' = [panicked EXCEPT ![n] = TRUE]
                /\ UNCHANGED <<blocks, known, head>>
           ELSE \E pushed \in {Push(CreateInherents(Leaves, previous, InherentKinds, create),
                                  parent.live, height)} :
                LET live == LiveAfter(pushed, parent.live)[Len(pushed)]
                IN  /\ \E body \in {pushed} \cup {Append(pushed, tx) : tx \in CleanUpTxs(live, height)} :
                          blocks' = Append(blocks, NewBlock(head[n], body))
                    /\ Adopt(n, Len(blocks) + 1, height)
                    /\ panicked' = [panicked EXCEPT ![n] = FALSE]
        /\ UNCHANGED <<now, foreign>>

\* The off-chain check of the import queue, then execution.
Accepts(n, extrinsics, parent) ==
    LET inherents == OpeningInherents(extrinsics, InherentKinds)
        passed == {tx \in Range(inherents) : check_inherent(Clock(n), tx)}
    IN  /\ CheckInherents(Leaves, inherents, InherentKinds, passed)
        /\ Executes(extrinsics, blocks[parent].live, blocks[parent].number + 1)

Import(n, b) ==
    /\ b \notin known[n]
    /\ blocks[b].parent \in known[n]
    /\ Adopt(n, b, blocks[b].number)
    /\ UNCHANGED <<now, blocks, slot, panicked, foreign>>
    /\ Accepts(n, blocks[b].extrinsics, blocks[b].parent)

\* A block of unknown origin: up to two inherents, with any time around the
\* local clock and any timestamp of the chain as their peek, and a clean up.  It
\* comes early enough for the slower clocks to get as far before time stops.
ForeignInherents(n, parent) ==
    {create_inherent(time, blocks[parent].number + 1, old) :
        old \in blocks[parent].live, time \in 0 .. Clock(n) + MAX_DRIFT + 1}

ForeignSeconds(n, parent, first) ==
    {create_inherent(Clock(n), blocks[parent].number + 1, old) : old \in blocks[parent].live}
        \cup CleanUps(blocks[parent].live \cup {first})

ForeignBodies(n, parent) ==
    {<<>>} \cup UNION {{<<first>>} \cup {<<first, tx>> : tx \in ForeignSeconds(n, parent, first)} :
                          first \in ForeignInherents(n, parent)}

ImportForeign(n) ==
    /\ Cardinality(foreign) < MaxForeign /\ Len(blocks) < MaxBlocks
    /\ Clock(n) <= MaxTime
    /\ foreign' = foreign \cup {Len(blocks) + 1}
    /\ \E parent \in known[n] : \E body \in ForeignBodies(n, parent) :
           /\ Accepts(n, body, parent)
           /\ blocks' = Append(blocks, NewBlock(parent, body))
           /\ Adopt(n, Len(blocks) + 1, blocks[parent].number + 1)
    /\ UNCHANGED <<now, slot, panicked>>

\* The bound on time is reached.
Stop == now = MaxTime /\ UNCHANGED vars

Next ==
    \/ Tick
    \/ \E n \in Node : \/ Author(n)
                      \/ \E b \in 1 .. Len(blocks) : Import(n, b)
                      \/ ImportForeign(n)
    \/ Stop

Fairness ==
    /\ WF_vars(Tick)
    /\ \A n \in Node : WF_vars(\E b \in 1 .. Len(blocks) : Import(n, b))

Spec == Init /\ [][Next]_vars /\ Fairness

-----------------------------------------------------------------------------
(* Properties.                                                             *)

TxType(tx) ==
    /\ tx.kind \in {"SetTimestamp", "CleanUpTimestamp"}
    /\ Len(tx.outputs) = IF tx.kind \in InherentKinds THEN 1 ELSE 0

TypeOK ==
    /\ now \in BLOCK_TIME .. MaxTime
    /\ \A b \in 1 .. Len(blocks) :
           /\ blocks[b].parent \in 0 .. b - 1
           /\ \A i \in 1 .. Len(blocks[b].extrinsics) : TxType(blocks[b].extrinsics[i])
           /\ \A tx \in blocks[b].live : TxType(tx) /\ tx.kind \in InherentKinds
    /\ \A n \in Node : /\ known[n] \subseteq 1 .. Len(blocks)
                      /\ head[n] \in known[n]
                      /\ slot[n] \in Nat /\ panicked[n] \in BOOLEAN
    /\ foreign \subseteq 1 .. Len(blocks)

StampsOf(b) == OfKind(blocks[b].extrinsics, "SetTimestamp")
TimeOf(b) == Deref(StampsOf(b)[1]).time

\* The blocks below b; genesis has parent 0.
Below(b) ==
    LET below[a \in 0 .. b] == IF a = 0 THEN {} ELSE {blocks[a].parent} \cup below[blocks[a].parent]
    IN  below[b]

\* A block without exactly one timestamp stays with the node that made it: its own
\* inherent was refused, the author being behind its parent's timestamp or too soon
\* after it, and the proposer went on.  The inherent hooks panic on top of such a
\* block, on chain nothing forbids it, and only the off-chain check keeps it from
\* everyone else; so no author ever panics on a block that another node has.
OneTimestampPerBlock ==
    /\ \A b \in 1 .. Len(blocks) : Len(StampsOf(b)) # 1
           => \A m, n \in Node : b \in known[m] \cap known[n] => m = n
    /\ \A n \in Node : panicked[n] => \E b \in known[n] : Len(StampsOf(b)) # 1

\* From block to block the time advances by the minimum at least, the first block
\* after genesis apart, whatever timestamp an inherent chooses to peek at.
TimeAdvances ==
    \A b \in 2 .. Len(blocks) :
        blocks[b].parent # 1 /\ StampsOf(b) # <<>> /\ StampsOf(blocks[b].parent) # <<>>
        => TimeOf(b) >= TimeOf(blocks[b].parent) + MINIMUM_TIME_INTERVAL

\* No clean up takes away the timestamp that the next block has to peek at.
ParentTimestampLive ==
    \A b \in 1 .. Len(blocks) : \A i \in 1 .. Len(StampsOf(b)) :
        StampsOf(b)[i] \in blocks[b].live

\* Neither b nor a block below it lacks its timestamp.
Timed(b) == \A a \in {b} \cup Below(b) : a # 0 => Len(StampsOf(a)) = 1

\* A block that one node has reaches every other, however late it is imported and
\* wherever it comes from, so that all of them are level again and again: no timestamp
\* is too old to be imported, and none stays too far ahead.  Only a block that lacks
\* its timestamp, and what its author puts on top of it, is held back.
BlocksSpread ==
    []<>(\A b \in 1 .. Len(blocks), n \in Node : b \notin known[n] => ~Timed(b))
=============================================================================
