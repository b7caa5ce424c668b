----------------------------- MODULE Parachain -----------------------------
(***************************************************************************)
(* A Tuxedo parachain: collators (parachain-node) author blocks on the     *)
(* head that a relay chain block has included, relay chain validators run  *)
(* validate_block over them, and the other collators import them.          *)
(*                                                                         *)
(* The relay chain is external: a sequence of blocks, each with the        *)
(* parachain head of its state.  Its block number stands for its storage   *)
(* root and for the time of its slot, from which the collator takes the    *)
(* timestamp of the block it authors.                                      *)
(***************************************************************************)
EXTENDS TimestampPiece, FiniteSets

CONSTANTS
    Collator,       \* the Aura authorities, numbered 0 .. N - 1
    MaxAge,         \* for how many relay blocks a candidate can be included
    MaxRelay,       \* bound: relay chain blocks
    MaxBlocks,      \* bound: parachain blocks
    MaxOther        \* bound: blocks of collators with other software

ASSUME ParachainAssumption ==
    /\ Collator = 0 .. Cardinality(Collator) - 1
    /\ MaxAge \in Nat /\ MaxRelay \in Nat \ {0} /\ MaxBlocks \in Nat /\ MaxOther \in Nat

VARIABLES
    heads,          \* heads[r]: the block that relay chain block r has as head
    blocks,         \* all parachain blocks; the first is genesis
    known,          \* known[c]: the blocks that collator c has imported
    collated,       \* collated[c]: the last relay parent c authored on
    candidates,     \* what collators sent to the validators
    backed,         \* candidates that validate_block accepted
    other           \* the blocks of collators with other software

vars == <<heads, blocks, known, collated, candidates, backed, other>>

relay == Len(heads)

\* The aggregation by parachainify: the inner checker, then the parachain piece.
Leaves == <<"SetTimestamp", "ParachainInfo">>
InherentKinds == {"SetTimestamp", "ParachainInfo"}
is_parachain(tx) == tx.kind = "ParachainInfo"

-----------------------------------------------------------------------------
(* The parachain piece.                                                    *)

ParachainInherentData(number, parent) ==
    [relay_parent_number |-> number, parent_head |-> parent]

\* Mutant: the genesis transaction has no output.
GenesisInfoEmpty == Tx("ParachainInfo", {}, <<>>, <<>>)

GenesisInfo == Tx("ParachainInfo", {}, <<>>, <<ParachainInherentData(0, 0)>>)

\* Mutant: the previous info is not evicted.
CreateInfoKeeping(number, parent, previous) ==
    Tx("ParachainInfo", {}, <<>>, <<ParachainInherentData(number, parent)>>)

CreateInfo(number, parent, previous) ==
    Tx("ParachainInfo", {previous}, <<>>, <<ParachainInherentData(number, parent)>>)

\* Mutant: the relay parent number may be any.
SetParachainInfoCheckAny(tx) == Len(tx.outputs) = 1 /\ Cardinality(tx.evicted) = 1

\* A parachain inherent has evicted inputs only: input_data is empty.  The number is
\* written before the last two checks, but what a refused transaction wrote is rolled
\* back by the proposer, or the block is refused as a whole.
SetParachainInfoCheck(tx) ==
    /\ Len(tx.outputs) = 1
    /\ Cardinality(tx.evicted) = 1
    /\ \A previous \in tx.evicted :
           tx.outputs[1].relay_parent_number > Deref(previous).relay_parent_number

\* Mutant: the number is taken from the info that is consumed.
StoreNumberConsumed(tx, stored) ==
    IF is_parachain(tx)
    THEN Deref(CHOOSE previous \in tx.evicted : TRUE).relay_parent_number ELSE stored

\* The side effect of the check on RELAY_PARENT_NUMBER_KEY.
StoreNumber(tx, stored) ==
    IF is_parachain(tx) THEN tx.outputs[1].relay_parent_number ELSE stored

NotStored == -1

-----------------------------------------------------------------------------
(* The executive.                                                          *)

Valid(tx, live, height) ==
    /\ \A ref \in tx.evicted : ref \in live /\ ref.kind = tx.kind
    /\ \A i \in 1 .. Len(tx.peeks) : tx.peeks[i] \in live /\ tx.peeks[i].kind = tx.kind
    /\ tx \notin live
    /\ IF is_parachain(tx) THEN SetParachainInfoCheck(tx) ELSE SetTimestampCheck(tx, height)

Executes(extrinsics, live, height) ==
    \A i \in 1 .. Len(extrinsics) :
        Valid(extrinsics[i], LiveAfter(extrinsics, live)[i - 1], height)

StoredAfter(extrinsics, stored) ==
    LET f[i \in 0 .. Len(extrinsics)] ==
            IF i = 0 THEN stored ELSE StoreNumber(extrinsics[i], f[i - 1])
    IN  f[Len(extrinsics)]

\* The proposer pushes the inherents one after the other and drops one that fails.
Push(created, live, height) ==
    LET pushed[n \in 0 .. Len(created)] ==
            IF n = 0 THEN <<>>
            ELSE LET before == pushed[n - 1]
                 IN  IF Valid(created[n], LiveAfter(before, live)[Len(before)], height)
                     THEN Append(before, created[n]) ELSE before
    IN  pushed[Len(created)]

NewBlock(parent, extrinsics) ==
    [parent |-> parent, number |-> blocks[parent].number + 1, extrinsics |-> extrinsics,
     live |-> LiveAfter(extrinsics, blocks[parent].live)[Len(extrinsics)],
     stored |-> StoredAfter(extrinsics, blocks[parent].stored)]

\* collect_collation_info: what the block left in storage.
Candidate(b, block) == [block |-> b, relay_parent |-> relay, watermark |-> block.stored]

\* The data of the first parachain inherent of a block.
FoundData(block) == Deref(OfKind(OpeningInherents(block.extrinsics, InherentKinds), "ParachainInfo")[1])

\* Whether validate_block comes to an end for the given relay parent, where it
\* does not panic.
ValidateBlock(block, parent_head, relay_parent_number) ==
    /\ block.parent = parent_head
    /\ OfKind(block.extrinsics, "ParachainInfo") # <<>>
    /\ FoundData(block) = ParachainInherentData(relay_parent_number, parent_head)
    /\ Executes(block.extrinsics, blocks[block.parent].live, block.number)

\* hrmp_watermark of the ValidationResult.
ResultWatermark(block) == StoredAfter(block.extrinsics, blocks[block.parent].stored)

\* The importing collator's check_inherents; nothing is checked of the
\* parachain inherent but that there is one.
CheckBlockInherents(block, local_time) ==
    \E inherents \in {OpeningInherents(block.extrinsics, InherentKinds)} :
    LET passed == {tx \in Range(inherents) : is_parachain(tx) \/ check_inherent(local_time, tx)}
    IN  CheckInherents(Leaves, inherents, InherentKinds, passed)

-----------------------------------------------------------------------------
(* The system.                                                             *)

Init ==
    /\ heads = <<1>>
    /\ blocks = <<[parent |-> 0, number |-> 0, extrinsics |-> <<genesis_transaction, GenesisInfo>>,
                   live |-> {genesis_transaction, GenesisInfo}, stored |-> NotStored]>>
    /\ known = [c \in Collator |-> {1}]
    /\ collated = [c \in Collator |-> 0]
    /\ candidates = {} /\ backed = {} /\ other = {}

\* The next relay chain block includes a backed candidate that is built on the
\* current head and not too old, or none: validators may be late.
RelayBlock ==
    /\ relay < MaxRelay
    /\ \E head \in {heads[relay]} \cup
                   {c.block : c \in {c \in backed : /\ blocks[c.block].parent = heads[relay]
                                                    /\ c.relay_parent + MaxAge >= relay}} :
           heads' = Append(heads, head)
    /\ UNCHANGED <<blocks, known, collated, candidates, backed, other>>

\* The collator in turn builds on the head that its relay parent, the best relay
\* chain block, has included, once it has that block itself.
Collate(c) ==
    LET parent   == heads[relay]
        height   == blocks[parent].number + 1
        previous == OpeningInherents(blocks[parent].extrinsics, InherentKinds)
        create == [tx \in Range(previous) |-> IF is_parachain(tx)
                                              THEN CreateInfo(relay, parent, tx)
                                              ELSE create_inherent(relay, height, tx)]
    IN  /\ relay % Cardinality(Collator) = c
        /\ collated[c] < relay
        /\ parent \in known[c]
        /\ Len(blocks) < MaxBlocks
        /\ collated' = [collated EXCEPT ![c] = relay]
        /\ IF CreatePanics(Leaves, previous, InherentKinds)
           THEN UNCHANGED <<blocks, known, candidates>>
           ELSE \E body \in {Push(CreateInherents(Leaves, previous, InherentKinds, create),
                                blocks[parent].live, height)} :
                LET block == NewBlock(parent, body)
                    b == Len(blocks) + 1
                IN  /\ blocks' = Append(blocks, block)
                    /\ known' = [known EXCEPT ![c] = @ \cup {b}]
                    /\ candidates' = candidates \cup {Candidate(b, block)}
        /\ UNCHANGED <<heads, backed, other>>

\* Up to two inherents in any order that execute, with a time that is fine or
\* far ahead and a relay parent number around that of the relay parent.
OtherStamps(parent, live) ==
    {create_inherent(time, blocks[parent].number + 1, tx) :
        time \in {relay, relay + MAX_DRIFT + 1}, tx \in {t \in live : ~is_parachain(t)}}
OtherInfos(parent, live) ==
    {CreateInfo(number, parent, tx) :
        number \in relay - 1 .. relay + 1, tx \in {t \in live : is_parachain(t)}}
OtherNext(parent, body) ==
    LET live == LiveAfter(body, blocks[parent].live)[Len(body)]
    IN  OtherStamps(parent, live) \cup OtherInfos(parent, live)
Extend(parent, bodies) ==
    UNION {{Append(body, tx) : tx \in OtherNext(parent, body)} : body \in bodies}
OtherBodies(parent) ==
    LET One == Extend(parent, {<<>>})
    IN  {body \in {<<>>} \cup One \cup Extend(parent, One) :
            Executes(body, blocks[parent].live, blocks[parent].number + 1)}

\* A candidate from a collator that runs other software.
CollateOther ==
    /\ Cardinality(other) < MaxOther /\ Len(blocks) < MaxBlocks
    /\ other' = other \cup {Len(blocks) + 1}
    /\ \E body \in OtherBodies(heads[relay]) :
           LET block == NewBlock(heads[relay], body)
           IN  /\ blocks' = Append(blocks, block)
               /\ candidates' = candidates \cup {Candidate(Len(blocks) + 1, block)}
    /\ UNCHANGED <<heads, known, collated, backed>>

\* A validator runs validate_block with the data of the relay parent and
\* compares what it returns with what the collator said.
Validate(c) ==
    /\ c \in candidates \ backed
    /\ ValidateBlock(blocks[c.block], heads[c.relay_parent], c.relay_parent)
    /\ ResultWatermark(blocks[c.block]) = c.watermark
    /\ backed' = backed \cup {c}
    /\ UNCHANGED <<heads, blocks, known, collated, candidates, other>>

Import(c, b) ==
    /\ b \notin known[c]
    /\ blocks[b].parent \in known[c]
    /\ known' = [known EXCEPT ![c] = @ \cup {b}]
    /\ UNCHANGED <<heads, blocks, collated, candidates, backed, other>>
    /\ CheckBlockInherents(blocks[b], relay)
    /\ Executes(blocks[b].extrinsics, blocks[blocks[b].parent].live, blocks[b].number)

\* The bound on the relay chain is reached.
Stop == relay = MaxRelay /\ UNCHANGED vars

Next ==
    \/ RelayBlock
    \/ \E c \in Collator : \/ Collate(c)
                          \/ \E b \in 1 .. Len(blocks) : Import(c, b)
    \/ CollateOther
    \/ \E c \in candidates : Validate(c)
    \/ Stop

Fairness == \A c \in Collator : WF_vars(\E b \in 1 .. Len(blocks) : Import(c, b))

Spec == Init /\ [][Next]_vars /\ Fairness

-----------------------------------------------------------------------------
(* Properties.                                                             *)

\* After every block one parachain info is live, the next one's to evict.
OneInfoLive(live) ==
    \E info \in live : \A tx \in live : is_parachain(tx) <=> tx = info

TypeOK ==
    /\ \A r \in 1 .. relay : heads[r] \in 1 .. Len(blocks)
    /\ \A b \in 1 .. Len(blocks) :
           /\ blocks[b].parent \in 0 .. b - 1
           /\ blocks[b].stored \in NotStored .. MaxRelay + 1
           /\ \A tx \in blocks[b].live : Len(tx.outputs) = 1
           /\ OneInfoLive(blocks[b].live)
    /\ \A c \in Collator : known[c] \subseteq 1 .. Len(blocks) /\ collated[c] \in 0 .. MaxRelay
    /\ backed \subseteq candidates /\ other \subseteq 1 .. Len(blocks)

\* Block b and the blocks below it; genesis has parent 0.
Chain(b) ==
    LET chain[a \in 0 .. b] == IF a = 0 THEN {} ELSE {a} \cup chain[blocks[a].parent]
    IN  chain[b]

\* Whether block b is on a chain that our collators alone have authored.
Ours(b) == Chain(b) \cap other = {}

\* What a collator authors on a chain of ours passes validate_block for the relay
\* parent it was authored on, now or later, and the validators get the watermark
\* that collect_collation_info promised.
CollationsValidate ==
    \A c \in candidates : Ours(c.block) =>
        /\ ValidateBlock(blocks[c.block], heads[c.relay_parent], c.relay_parent)
        /\ ResultWatermark(blocks[c.block]) = c.watermark

\* The relay parent number in storage after a block with one parachain inherent,
\* which becomes the watermark, is the number of the relay parent the block was
\* validated for, whoever authored it.  With two inherents it may be another.
WatermarkIsRelayParent ==
    \A c \in backed : Len(OfKind(blocks[c.block].extrinsics, "ParachainInfo")) = 1
                      => c.watermark = c.relay_parent

\* The relay parent number in storage rises with every block that the relay chain
\* includes, however many parachain inherents the block has.
StoredNumberRises ==
    \A r \in 1 .. relay : LET b == blocks[heads[r]]
                          IN  b.parent # 0 => b.stored > blocks[b.parent].stored

\* Every block of ours that the relay chain has included reaches every collator,
\* again and again all of them are level, so that any of them can build on it: no
\* block is refused for coming late.  A block of other software may be one that
\* validate_block accepts and check_inherents refuses.
IncludedReachesAll ==
    []<>(\A c \in Collator : \A r \in 1 .. relay :
            heads[r] \notin known[c] => ~Ours(heads[r]))
=============================================================================
