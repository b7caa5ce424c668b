# A TLA+ verification of Tuxedo

Tuxedo is a framework for UTXO blockchains on Substrate. A runtime is the generic
`Executive<V, C>` of `tuxedo-core`, instantiated with a verifier type `V` (who may spend an
output) and a constraint checker type `C` (what a transaction may do). `wardrobe/` holds ready-made
checkers ("pieces"), the template and parachain runtimes aggregate them, `tuxedo-parachain-core`
validates blocks for a relay chain, and `wallet/` keeps a local copy of the outputs its user owns.

## Inventory

| Part | State it keeps | What makes it correct | Modules |
|---|---|---|---|
| Executive, UTXO set, genesis (`tuxedo-core/src/executive.rs`, `utxo_set.rs`, `genesis/`) | UTXO set, height, transient header and extrinsic list | outputs are created and consumed in balance; only a satisfied verifier or an eviction removes one; authoring and import agree | `Executive`, `Ledger`, `ExecutiveRefinement`, `ExecutiveProofs` |
| Verifiers (`tuxedo-core/src/verifier/`) | none | an output leaves as its verifier's parties agreed, at the right height | `Verifiers`, `Locks`, `LocksProofs` |
| Inherent hooks and aggregation (`inherents.rs`, `aggregator/`) | none; read the parent block | a block without its inherents stays with its author; any author can build on what it imported | `Inherents` |
| Timestamp piece (`wardrobe/timestamp`) | one output per block | time advances, clean up leaves what the next block needs, blocks spread | `TimestampPiece`, `Timestamp`, `TimestampProofs` |
| Money, kitties, amoeba, proof of existence, runtime upgrade (`wardrobe/`), dynamic typing | outputs; the `:code` key | value is conserved by spends of different coins, DNA is unique, the oldest claim stands, code and its reference agree, pieces keep apart | `Typing`, `Money`, `Kitties`, `Amoeba`, `Poe`, `RuntimeUpgrade`, `TemplateRuntime`, `TemplateRuntimeProofs` |
| Parachain piece and validation (`wardrobe/parachain`, `tuxedo-parachain-core`) | relay parent number | what a collator builds validates, and reaches the others | `Parachain`, `ParachainProofs` |
| Storage of parachain validation (`validate_block.rs`, `trie_cache.rs`) | overlay, value cache | a runtime sees the storage a node would show it | `HostStorage`, `ValidationStorage`, `ValidationStorageProofs` |
| Relay chain state (`relay_state_snapshot.rs`) | none | a proof is read as the relay parent's state, or not at all (no caller yet) | `RelayState` |
| Wallet (`wallet/src/`) | a sled database, a keystore | the unspent table is what the user owns on the best chain; spends are well formed | `WalletSync`, `WalletSyncProofs`, `WalletSpending`, `WalletSpendingProofs` |
| Nodes (`node/`, `parachain-node/`) | Substrate services | wiring | the drivers in `Executive`, `Timestamp` and `Parachain` |

How the parts interact. The pool calls `validate_transaction` on the state of the best block. A
proposer calls `open_block`, pushes the inherents made from the parent block, calls `apply_extrinsic`
for pool transactions, and `close_block`. Importers call `check_inherents` and `execute_block`. The
executive calls verifiers once per redeemed input and the checker once per transaction; a checker may
write storage of its own. On a parachain, relay chain validators run `validate_block`, which executes
the block over a proof instead of a database. The wallet reads blocks over RPC and follows the best
chain.

The interactions are split so that each question has a small model. `Executive` has any verifier and
any checker as parameters. `Locks` puts the real verifiers under a pool and blocks. `TemplateRuntime`
composes the real checkers over one UTXO set. `Timestamp` and `Parachain` compose the inherent hooks
with the nodes that author, validate and import.

Modules `MC...` give the constants of small instances. A definition whose comment begins with
"Mutant" is a deliberately wrong variant of the definition after it; it is used by nothing and shows,
substituted for that definition, that the properties notice.

| Run | Module and configuration | Outcome | States |
|---|---|---|---|
| `executive` | `MCExecutive`, `MCExecutive.cfg` | passes | 58,199 |
| `executive_inputs` | `MCExecutive`, `MCExecutiveInputs.cfg` | violation | |
| `locks` | `MCLocks`, `MCLocks.cfg` | passes | 61,104 |
| `locks_multi` | `MCLocks`, `MCLocks_multi.cfg` | violation | |
| `timestamp` | `MCTimestamp`, `MCTimestamp.cfg` | passes | 279,120 |
| `pieces` | `MCTemplateRuntime`, `MCTemplateRuntime.cfg` | passes | 12,451 |
| `parachain` | `MCParachain`, `MCParachain.cfg` | passes | 147,905 |
| `storage` | `MCValidationStorage`, `MCValidationStorage.cfg` | passes | 84,563 |
| `relay_state` | `RelayState`, `MCRelayState.cfg` | passes | 274,732 |
| `wallet` | `MCWalletSync`, `MCWalletSync.cfg` | passes | 1,033,795 |
| `wallet_moves` | `MCWalletSync`, `MCWalletSync_moves.cfg` | violation | |
| `spending` | `MCWalletSpending`, `MCWalletSpending.cfg` | passes | 2,039,162 |

## Module Executive

State and correspondence:

| Specification | Code |
|---|---|
| `Body[h]`, `Hash` | transactions, named by their hash; a hash covers the redeemers |
| `storage.db.utxos`, `.height` | entries of the UTXO set, `HEIGHT_KEY` |
| `storage.db.aux` | storage written by checkers while they check (`RuntimeUpgrade`, `SetParachainInfo`) |
| `storage.header`, `storage.extrinsics` | `HEADER_KEY`, `EXTRINSIC_KEY` |
| `tree` | the blocks the client has imported, each with the state it left |
| `task`, `block`, `cursor`, `finished` | the runtime call in progress: a block being built, or the loop of `execute_block` with `finished_with_opening_inherents` |
| `gossip` | a block built here that was not delivered yet |
| `ledger`, `block.trace` | history only: how often each output was created and consumed; the database after each extrinsic of a block built here |

`ValidateTuxedoTransaction` keeps the order of the early returns: duplicate inputs, verifiers, existing
outputs, missing inputs (valid for the pool, before the checker ran), checker. It also returns the
database, because a check may write storage whatever it answers. `ApplyTuxedoTransaction`,
`ApplyExtrinsic`, `OpenBlock`, `CloseBlock` and `FinishExecution` are the functions of the same names
(the last is the end of `execute_block`, which clears the header only). `verify` and `check` are
parameters, exactly as `V` and `C` are type parameters of the code; a redeemer that does not decode is
one that `Verify` refuses.

The node around the runtime is Substrate, modelled from how the code uses it. `StartAuthoring`,
`PushInherent`, `PushTransaction` and `FinalizeBlock` are a proposer on the longest chain: inherents
first, then any transaction that pool validation accepted at some imported block, an erroring extrinsic
rolled back. `ReceiveAuthored` and `ReceiveForeign` start `execute_block` on a block built here
(possibly late) or on any other block on any known parent. `ExecuteExtrinsic`, `PanicOnExtrinsic`,
`AcceptBlock` and `PanicOnRoots` are its loop and its assertions. A root is modelled by the thing it
commits to, so two roots are equal exactly when the storages or extrinsic lists are; a foreign block's
roots (`AnyRoot`) may turn out right or wrong. Every runtime call works on its own overlay of one
block's state, so one task at a time loses no interleaving.

### Runs

`executive` (`MCExecutive.cfg`): genesis holds a timestamp-like inherent `ts` and a coin `mint`. The
other transactions are a spend and an eviction of that coin, a claim that depends on the spend, on a peek
and on height 2, and a second inherent, `info`, that peeks at the first, whose check writes storage before
it refuses old news. `mint` can be repeated once its coin is gone. Bounds: `MaxBlocks = 3` blocks (genesis
and two more, as a chain or as a fork) and `MaxExtrinsics = 2`. That is enough for four extrinsics in a
row on one chain (spend, mint, spend again), for a claim that is too early in one block and right in
the next, and for a fork with conflicting spends. It checks

- `TypeOK`;
- `LedgerBalances`: an output is present exactly when it was created once more than consumed, on every
  branch and in every overlay;
- `AuthoredBlocksAccepted`: a block built here is never refused when executed, however late; among
  other things because `close_block` clears both transient keys before it takes the root;
- `ScrapeFindsAllInherents`: the `take_while` over a parent finds all of its inherents;
- `UtxosLeaveByRedemption`: while a block is built or executed, an output leaves only by eviction or
  with its verifier satisfied at the height of the block, and is never overwritten;
- `ImplementsLedger`: every step is a step of `Ledger` (below).

Deadlock is checked: a proposer may always start another block.

`executive_inputs` shows where the code differs from what is written about it: `InputsAreDistinct`
fails, because the duplicate check compares inputs with their redeemers. An output listed under two
different valid redeemers is executed; it is consumed once and its payload reaches the checker twice.

### The abstract ledger

`Ledger` says what the executive promises and leaves out how: branches of unspent outputs with a height,
a working copy forked off a branch one height up, transactions that apply as a whole when everything
they consume or read is there, everything they create is not, and every consumed output is unlocked at
that height. `ExecutiveRefinement` maps the imported blocks to branches and the overlay of the task to
the working copy. Opening a block (to build or to execute it) is `Fork`, an extrinsic that applies is
`Apply`, accepting a block is `Commit`; a finished own block and a dropped execution are `Forget`, since
an own block becomes a branch only when it is executed. Errors with their rollback, panics, transient
keys, roots and what checkers write are invisible to the ledger.

### Proofs

`ExecutiveProofs` proves all six properties of the run for every verifier, checker, universe of
transactions, genesis and bound. The assumptions are `ConstantsAssumption` (types of the constants, and
that a check leaves the checkers' storage in its type) and `GenesisAssumption` (the genesis builder
returned `Ok`).

- Lemmas about the operators: `UpdateStorageType`, `ApplyType`, `ApplyEffect` (a transaction that
  applies passed every check, and what it does to the UTXO set), `ApplyBalanced`, `ApplyRedeems`.
- `TypeCorrect` needs `Anchored`: the parent of any block at hand is in the tree, so that its state can
  be read.
- `LedgerCorrect`: `LedgerBalances` is inductive on top of the types. What a transaction consumes was
  present (no missing inputs) and what it creates was absent (no pre-existing output).
- `AuthoringCorrect` and `ScrapeCorrect` come from `WorkflowInv`. A block built
  here carries the trace of databases it went through; the invariant says that the trace starts at the
  opened state of the parent, that each extrinsic applies without error and leads to the next entry,
  that the roots are those of the extrinsics and the last entry (`Sealed`), and that an importer at
  `cursor` is at entry `cursor + 1`. Both transient keys are empty in every imported state, which is
  why the lists that author and importer hash are the same. The flag `finished` is the fact that a
  non-inherent was executed.
- `RedemptionCorrect` is an action property, proved step by step from `ApplyEffect`.

The refinement is `LedgerRefinement`, `Spec => ImplementsLedger`. It needs `HeightInv`: the stored height is
the number of the block and one above its parent's, for imported blocks, for the block at hand and for one
in transit. `ApplyImplements` turns `ApplyEffect` into the guard and the effect of `Apply`; the rest is one
case per action. `WorkingAssumption` says that the value for "no working copy" is not a working copy.

`WorkflowInv` and `HeightInv` were also model-checked. TLAPS does not do liveness or `ENABLED`; no liveness
is claimed of the executive.

## Modules Verifiers and Locks

`Verifiers` has one operator per `verify`, with the order of its early returns, and `OuterVerify`, the
dispatch the aggregation macro generates: the redeemer is unwrapped as the verifier's variant, and
another variant is a panic ("redeemer variant exists because the macro constructed that type"), an
outcome of its own. A signature is a pair of key and transaction and verifies for exactly these; a hash
is an injective function. `new_unspendable` has its result for every verifier that defines it.

`Locks` puts outputs under these verifiers on a chain. `Sign` and `Reveal` are key holders;
`ValidateTransaction` is the pool, at the height of the best block; `BlockWith` is the block that
includes a transaction of the pool, one height or many later; `EmptyBlock` lets time pass. The height
is stored before the transactions of a block are applied, as in `open_block`.

Run `locks` starts in any of seven genesis sets that together hold every kind of verifier, the hash
time lock with two competing transactions. It checks

- `SpentAsAuthorised`: the reference definition `Authorised` says who has to have signed or revealed
  what, at which height, for an output to leave; no transaction signed for something else will do. It is
  stated of outputs under every verifier but the multisignature, of which `locks_multi` shows it false;
- `PoolStaysValid`: what the pool accepted verifies in every later block while the output is there.
  Verifiers are monotone in the height, so a claim survives the opening of the refund path, and no
  redeemer panics in a block;
- `UnspendableStays`: unspendable verifiers and thresholds above the number of signatories never open.

Bounds: `MaxHeight = 3` around the heights 2 at which the locks open, two transactions in the pool, which
is what a conflict needs, and two signatures in a redeemer, the threshold. Deadlock is checked: a holder
may always sign (again).

Run `locks_multi` is a violation: `MultisigAuthorised`, the same of multisignatures, fails, because the
results of `sr25519_verify` are discarded and only the number of signatures supplied is compared with the
threshold.

`LocksProofs` proves the properties of run `locks` (`LocksTypes`, `SpendingAuthorised`, `PoolValid`,
`UnspendableCorrect`) for any outputs under any of the nine verifiers, any transactions, heights, pool size
and number of signatures. None of the properties is inductive alone; `LocksInv` adds `PoolRedeems`: what is
in the pool redeems an output that is still there, with what was signed and revealed. The argument is that
redeemers only get more (`RedeemersGrow`), that no verifier closes a path it opened (`VerifyStaysOpen`: a
height is only ever compared with a lower bound), and that an accepted redeemer is what the parties agreed to
(`AcceptedIsAuthorised`). `LockAssumption` gives the fields of a verifier their types and says that nobody
holds the key zero, on which `new_unspendable` rests.

## Modules Inherents, TimestampPiece and Timestamp

`Inherents` has the `InherentAdapter`, the hooks supplied to simple checkers, and the aggregation over
the leaves of a checker: what an author creates from the inherents of the parent (or that it panics,
when there is not exactly one of a kind), and what `check_inherents` accepts. `TimestampPiece` has the
two checks and the hooks of the piece. A transaction stands for its hash; it peeks at the one before,
so hashes are distinct.

`Timestamp` runs them on nodes with clocks of their own (`Skew`). `Author` is an Aura slot: inherents
from the parent and the local clock, an inherent that fails to apply dropped by the proposer (external:
`sc_basic_authorship` logs the error and goes on), then possibly a clean up. `Import` is the import
queue's `check_inherents` with the local clock followed by `execute_block`, at any later time.
`ImportForeign` is a block of unknown origin with any timestamps that the checks let pass.

`Author` happens at any time within a slot that is the node's turn, or not at all: nothing makes a proposer
finish at the beginning of its slot, so a block may be ahead of, level with, or too close to its parent.

Run `timestamp`, with two nodes whose clocks are one second apart, slots of three seconds and an interval
of two, as in the template runtime, checks

- `OneTimestampPerBlock`: a block without exactly one timestamp, which its author made because its own
  inherent was refused and dropped, stays with that author, because only the off-chain check of the others
  refuses it; and an author panics only if it has such a block. Both happen in the run;
- `TimeAdvances`: from parent to child, time advances by the minimum interval, also with foreign blocks;
- `ParentTimestampLive`: no clean up takes away the timestamp the next block has to peek at;
- `BlocksSpread` (liveness): again and again every node has every block, however late it came, that does not
  lack its timestamp or stand on one that does: the drift check has no lower bound, and what is ahead becomes
  importable as the local clock goes on.

Bounds: nine seconds and four blocks are three generations, so a clean up of an ancestor, a fork, a late
import, a dropped timestamp and the panic of the author who builds on it all happen; one foreign block.
Fairness: `WF` of `Tick` (time passes) and of each node's imports (gossip delivers); none of `Author`, which
may skip its slot. Deadlock is checked; `Stop` is the end of the bounded time.

`TimestampProofs` proves `TypeOK`, `TimeAdvances`, `ParentTimestampLive` and `OneTimestampPerBlock` for any
number of nodes, clock skews, slot length, interval, time and number of blocks, foreign blocks included. The
invariant `TimestampInv` says that a block is one higher than its parent and has at most one timestamp, which
carries the block's number and is live when the block ends; that every other live timestamp of this number
would be the block's own, so that the one a child peeks at is its parent's; and that the child's time is later
by the minimum interval. `UntimedStaysHome` adds `HomeInv`, which is `OneTimestampPerBlock` with "exactly one
timestamp" put as "a timestamp at the first place": `StampCount` says that this is the same, `PanicsOnUntimed`
that the hooks panic on a parent without one, and `HomeImport` that no import lets such a block in.

## Modules Typing, Money, Kitties, Amoeba, Poe, RuntimeUpgrade and TemplateRuntime

One operator per `check`, over sequences of typed payloads. Extraction as another type fails the check.
Coin values are integers up to `MaxValue`, which stands for `u128::MAX`, with checked additions. The DNA
of a kitty is the sequence that is hashed.

`TemplateRuntime` composes them: `OuterCheck` is the generated dispatch, `ApplyTransaction` is validation
and `update_storage` (with the `:code` write of the runtime upgrade), `Transact` offers any inputs,
evictions, peeks and a set of outputs around those a checker asks for, `NewBlock` moves the height.
Redeemers always verify here, so what holds does not depend on who may spend. `Distinct` compares whole
inputs, reference and redeemer, as the executive does: a transaction may list an output under two redeemers,
its data then reaches the checker twice, and `doubled` records that it did.

Run `pieces` starts on one of four chains: money and upgrades, kitties and amoebas, claims over three
heights, and a mixture of everything. It checks

- `SupplyGrowsByMint`: no transaction but a mint makes the sum of all coins larger, if it lists no output
  twice. A spend of one coin under two redeemers does make it larger (see `executive_inputs`); the other
  properties do not need the condition;
- `MassGrowsByCreation`: amoebas of generation g count as 2^-g; only creation adds to the sum;
- `FamilyTree`: DNA is unique, and the parents of every bred kitty are still there;
- `OldestClaimKept`: the oldest claim in effect stays so until it is revoked, whatever is claimed later
  and whichever disputes are made;
- `CodeIsReferenced`: the one reference to the runtime is to the code in storage;
- `PiecesKeepApart`: data of a type is created and removed only by checkers of its own piece.

Bounds: three to five transactions of up to two inputs, enough for a spend of what a spend made, for a
breeding of a bred kitty's relatives, for a claim, a rival claim and a dispute; two redeemers. `MaxValue =
3` makes sums overflow at once. A chain may run out of transactions, so deadlock is not checked.

`TemplateRuntimeProofs` proves all seven properties of the run for any genesis that has the shape the chain
specifications give it (`GenesisOK`), any bounds, and any subset of the checkers.

- `PiecesInv` is the invariant: types; every output decodes as what its type says; references belong to
  transactions that were applied; `FamilyTree`, `BredBefore` (the number of breedings that went into a
  child's DNA is not above its mother's number now, so a next child's DNA is a new one), `OneReference` (one
  output refers to the runtime, and to the code in storage) and the generations of amoebas.
- `OldestClaimStays` and `PiecesApart` are action properties. `ChecksOneType` says which payloads a checker
  accepts at all, and `ApplyExchanges` what `update_storage` takes away and puts in; a checker therefore leaves
  the outputs of other pieces as they are.
- `MoneyConserved` and `MassConserved` are about sums over the UTXO set. `SumsAdd`, `SumOfUnion` and
  `SumAlongSequence` relate the sum over a set, over what is exchanged in it, and along the sequence of
  coins that the loop with `checked_add` goes through; this is where the inputs have to be different
  outputs. For amoebas, `WorthDoubles` says that two daughters count as much as their mother.

## Module Parachain

`heads` is the relay chain, each block with the parachain head it has included; its number stands for
its storage root and for its time. `Collate` is a collator on the included head of the best relay
block: both inherents from the parent, failing ones dropped, `collect_collation_info` from the relay
parent number left in storage. `Validate` is `validate_block` (parent head, first parachain inherent,
execution) and the comparison of its result with the candidate. `Import` is another collator:
`check_inherents` and execution. `CollateOther` is a candidate from other software: up to two inherents
in any order. External: the Aura collator of cumulus gives the block the time of the relay slot, and
validators compare the validation result with the candidate's commitments.

A parachain inherent has an evicted input only, as `create_inherent` makes it. Its check writes the relay
parent number before its last two conditions; what a refused transaction wrote is gone with it, since the
proposer rolls it back and importers refuse the block as a whole.

Run `parachain` checks

- `TypeOK`, which says among other things that exactly one parachain info is live after every block,
  however many the block had, so that the next one has its input;
- `CollationsValidate`: what our collators author validates, whenever it is looked at, with the watermark
  they announced;
- `WatermarkIsRelayParent`: the watermark of a backed block with one parachain inherent is the relay
  parent's number, whoever authored it. With two inherents it is the last one's, while the validation
  data of the first is compared (`validate_block.rs:225`);
- `StoredNumberRises`: the relay parent number in storage rises with every included block;
- `IncludedReachesAll` (liveness): included blocks of ours reach every collator. It is not stated of other
  software: `validate_block` does not run `check_inherents` (`validate_block.rs:183`), so the relay chain
  can include a block that the collators refuse.

Bounds: four relay blocks and four parachain blocks give two generations, a candidate that is late, and
one of another collator. Fairness: `WF` of each collator's imports. Deadlock is checked; `Stop` is the
end of the bounded relay chain.

`ParachainProofs` proves `TypeOK`, `CollationsValidate`, `WatermarkIsRelayParent` and `StoredNumberRises`
for any number of collators and candidates of other software, any length of both chains and any age of
timestamps. `ParachainInv` has four parts:

- `ChainInv`: in the state of every block exactly one parachain info is live, and the number in storage is
  not above that info's number. So an info that executes stores a larger number (`Raises`), and with a single
  info in the block it is the number of that info.
- `RelayInv`: a block becomes head of a relay block that comes after the relay parent of its candidate. So
  the info that a collator makes for the best relay block is always newer than the one in the included head,
  it is valid, and the proposer does not drop it, even if it drops the timestamp.
- `CandidatesInv`: the announced watermark is the number in storage; every candidate of our collators has
  what `validate_block` looks for (`Validated`); what was backed has the relay parent's number in its first
  info.
- `CollatorsInv`: types of what collators know.

The invariant was model-checked on the instance first. The assumption is that there is a relay block.

## Modules HostStorage, ValidationStorage and RelayState

`HostStorage` is the abstract specification: a map, nested transactions that restore it, and answers.
`ValidationStorage` is what `validate_block` puts in its place: the nodes of a proof, a value cache keyed
by name alone, an overlay of changes per transaction level, and one action per replaced host function of
the main and of child storages. A key the proof lacks ends validation (`Panic`).

Run `storage` shows `ImplementsHost`, the refinement, under a mapping that merges overlay and parent
state, and `UnchangedReadsParents`: what the block has not changed reads as the parent's state, because
the root is calculated without the value cache. Five calls with transactions two deep are enough for
"start, write, root, roll back, read". Names of main and child storages are distinct in the instance: the
cache is shared by the tries of all storages (`trie_cache.rs:73`; the trie backend of Substrate passes
the child's root, which the provider ignores), so two storages that share a name would read each other's
values. Tuxedo's runtimes use no child storage.

`ValidationStorageProofs` proves both properties for any keys, parent states, proofs, depth of transactions
and number of calls: `UnchangedReadsCorrect` from `CacheIsParents` (the cache holds the parent's values), and
`HostImplemented`, the refinement, from `StorageInv`, which adds that the overlay is a stack of changes and
never empty. The levels of the stack merge into what the abstract storage holds, and the levels below into
what it saved: `PlaceMerged`, `StartMerged` and `CommitMerged` say what a write, the start and the commit of a
transaction do to the merged storage, and `HostStep` has one case per host function. The hypothesis
`NamesApart` is the distinctness above, and it is needed.

`RelayState` is about code that nothing in the repository calls: `relay_state_snapshot` is a private module
whose only use, in `validate_block.rs:190-209`, is commented out. The runs say that its readers are right,
not that a parachain uses them. It reads the relay chain's state from a proof of any block with up to two
missing keys, against the storage root of a relay parent, over a relay chain whose channels, queues, limits,
upgrade signals and encodings change. Run `relay_state` shows `SnapshotIsRelayParents` (what is read is what
that state says; an absent entry is absent there; the queue's remaining capacity saturates at zero) and
`FullProofIsRead` (a complete proof is read, unless the relay chain changed an encoding). Bounds: three
relay blocks, each one change away from its parent. A read is the end of a behaviour, so deadlock is not
checked.

## Module WalletSync

| Specification | Code |
|---|---|
| `Block`, `Parent`, `Txs`, `best`, `NodeHash` | the node's blocks, its best chain and `chain_getBlockHash` |
| `hashes`, `blocks`, `unspent`, `spent`, `timestamp` | the sled tables; the value of an output entry is fixed by its key, the `OutputRef`, so those tables are sets |
| `exists` | a database directory is on disk (`was_recovered`) |
| `pc`, `height`, `hash` | the place in `main` and `synchronize_helper`, its loop variable, the hash whose block is fetched next |
| `todo` | the writes that follow before the next call to the node |
| `Coins` | references of coins that pass the keystore filter |
| `nodeMoved`, `rolledBack` | history only: the node changed its best block during a synchronisation; a block was unapplied and no timestamp was written since |

`ApplyBlock` and `UnapplyBlock` list the writes of `apply_block` and `unapply_highest_block` in the order of
the code, and `Write` performs one of them: `spend_output` and `unspend_output` remove from one table and
then insert into the other, and a block that is missing from `blocks` ends the process with an error after
its hash was removed. `Compare` is one turn of the backward loop, `AskHash` and `FetchBlock` one turn of the
forward loop. `CallFails` is the error of any call to the node, `Crash` may come between any two writes
(sled recovers a prefix of them; nothing in the code groups writes), and `NodeMoves` is a switch of the best
chain to any other block, a shorter one included. The reference definitions `Owned` and `TimeAt` fold the
extrinsics of a chain.

Instance: branches g-a1-a2 and g-b1-b2-b3 that spend the genesis coin in different blocks, one of which
creates and spends change in the same block; one block has no timestamp. One failed call, two crashes and
three moves of the node: two crashes suffice for one during a rollback that follows one during an application,
and three moves go to the other branch, back and on.

Run `wallet`, in which the node moves between any two calls and the wallet is killed between any two
writes, checks

- `WalletHoldsChain`: as long as neither of these has happened, between calls the tables are exactly those
  of one chain, whichever call failed and however often the wallet rolled back;
- `SyncedToBest`: likewise, a synchronisation that returns is at the node's best block, and the stored
  timestamp is that of its chain unless blocks were unapplied and none with a timestamp applied since: a
  rollback does not restore it (`timestamp.rs:15`), so after a move to an ancestor it is an orphan's;
- `HeightIsBest`: `height()` counts entries, and that stays right through crashes and moves, so no
  `expect` of the loops fails;
- `AlwaysCatchesUp` (liveness): nothing leaves a database that can never be synchronised again. This
  depends on `unapply_highest_block` removing the hash before it looks for the block: the error for a
  corrupt block then heals itself at the next start.

Run `wallet_moves` is a violation of `OrphansDiscarded`: a node that changes branch during the forward
loop leaves an orphan below the wallet's best block, which is never discarded.

Fairness: `WF` of the steps of a run (a process runs on, and the user starts the wallet again) and `SF`
of `BeginSync` (the user does not pass `--no-sync` for ever). Failures, crashes and moves are bounded,
so after the last of them a synchronisation completes.

`WalletSyncProofs` proves `TypeOK` (`WalletTypes`) and `HeightIsBest` (`HeightCorrect`) for every tree of
blocks, every content of the blocks, and any number of failed calls, crashes and moves of the node. `SyncInv`
says that for some `k` the table of hashes has exactly the numbers below `k` (`Filled`), and for each place in
the program how the loop variable and the writes that are still to be made fit that `k` (`InStep`): of the
writes of a block only the first touches the table (`ApplyBlockOpens`, `UnapplyBlockOpens`), so a crash finds
it either before or after a block. `TreeAssumption` says that headers are numbered from the genesis block on.
`WalletHoldsChain` and `SyncedToBest` stay with TLC: they relate the tables, in the middle of a block, to a
fold over the transactions of a chain.

## Module WalletSpending

The commands of the wallet against a node that goes on: keys are inserted and removed, coins are minted,
and a spend is chosen (`ChooseInputs`: inputs named by the user, then `get_arbitrary_unspent_set` in any
order), signed (`Sign`: each input fetched from the node and signed by its owner) and submitted
(`Submit`). `Start` synchronises or not (`--no-sync`), `StartDev` works in a temporary directory.
`SpentElsewhere` is another wallet with the same keys; `Include` is a block.

Amounts are any list, the empty one and zeros included, and inputs are named in any order, also twice. The
sums the wallet takes itself are not checked: `Wrapped` is what a release build makes of them at the width of
a `u128`; a debug build ends with an error (`Fail`). `Verdict` is what `validate_tuxedo_transaction` answers
to the signed transaction, with signatures that are randomised, so that no two of them are equal.

Run `spending` checks

- `SpendsAreValid`: a spend that the node refuses is refused for its amounts: none, a zero, or sums of
  outputs or inputs that overflow. It is never refused for the choice of inputs, their signatures or their
  worth, although the help text leaves the last to the user ("The wallet will not enforce this",
  `cli.rs:148`) and the database may be behind. A coin that was named and chosen again by
  `get_arbitrary_unspent_set`, or named twice (`money.rs:139`), is signed twice and accepted: the two inputs
  differ in their signatures;
- `TracksSpendable`: the database knows no coin that was spent in what it has seen;
- `BalanceIsOwned`: caught up, the balance of a key is what it owns modulo the width of a `u128`, if the key
  was there all the time. Coins of a key inserted later stay unknown where they were synchronised over
  (`main.rs:77`).

Bounds: three runs of the wallet and two transactions beyond genesis, two coins of the user and one of a
stranger, outputs worth both of the user's coins and more than fits, up to two named inputs. That covers a
database that is behind in each of the ways above. The user may stop, so deadlock is not checked.

`WalletSpendingProofs` proves `TracksSpendable` and `BalanceIsOwned` for any keys, genesis coins, amounts,
number of runs and of transactions elsewhere. `SpendingInv` says that a transaction on the chain consumes what
an earlier one created, and that each database, the one of `--dev` included, has only outputs that are
spendable in the part of the chain it has seen, and all of those that belong to a key it always had (`Knows`).
`SpendsAreValid` stays with TLC: it compares sums over the coins chosen one by one with sums over lists.

## What is proved and what is model-checked

Proved by TLAPS for all values of the constants that satisfy the named assumptions of the modules:

| Module | Theorems | Invariant |
|---|---|---|
| `ExecutiveProofs` | `TypeCorrect`, `LedgerCorrect`, `AuthoringCorrect`, `ScrapeCorrect`, `RedemptionCorrect`, `LedgerRefinement` | `Anchored`, `LedgerBalances`, `WorkflowInv`, `HeightInv` |
| `LocksProofs` | `LocksTypes`, `SpendingAuthorised`, `PoolValid`, `UnspendableCorrect` | `LocksInv` |
| `TimestampProofs` | `TimestampTypes`, `TimeAlwaysAdvances`, `ParentAlwaysLive`, `UntimedStaysHome` | `TimestampInv`, `HomeInv` |
| `TemplateRuntimeProofs` | `PiecesTypes`, `FamilyTreeKept`, `CodeReferenced`, `PiecesApart`, `OldestClaimStays`, `MoneyConserved`, `MassConserved` | `PiecesInv` |
| `ParachainProofs` | `ParachainTypes`, `CollationsAlwaysValidate`, `WatermarkAlwaysRelayParent`, `StoredNumberAlwaysRises` | `ParachainInv` |
| `ValidationStorageProofs` | `UnchangedReadsCorrect`, `HostImplemented` | `StorageInv` |
| `WalletSyncProofs` | `WalletTypes`, `HeightCorrect` | `SyncInv` |
| `WalletSpendingProofs` | `AlwaysTracksSpendable`, `BalanceIsAlwaysOwned` | `SpendingInv` |

Bounds that the models put on behaviours (numbers of blocks, runs, crashes) are constants too, so these
theorems hold whatever they are.

Where a proof needs induction over numbers or finite sets, the induction is stated with a set in place of a
predicate (`NumbersByInduction`, `SetsByInduction`, from a least counterexample), and a recursive function
is first shown to exist with its equation (`SumsExist`, `LivesExist`, `PathsExist` and others like them).

Model-checked only, on the instances above:

- liveness, which is out of the prover's reach: `BlocksSpread`, `IncludedReachesAll`, `AlwaysCatchesUp`;
- `WalletHoldsChain`, `SyncedToBest` and `SpendsAreValid`, for the reasons given with their modules;
- `SnapshotIsRelayParents` and `FullProofIsRead`: a read is a single step, and the instance has each of the
  cases that the code tells apart;
- the three violations, which are counterexamples of an instance.

## What else the models showed

Behaviours met while modelling that the conditions of properties above leave out:

- A transaction without inputs has the same hash every time: once its output is spent, it is accepted
  again and creates the same `OutputRef` (`executive.rs:119`), which the wallet's README calls unique. The
  ledger stays balanced. A wallet that rolls back two spends of such a reference forgets it
  (`sync.rs:349`).
- A crash between the hash and the transactions of a block leaves the outputs of that block unknown to
  the wallet for good (`sync.rs:254`).
- A redeemer of another variant panics in the aggregated verifier (`aggregator/src/lib.rs:166`), during pool
  validation.
- An author behind its parent's time, or less than the minimum interval after it, drops its own timestamp
  (`timestamp/src/lib.rs:197`) and panics at its next slot if it builds on that block.
- A crash before the genesis block was applied leaves the outputs of that block unknown (`main.rs:84`).
- Nothing makes a kitty ready again after breeding: each breeds once (`kitties/src/lib.rs:395`).
- A command that fails leaves the temporary directory of `--dev` or `--tmp` behind (`main.rs:202`).

## Not modelled

- SCALE encoding, tries and hashing: a hash is the thing hashed, free of collisions; a proof is a set of
  keys.
- Networking, consensus and transaction pool of Substrate, beyond how the code uses them; weights and
  transaction priorities (always 0).
- The limits of `clear_prefix` and `storage_kill`; no code of Tuxedo calls them.
- The amoeba demonstration of the wallet, a fixed script with sleeps; command line and RPC plumbing;
  chain specifications and service wiring of the nodes.
- The derive macros of `no_bound` and the other compile-time helpers: they have no state.
