------------------------------ MODULE Executive ------------------------------
(***************************************************************************)
(* The Tuxedo executive (tuxedo-core/src/executive.rs) and the transparent *)
(* UTXO set (tuxedo-core/src/utxo_set.rs), generic in the verifier V and   *)
(* the constraint checker C exactly as Executive<V, C> is.                 *)
(*                                                                         *)
(* The first half is the runtime: what validate, apply, open_block,        *)
(* apply_extrinsic, close_block and execute_block compute from storage.    *)
(* The second half is a node that drives the runtime: it authors blocks    *)
(* with the block builder API, imports blocks with the Core API, and keeps *)
(* the storage of every imported block, so that branches can coexist.      *)
(*                                                                         *)
(* A transaction is named by its BlakeTwo256 hash; the hash covers the     *)
(* redeemers and is taken to be free of collisions.                        *)
(***************************************************************************)
EXTENDS Integers, Sequences

CONSTANTS
    Hash,               \* hashes of the transactions under consideration
    Body,               \* Body[h] is the transaction whose hash is h
    Index,              \* indices of outputs within a transaction
    Redeemer,           \* encoded redeemers
    EmptyRedeemer,      \* Default::default(), what stripping leaves behind
    Eviction,           \* RedemptionStrategy::Eviction
    Payload,            \* dynamically typed data
    VerifierSet,        \* values of the verifier type V
    CheckerSet,         \* values of the constraint checker type C
    Aux,                \* storage that constraint checkers write themselves
    Verify(_, _, _, _), \* V::verify(verifier, stripped tx, height, redeemer)
    Check(_, _, _, _),  \* C::check(checker, data, height, aux) is Ok
    CheckWrites(_, _, _), \* aux after the check of a transaction, by outcome
    IsInherent(_),      \* C::is_inherent(checker)
    GenesisTransactions,\* the list handed to the genesis config builder
    GenesisAux,         \* the checkers' storage in the genesis state
    None,               \* an absent storage value
    AnyRoot,            \* the state root claimed by a block of unknown origin
    MaxBlocks,          \* bound: blocks known to the node, genesis included
    MaxExtrinsics       \* bound: extrinsics in one block

OutputRef == [tx_hash : Hash, index : Index]
Input == [output_ref : OutputRef, redeemer : Redeemer \cup {Eviction}]
Output == [payload : Payload, verifier : VerifierSet]
Transaction == [inputs : Seq(Input), peeks : Seq(OutputRef),
                outputs : Seq(Output), checker : CheckerSet]

(***************************************************************************)
(* The runtime storage.  db is what outlives a block: the UTXO set, the    *)
(* height under HEIGHT_KEY, and whatever the checkers store.  header and   *)
(* extrinsics are the transient HEADER_KEY and EXTRINSIC_KEY; an absent    *)
(* EXTRINSIC_KEY reads as the empty list.                                  *)
(***************************************************************************)
Db == [utxos : [OutputRef -> Output \cup {None}], height : Nat, aux : Aux]
PreHeader == [parent : Nat, number : Nat]
Storage == [db : Db, header : PreHeader \cup {None}, extrinsics : Seq(Hash)]

ASSUME ConstantsAssumption ==
    /\ Body \in [Hash -> Transaction]
    /\ Index \subseteq Nat
    /\ \A h \in Hash : \A i \in 1 .. Len(Body[h].outputs) : i - 1 \in Index
    /\ EmptyRedeemer \in Redeemer
    /\ Eviction \notin Redeemer
    /\ None \notin Output
    /\ None \notin PreHeader
    /\ AnyRoot \notin Storage
    /\ \A h \in Hash, aux \in Aux, ok \in BOOLEAN : CheckWrites(h, aux, ok) \in Aux
    /\ GenesisTransactions \in Seq(Hash)
    /\ GenesisAux \in Aux
    /\ MaxBlocks \in Nat \ {0}
    /\ MaxExtrinsics \in Nat

\* The genesis config builder returned Ok; on any other list there is no chain.
ASSUME GenesisAssumption ==
    \A i \in 1 .. Len(GenesisTransactions) :
        LET h == GenesisTransactions[i]
        IN  /\ Body[h].inputs = <<>> /\ Body[h].peeks = <<>>
            /\ \A j \in 1 .. i : IsInherent(Body[h].checker)
                                  => IsInherent(Body[GenesisTransactions[j]].checker)

-----------------------------------------------------------------------------
(* The UTXO set.                                                           *)

PeekUtxo(db, ref) == db.utxos[ref]

RefsOf(inputs) == {inputs[i].output_ref : i \in DOMAIN inputs}

\* The references under which the outputs of h are stored.
OutputRefs(h) == {[tx_hash |-> h, index |-> i - 1] : i \in DOMAIN Body[h].outputs}

\* Every input is consumed, then every output is stored.
UpdateStorage(db, h) ==
    [db EXCEPT !.utxos = [ref \in OutputRef |->
        IF ref \in OutputRefs(h) THEN Body[h].outputs[ref.index + 1]
        ELSE IF ref \in RefsOf(Body[h].inputs) THEN None
        ELSE db.utxos[ref]]]

-----------------------------------------------------------------------------
(* Validation of one transaction against a storage.                        *)

\* The transaction as the verifiers see it: every redeemer reset.
Stripped(h) ==
    [Body[h] EXCEPT !.inputs =
        [i \in DOMAIN Body[h].inputs |->
            [output_ref |-> Body[h].inputs[i].output_ref, redeemer |-> EmptyRedeemer]]]

\* The duplicate check compares whole encoded inputs, redeemers included.
HasDuplicateInput(h) ==
    \E i, j \in DOMAIN Body[h].inputs : i # j /\ Body[h].inputs[i] = Body[h].inputs[j]

\* Mutant: verifiers are asked about the next height.
VerifierRejectsAtNextHeight(db, h) ==
    \E i \in DOMAIN Body[h].inputs :
        LET input == Body[h].inputs[i]
            utxo == PeekUtxo(db, input.output_ref)
        IN  /\ utxo # None
            /\ input.redeemer # Eviction
            /\ ~Verify(utxo.verifier, Stripped(h), db.height + 1, input.redeemer)

\* A redeemed input that is present fails its verifier, or its redeemer does
\* not decode.  Evicted inputs are not verified.
VerifierRejects(db, h) ==
    \E i \in DOMAIN Body[h].inputs :
        LET input == Body[h].inputs[i]
            utxo == PeekUtxo(db, input.output_ref)
        IN  /\ utxo # None
            /\ input.redeemer # Eviction
            /\ ~Verify(utxo.verifier, Stripped(h), db.height, input.redeemer)

PeekRefs(h) == {Body[h].peeks[i] : i \in DOMAIN Body[h].peeks}

MissingInputs(db, h) ==
    {ref \in RefsOf(Body[h].inputs) \cup PeekRefs(h) : PeekUtxo(db, ref) = None}

\* Mutant: pre-existing outputs go unnoticed.
NoPreExistingOutput(db, h) == FALSE

HasPreExistingOutput(db, h) == \E ref \in OutputRefs(h) : PeekUtxo(db, ref) # None

\* The payloads handed to the constraint checker, in the order of the
\* transaction's own lists.
PayloadsOf(db, inputs) == [i \in DOMAIN inputs |-> PeekUtxo(db, inputs[i].output_ref).payload]

CheckerData(db, h) ==
    [input   |-> PayloadsOf(db, SelectSeq(Body[h].inputs, LAMBDA i : i.redeemer # Eviction)),
     evicted |-> PayloadsOf(db, SelectSeq(Body[h].inputs, LAMBDA i : i.redeemer = Eviction)),
     peek    |-> [i \in DOMAIN Body[h].peeks |-> PeekUtxo(db, Body[h].peeks[i]).payload],
     output  |-> [i \in DOMAIN Body[h].outputs |-> Body[h].outputs[i].payload]]

CheckerAccepts(db, h) ==
    Check(Body[h].checker, CheckerData(db, h), db.height, db.aux)

\* A checker may write its own storage while it checks, whatever it answers.
AfterCheck(db, h) == [db EXCEPT !.aux = CheckWrites(h, db.aux, CheckerAccepts(db, h))]

Invalid(db, why) == [error |-> why, requires |-> {}, provides |-> {}, db |-> db]
Valid(db, requires, provides) ==
    [error |-> "none", requires |-> requires, provides |-> provides, db |-> db]

\* The early returns are in the order of the code: a transaction with missing
\* inputs is valid for the pool without having met its constraint checker.
ValidateTuxedoTransaction(db, h) ==
    IF HasDuplicateInput(h) THEN Invalid(db, "DuplicateInput")
    ELSE IF VerifierRejects(db, h) THEN Invalid(db, "VerifierError")
    ELSE IF HasPreExistingOutput(db, h) THEN Invalid(db, "PreExistingOutput")
    ELSE IF MissingInputs(db, h) # {} THEN Valid(db, MissingInputs(db, h), OutputRefs(h))
    ELSE IF ~CheckerAccepts(db, h) THEN Invalid(AfterCheck(db, h), "ConstraintCheckerError")
    ELSE Valid(AfterCheck(db, h), {}, OutputRefs(h))

\* Pool validation: inherents only ever come from a block author.
ValidateTransaction(db, h) ==
    IF IsInherent(Body[h].checker) THEN Invalid(db, "Call")
    ELSE ValidateTuxedoTransaction(db, h)

ApplyTuxedoTransaction(db, h) ==
    LET valid == ValidateTuxedoTransaction(db, h)
    IN  IF valid.error # "none" THEN [error |-> valid.error, db |-> valid.db]
        ELSE IF valid.requires # {} THEN [error |-> "MissingInput", db |-> valid.db]
        ELSE [error |-> "none", db |-> UpdateStorage(valid.db, h)]

-----------------------------------------------------------------------------
(* The block workflows.                                                    *)

\* Mutant: HEIGHT_KEY is left at the height of the parent.
OpenBlockAtParentHeight(st, header) ==
    [db |-> st.db, header |-> header, extrinsics |-> st.extrinsics]

\* open_block, and the opening of execute_block.
OpenBlock(st, header) ==
    [db |-> [st.db EXCEPT !.height = header.number],
     header |-> header, extrinsics |-> st.extrinsics]

\* apply_extrinsic notes the extrinsic before it knows whether it applies.
ApplyExtrinsic(st, h) ==
    LET applied == ApplyTuxedoTransaction(st.db, h)
    IN  [error |-> applied.error,
         storage |-> [db |-> applied.db, header |-> st.header,
                      extrinsics |-> Append(st.extrinsics, h)]]

\* Mutant: close_block forgets EXTRINSIC_KEY.
CloseBlockKeepingExtrinsics(st) == [db |-> st.db, header |-> None, extrinsics |-> st.extrinsics]

\* close_block clears both transient keys before it takes the state root.
CloseBlock(st) == [db |-> st.db, header |-> None, extrinsics |-> <<>>]

\* The end of execute_block clears the header only: it noted no extrinsics.
FinishExecution(st) == [db |-> st.db, header |-> None, extrinsics |-> st.extrinsics]

\* Mutant: build forgets HEIGHT_KEY.
GenesisWithoutHeight ==
    [db |-> [utxos |-> [ref \in OutputRef |-> None], height |-> None, aux |-> GenesisAux],
     header |-> None, extrinsics |-> <<>>]

\* build stores the outputs unchecked, overwriting; the genesis block builder
\* then moves the extrinsics out of storage into the block.
GenesisStorage ==
    [db |-> [utxos |-> [ref \in OutputRef |->
                 IF \E i \in DOMAIN GenesisTransactions : ref \in OutputRefs(GenesisTransactions[i])
                 THEN Body[ref.tx_hash].outputs[ref.index + 1] ELSE None],
             height |-> 0, aux |-> GenesisAux],
     header |-> None, extrinsics |-> <<>>]

-----------------------------------------------------------------------------
(***************************************************************************)
(* The node.  Substrate's client, block builder and import queue call the  *)
(* runtime; they are external, and modelled by how they use it:            *)
(*   - every call runs on its own overlay of one block's state, so one     *)
(*     task at a time loses no behaviour;                                  *)
(*   - the block builder opens a block, pushes inherents, then pool        *)
(*     transactions, rolling back an extrinsic that errors, and closes it; *)
(*   - the import queue executes blocks built here or anywhere else, in    *)
(*     any order and on any known parent; a panic refuses the block.       *)
(* trace (in a block built here) and ledger are history variables.         *)
(***************************************************************************)
VARIABLES
    tree,      \* the imported blocks with the storage each left behind
    task,      \* what the runtime is doing
    storage,   \* the overlay of the task
    block,     \* the block being built or executed
    cursor,    \* extrinsics of block executed so far
    finished,  \* finished_with_opening_inherents
    gossip,    \* a block built here and not yet delivered to the importer
    ledger     \* how often each output was created and consumed in storage

vars == <<tree, task, storage, block, cursor, finished, gossip, ledger>>

Ledger == [created : [OutputRef -> Nat], consumed : [OutputRef -> Nat]]
Block == [parent : Nat, number : Nat, extrinsics : Seq(Hash),
          extrinsics_root : Seq(Hash) \cup {AnyRoot},
          state_root : Storage \cup {AnyRoot}, trace : Seq(Db)]
Imported == [parent : Nat, number : Nat, extrinsics : Seq(Hash),
             storage : Storage, ledger : Ledger]

Authored(b) == b.state_root # AnyRoot

\* One transaction consumes each of its references once, however often it
\* lists it, and creates each of its outputs.
Record(l, h) ==
    [created  |-> [ref \in OutputRef |->
                      l.created[ref] + (IF ref \in OutputRefs(h) THEN 1 ELSE 0)],
     consumed |-> [ref \in OutputRef |->
                      l.consumed[ref] + (IF ref \in RefsOf(Body[h].inputs) THEN 1 ELSE 0)]]

GenesisLedger ==
    [created  |-> [ref \in OutputRef |-> IF GenesisStorage.db.utxos[ref] # None THEN 1 ELSE 0],
     consumed |-> [ref \in OutputRef |-> 0]]

Init ==
    /\ tree = <<[parent |-> 0, number |-> 0, extrinsics |-> GenesisTransactions,
                 storage |-> GenesisStorage, ledger |-> GenesisLedger]>>
    /\ task = "idle"
    /\ storage = GenesisStorage
    /\ block = None
    /\ cursor = 0
    /\ finished = FALSE
    /\ gossip = None
    /\ ledger = GenesisLedger

\* The overlay of the genesis state stands for "no overlay" between tasks.
Rest ==
    /\ task' = "idle"
    /\ storage' = GenesisStorage
    /\ block' = None
    /\ cursor' = 0
    /\ finished' = FALSE
    /\ ledger' = GenesisLedger

Child(p) == [parent |-> p, number |-> tree[p].number + 1]

\* The select chain of the node is the longest one.
Best(p) == \A n \in DOMAIN tree : tree[n].number <= tree[p].number

StartAuthoring(p) ==
    /\ task = "idle"
    /\ Best(p)
    /\ task' = "authoring"
    /\ storage' = OpenBlock(tree[p].storage, Child(p))
    /\ block' = [parent |-> p, number |-> tree[p].number + 1, extrinsics |-> <<>>,
                 extrinsics_root |-> AnyRoot, state_root |-> AnyRoot,
                 trace |-> <<storage'.db>>]
    /\ ledger' = tree[p].ledger
    /\ UNCHANGED <<tree, cursor, finished, gossip>>

\* BlockBuilder::push: an extrinsic that errors leaves no trace.
Push(h) ==
    LET applied == ApplyExtrinsic(storage, h)
    IN  /\ task = "authoring"
        /\ Len(block.extrinsics) < MaxExtrinsics
        /\ IF applied.error = "none"
           THEN /\ storage' = applied.storage
                /\ block' = [block EXCEPT !.extrinsics = Append(@, h),
                                          !.trace = Append(@, applied.storage.db)]
                /\ ledger' = Record(ledger, h)
           ELSE UNCHANGED <<storage, block, ledger>>
        /\ UNCHANGED <<tree, task, cursor, gossip>>

\* The proposer pushes the inherents before it turns to the pool.
PushInherent(h) ==
    /\ IsInherent(Body[h].checker)
    /\ ~finished
    /\ Push(h)
    /\ UNCHANGED finished

\* The pool holds what some imported block's state has validated.
PushTransaction(h) ==
    /\ \E n \in DOMAIN tree : ValidateTransaction(tree[n].storage.db, h).error = "none"
    /\ Push(h)
    /\ finished' = TRUE

FinalizeBlock ==
    /\ task = "authoring"
    /\ gossip' = [block EXCEPT !.extrinsics_root = storage.extrinsics,
                               !.state_root = CloseBlock(storage)]
    /\ Rest
    /\ UNCHANGED tree

Known(b) == \E n \in DOMAIN tree : tree[n].parent = b.parent /\ tree[n].extrinsics = b.extrinsics

\* execute_block, up to the loop over the extrinsics.
StartExecution(b) ==
    /\ task = "idle"
    /\ Len(tree) < MaxBlocks
    /\ ~Known(b)
    /\ task' = "importing"
    /\ storage' = OpenBlock(tree[b.parent].storage, [parent |-> b.parent, number |-> b.number])
    /\ block' = b
    /\ ledger' = tree[b.parent].ledger
    /\ UNCHANGED <<tree, cursor, finished>>

ReceiveAuthored ==
    /\ gossip # None
    /\ StartExecution(gossip)
    /\ gossip' = None

\* A block from elsewhere: any extrinsics, and roots that are right or wrong.
Foreign(p, extrinsics) ==
    [parent |-> p, number |-> tree[p].number + 1, extrinsics |-> extrinsics,
     extrinsics_root |-> AnyRoot, state_root |-> AnyRoot, trace |-> <<>>]

ReceiveForeign(p, extrinsics) ==
    /\ StartExecution(Foreign(p, extrinsics))
    /\ UNCHANGED gossip

Executing == task = "importing" /\ cursor < Len(block.extrinsics)
Current == block.extrinsics[cursor + 1]

\* Mutant: the place of an inherent is not enforced.
NeverMisplaced(h) == FALSE

\* Tried to execute opening inherent after switching to non-inherents.
Misplaced(h) == IsInherent(Body[h].checker) /\ finished

ExecuteExtrinsic ==
    LET applied == ApplyTuxedoTransaction(storage.db, Current)
    IN  /\ Executing
        /\ ~Misplaced(Current)
        /\ applied.error = "none"
        /\ finished' = (finished \/ ~IsInherent(Body[Current].checker))
        /\ storage' = [storage EXCEPT !.db = applied.db]
        /\ ledger' = Record(ledger, Current)
        /\ cursor' = cursor + 1
        /\ UNCHANGED <<tree, task, block, gossip>>

Panic ==
    /\ task' = "panicked"
    /\ UNCHANGED <<tree, storage, block, cursor, finished, gossip, ledger>>

PanicOnExtrinsic ==
    /\ Executing
    /\ \/ Misplaced(Current)
       \/ ApplyTuxedoTransaction(storage.db, Current).error # "none"
    /\ Panic

Executed == task = "importing" /\ cursor = Len(block.extrinsics)

AcceptBlock ==
    /\ Executed
    /\ block.state_root \in {AnyRoot, FinishExecution(storage)}
    /\ block.extrinsics_root \in {AnyRoot, block.extrinsics}
    /\ tree' = Append(tree, [parent |-> block.parent, number |-> block.number,
                             extrinsics |-> block.extrinsics,
                             storage |-> FinishExecution(storage), ledger |-> ledger])
    /\ Rest
    /\ UNCHANGED gossip

PanicOnRoots ==
    /\ Executed
    /\ \/ block.state_root # FinishExecution(storage)
       \/ block.extrinsics_root # block.extrinsics
    /\ Panic

\* The overlay of a refused block is dropped.
Discard ==
    /\ task = "panicked"
    /\ Rest
    /\ UNCHANGED <<tree, gossip>>

Extrinsics == UNION {[1 .. n -> Hash] : n \in 0 .. MaxExtrinsics}

Next ==
    \/ \E p \in DOMAIN tree : StartAuthoring(p)
    \/ \E h \in Hash : PushInherent(h)
    \/ \E h \in Hash : PushTransaction(h)
    \/ FinalizeBlock
    \/ ReceiveAuthored
    \/ \E p \in DOMAIN tree, extrinsics \in Extrinsics : ReceiveForeign(p, extrinsics)
    \/ ExecuteExtrinsic
    \/ PanicOnExtrinsic
    \/ AcceptBlock
    \/ PanicOnRoots
    \/ Discard

Spec == Init /\ [][Next]_vars

-----------------------------------------------------------------------------
(* Properties.                                                             *)

(* Storage, blocks and history have the types of the code; in particular   *)
(* HEIGHT_KEY always holds a height, as block_height expects.              *)
TypeOK ==
    /\ tree \in Seq(Imported)
    /\ task \in {"idle", "authoring", "importing", "panicked"}
    /\ storage \in Storage
    /\ block \in Block \cup {None}
    /\ cursor \in Nat
    /\ finished \in BOOLEAN
    /\ gossip \in Block \cup {None}
    /\ ledger \in Ledger

(* An output is in the UTXO set exactly when it was created once more than *)
(* it was consumed, and no output is ever consumed more often than it was  *)
(* created: on every branch, and in every overlay while a block is built   *)
(* or executed.  Missing inputs, pre-existing outputs and the order of     *)
(* update_storage are what this rests on.                                  *)
Balanced(st, l) ==
    \A ref \in OutputRef :
        l.created[ref] = l.consumed[ref] + (IF st.db.utxos[ref] # None THEN 1 ELSE 0)

LedgerBalances ==
    /\ Balanced(storage, ledger)
    /\ \A n \in DOMAIN tree : Balanced(tree[n].storage, tree[n].ledger)

(* A block this node built with open_block, apply_extrinsic and            *)
(* close_block is never refused by execute_block, however late it is       *)
(* executed and whatever was imported meanwhile: both workflows compute    *)
(* the same state root and the same extrinsics root.                       *)
AuthoredBlocksAccepted == task = "panicked" => ~Authored(block)

\* take_while in inherent_extrinsics and check_inherents.
OpeningInherents(extrinsics) ==
    {i \in DOMAIN extrinsics : \A j \in 1 .. i : IsInherent(Body[extrinsics[j]].checker)}

(* "The parent is already imported, so we know it is valid and we know its *)
(* inherents came first": scraping the leading inherents of an imported    *)
(* block finds every inherent of the block.                                *)
ScrapeFindsAllInherents ==
    \A n \in DOMAIN tree :
        OpeningInherents(tree[n].extrinsics)
          = {i \in DOMAIN tree[n].extrinsics : IsInherent(Body[tree[n].extrinsics[i]].checker)}

\* The transaction a step has applied to the overlay.
Applied == IF task = "authoring" THEN block'.extrinsics[Len(block'.extrinsics)] ELSE Current

Redeems(h, ref) ==
    \E i \in DOMAIN Body[h].inputs :
        /\ Body[h].inputs[i].output_ref = ref
        /\ \/ Body[h].inputs[i].redeemer = Eviction
           \/ Verify(storage.db.utxos[ref].verifier, Stripped(h), storage.db.height,
                     Body[h].inputs[i].redeemer)

Redemption ==
    (task \in {"authoring", "importing"} /\ task' = task) =>
        \A ref \in OutputRef :
            (storage.db.utxos[ref] # None /\ storage'.db.utxos[ref] # storage.db.utxos[ref])
               => storage'.db.utxos[ref] = None /\ Redeems(Applied, ref)

(* While a task runs, an output leaves the UTXO set only through a         *)
(* transaction that evicts it or satisfies its verifier at the height of   *)
(* the block, and an output in the set is never overwritten.               *)
UtxosLeaveByRedemption == [][Redemption]_vars

(* "Make sure there are no duplicate inputs" (executive.rs): no executed   *)
(* transaction lists an output twice among its inputs.  The check compares *)
(* inputs with their redeemers.                                            *)
InputsAreDistinct ==
    \A n \in DOMAIN tree : \A k \in DOMAIN tree[n].extrinsics :
        LET inputs == Body[tree[n].extrinsics[k]].inputs
        IN  \A i, j \in DOMAIN inputs : inputs[i].output_ref = inputs[j].output_ref => i = j

=============================================================================
