--------------------------- MODULE ExecutiveProofs ---------------------------
(***************************************************************************)
(* Proofs about Executive for every verifier, every constraint checker,    *)
(* every set of transactions and any number of blocks, and that it         *)
(* implements Ledger.                                                      *)
(***************************************************************************)
EXTENDS ExecutiveRefinement, TLAPS

-----------------------------------------------------------------------------
(* What the operators of the runtime return.                               *)

(* update_storage turns a database into a database.                        *)
LEMMA UpdateStorageType ==
    ASSUME NEW db \in Db, NEW h \in Hash
    PROVE  UpdateStorage(db, h) \in Db
<1> DEFINE new == [ref \in OutputRef |->
                      IF ref \in OutputRefs(h) THEN Body[h].outputs[ref.index + 1]
                      ELSE IF ref \in RefsOf(Body[h].inputs) THEN None
                      ELSE db.utxos[ref]]
<1>1. ASSUME NEW ref \in OutputRef
      PROVE  new[ref] \in Output \cup {None}
  <2>1. Body[h].outputs \in Seq(Output)
    BY ConstantsAssumption DEF Transaction
  <2>2. CASE ref \in OutputRefs(h)
    <3>1. PICK i \in DOMAIN Body[h].outputs : ref = [tx_hash |-> h, index |-> i - 1]
      BY <2>2 DEF OutputRefs
    <3>2. i \in 1 .. Len(Body[h].outputs) /\ ref.index + 1 = i
      BY <2>1, <3>1
    <3> QED BY <2>1, <2>2, <3>2
  <2>3. CASE ref \notin OutputRefs(h)
    <3>1. db.utxos[ref] \in Output \cup {None}
      BY DEF Db
    <3> QED BY <2>3, <3>1
  <2> QED BY <2>2, <2>3
<1>2. new \in [OutputRef -> Output \cup {None}]
  BY <1>1
<1>3. UpdateStorage(db, h) = [db EXCEPT !.utxos = new]
  BY DEF UpdateStorage
<1> HIDE DEF new
<1> QED BY <1>2, <1>3 DEF Db

(* A check writes only the storage of the checkers.                        *)
LEMMA AfterCheckType ==
    ASSUME NEW db \in Db, NEW h \in Hash
    PROVE  /\ AfterCheck(db, h) \in Db
           /\ AfterCheck(db, h).utxos = db.utxos
           /\ AfterCheck(db, h).height = db.height
<1> DEFINE ok == CheckerAccepts(db, h)
<1>1. db.aux \in Aux
  BY DEF Db
<1>2. CheckWrites(h, db.aux, ok) \in Aux
  <2>1. CASE ok
    <3>1. ok = TRUE
      BY <2>1
    <3> QED BY Zenon, <1>1, <3>1, ConstantsAssumption
  <2>2. CASE ~ok
    <3>1. ok = FALSE
      BY <2>2
    <3> QED BY Zenon, <1>1, <3>1, ConstantsAssumption
  <2> QED BY <2>1, <2>2
<1> QED BY <1>2 DEF AfterCheck, Db

(* Validation leaves the UTXO set and the height alone.                    *)
LEMMA ValidateType ==
    ASSUME NEW db \in Db, NEW h \in Hash
    PROVE  /\ ValidateTuxedoTransaction(db, h).db \in Db
           /\ ValidateTuxedoTransaction(db, h).db.utxos = db.utxos
           /\ ValidateTuxedoTransaction(db, h).db.height = db.height
BY AfterCheckType DEF ValidateTuxedoTransaction, Invalid, Valid

(* Whatever becomes of a transaction, the result is a database.            *)
LEMMA ApplyType ==
    ASSUME NEW db \in Db, NEW h \in Hash
    PROVE  ApplyTuxedoTransaction(db, h).db \in Db
BY ValidateType, UpdateStorageType DEF ApplyTuxedoTransaction

(* What a transaction that applies has gone through, and what it does to   *)
(* the UTXO set.                                                           *)
LEMMA ApplyEffect ==
    ASSUME NEW db \in Db, NEW h \in Hash,
           ApplyTuxedoTransaction(db, h).error = "none"
    PROVE  /\ ~VerifierRejects(db, h)
           /\ ~HasPreExistingOutput(db, h)
           /\ MissingInputs(db, h) = {}
           /\ \A ref \in OutputRef :
                 ApplyTuxedoTransaction(db, h).db.utxos[ref]
                   = IF ref \in OutputRefs(h) THEN Body[h].outputs[ref.index + 1]
                     ELSE IF ref \in RefsOf(Body[h].inputs) THEN None
                     ELSE db.utxos[ref]
<1> DEFINE valid == ValidateTuxedoTransaction(db, h)
<1>1. valid.error = "none" /\ valid.requires = {}
  BY DEF ApplyTuxedoTransaction
<1>2. /\ ~VerifierRejects(db, h)
      /\ ~HasPreExistingOutput(db, h)
      /\ MissingInputs(db, h) = {}
  BY <1>1 DEF ValidateTuxedoTransaction, Invalid, Valid
<1>3. valid.db \in Db /\ valid.db.utxos = db.utxos
  BY ValidateType
<1>4. ApplyTuxedoTransaction(db, h).db = UpdateStorage(valid.db, h)
  BY <1>1 DEF ApplyTuxedoTransaction
<1> HIDE DEF valid
<1>5. UpdateStorage(valid.db, h).utxos
        = [ref \in OutputRef |->
             IF ref \in OutputRefs(h) THEN Body[h].outputs[ref.index + 1]
             ELSE IF ref \in RefsOf(Body[h].inputs) THEN None
             ELSE valid.db.utxos[ref]]
  BY <1>3 DEF UpdateStorage, Db
<1> QED BY <1>2, <1>3, <1>4, <1>5

(* A stored output is not the absent value.                                *)
LEMMA OutputStored ==
    ASSUME NEW h \in Hash, NEW ref \in OutputRefs(h)
    PROVE  Body[h].outputs[ref.index + 1] # None
<1>1. Body[h].outputs \in Seq(Output)
  BY ConstantsAssumption DEF Transaction
<1>2. PICK i \in DOMAIN Body[h].outputs : ref = [tx_hash |-> h, index |-> i - 1]
  BY DEF OutputRefs
<1>3. i \in 1 .. Len(Body[h].outputs) /\ ref.index + 1 = i
  BY <1>1, <1>2
<1> QED BY <1>1, <1>3, ConstantsAssumption

(* Applying a transaction keeps the ledger balanced: what it consumes was  *)
(* there, and what it creates was not.                                     *)
LEMMA ApplyBalanced ==
    ASSUME NEW st \in Storage, NEW l \in Ledger, NEW h \in Hash, NEW new \in Storage,
           ApplyTuxedoTransaction(st.db, h).error = "none",
           new.db = ApplyTuxedoTransaction(st.db, h).db,
           Balanced(st, l)
    PROVE  Balanced(new, Record(l, h))
<1>1. st.db \in Db
  BY DEF Storage
<1> SUFFICES ASSUME NEW ref \in OutputRef
             PROVE  Record(l, h).created[ref]
                      = Record(l, h).consumed[ref] + (IF new.db.utxos[ref] # None THEN 1 ELSE 0)
  BY DEF Balanced
<1>2. /\ l.created[ref] \in Nat /\ l.consumed[ref] \in Nat
      /\ l.created[ref] = l.consumed[ref] + (IF st.db.utxos[ref] # None THEN 1 ELSE 0)
  BY DEF Ledger, Balanced
<1>3. /\ Record(l, h).created[ref]
           = l.created[ref] + (IF ref \in OutputRefs(h) THEN 1 ELSE 0)
      /\ Record(l, h).consumed[ref]
           = l.consumed[ref] + (IF ref \in RefsOf(Body[h].inputs) THEN 1 ELSE 0)
  BY DEF Record
<1>4. ref \in OutputRefs(h) => st.db.utxos[ref] = None
  BY <1>1, ApplyEffect DEF HasPreExistingOutput, PeekUtxo
<1>5. ref \in RefsOf(Body[h].inputs) => st.db.utxos[ref] # None
  BY <1>1, ApplyEffect DEF MissingInputs, PeekUtxo
<1>6. new.db.utxos[ref] = IF ref \in OutputRefs(h) THEN Body[h].outputs[ref.index + 1]
                          ELSE IF ref \in RefsOf(Body[h].inputs) THEN None
                          ELSE st.db.utxos[ref]
  BY <1>1, ApplyEffect
<1>7. ref \in OutputRefs(h) => new.db.utxos[ref] # None
  BY <1>6, OutputStored
<1> QED BY <1>2, <1>3, <1>4, <1>5, <1>6, <1>7

(* The history of a ledger is a ledger.                                    *)
LEMMA RecordType ==
    ASSUME NEW l \in Ledger, NEW h \in Hash
    PROVE  Record(l, h) \in Ledger
BY DEF Record, Ledger

(* The operators of the block workflows keep storage well typed.           *)
LEMMA OpenBlockType ==
    ASSUME NEW st \in Storage, NEW header \in PreHeader
    PROVE  /\ OpenBlock(st, header) \in Storage
           /\ OpenBlock(st, header)
                = [db |-> [utxos |-> st.db.utxos, height |-> header.number, aux |-> st.db.aux],
                   header |-> header, extrinsics |-> st.extrinsics]
<1>1. header.number \in Nat /\ st.db \in Db
  BY DEF PreHeader, Storage
<1>2. [st.db EXCEPT !.height = header.number]
        = [utxos |-> st.db.utxos, height |-> header.number, aux |-> st.db.aux]
  BY <1>1 DEF Db
<1>3. [utxos |-> st.db.utxos, height |-> header.number, aux |-> st.db.aux] \in Db
  BY <1>1 DEF Db
<1> QED BY <1>2, <1>3 DEF OpenBlock, Storage

LEMMA ApplyExtrinsicType ==
    ASSUME NEW st \in Storage, NEW h \in Hash
    PROVE  /\ ApplyExtrinsic(st, h).storage \in Storage
           /\ ApplyExtrinsic(st, h).error = ApplyTuxedoTransaction(st.db, h).error
           /\ ApplyExtrinsic(st, h).storage
                = [db |-> ApplyTuxedoTransaction(st.db, h).db, header |-> st.header,
                   extrinsics |-> Append(st.extrinsics, h)]
<1>1. st.db \in Db /\ st.extrinsics \in Seq(Hash)
  BY DEF Storage
<1>2. ApplyTuxedoTransaction(st.db, h).db \in Db
  BY <1>1, ApplyType
<1>3. Append(st.extrinsics, h) \in Seq(Hash)
  BY <1>1
<1> QED BY <1>2, <1>3 DEF ApplyExtrinsic, Storage

LEMMA CloseBlockType ==
    ASSUME NEW st \in Storage
    PROVE  /\ CloseBlock(st) \in Storage
           /\ CloseBlock(st) = [db |-> st.db, header |-> None, extrinsics |-> <<>>]
           /\ FinishExecution(st) \in Storage
           /\ FinishExecution(st) = [db |-> st.db, header |-> None, extrinsics |-> st.extrinsics]
BY DEF CloseBlock, FinishExecution, Storage

LEMMA GenesisType ==
    /\ GenesisStorage \in Storage
    /\ GenesisLedger \in Ledger
    /\ Balanced(GenesisStorage, GenesisLedger)
<1> DEFINE utxos == [ref \in OutputRef |->
               IF \E i \in DOMAIN GenesisTransactions : ref \in OutputRefs(GenesisTransactions[i])
               THEN Body[ref.tx_hash].outputs[ref.index + 1] ELSE None]
<1>1. ASSUME NEW ref \in OutputRef
      PROVE  utxos[ref] \in Output \cup {None}
  <2>1. CASE \E i \in DOMAIN GenesisTransactions : ref \in OutputRefs(GenesisTransactions[i])
    <3>1. PICK i \in DOMAIN GenesisTransactions : ref \in OutputRefs(GenesisTransactions[i])
      BY <2>1
    <3>2. PICK h \in Hash : ref \in OutputRefs(h)
      BY <3>1, ConstantsAssumption
    <3>3. PICK k \in DOMAIN Body[h].outputs : ref = [tx_hash |-> h, index |-> k - 1]
      BY <3>2 DEF OutputRefs
    <3>4. Body[h].outputs \in Seq(Output)
      BY ConstantsAssumption DEF Transaction
    <3>5. k \in 1 .. Len(Body[h].outputs) /\ ref.index + 1 = k /\ ref.tx_hash = h
      BY <3>3, <3>4
    <3> QED BY <2>1, <3>4, <3>5
  <2> QED BY <2>1
<1>2. utxos \in [OutputRef -> Output \cup {None}]
  BY <1>1
<1>3. GenesisStorage = [db |-> [utxos |-> utxos, height |-> 0, aux |-> GenesisAux],
                        header |-> None, extrinsics |-> <<>>]
  BY DEF GenesisStorage
<1> HIDE DEF utxos
<1>4. GenesisStorage \in Storage
  BY <1>2, <1>3, ConstantsAssumption DEF Storage, Db
<1>5. GenesisLedger \in Ledger
  BY DEF GenesisLedger, Ledger
<1>6. Balanced(GenesisStorage, GenesisLedger)
  BY DEF Balanced, GenesisLedger
<1> QED BY <1>4, <1>5, <1>6

-----------------------------------------------------------------------------
(* Type correctness.                                                       *)

\* Every block at hand has a parent in the tree.
Anchored ==
    /\ task # "idle" => block \in Block /\ block.parent \in DOMAIN tree
    /\ gossip # None => gossip.parent \in DOMAIN tree

TypeInv == TypeOK /\ Anchored

LEMMA TreeType ==
    ASSUME TypeInv, NEW p \in DOMAIN tree
    PROVE  /\ p \in Nat /\ tree[p].number \in Nat
           /\ tree[p].storage \in Storage /\ tree[p].ledger \in Ledger
<1>1. tree \in Seq(Imported)
  BY DEF TypeInv, TypeOK
<1>2. tree[p] \in Imported /\ p \in Nat
  BY <1>1
<1> QED BY <1>2 DEF Imported

LEMMA ForeignType ==
    ASSUME TypeInv, NEW p \in DOMAIN tree, NEW extrinsics \in Extrinsics
    PROVE  Foreign(p, extrinsics) \in Block /\ Foreign(p, extrinsics).parent = p
<1>1. extrinsics \in Seq(Hash)
  BY ConstantsAssumption DEF Extrinsics
<1> QED BY <1>1, TreeType DEF Foreign, Block

\* The extrinsic at the cursor of a block being executed.
LEMMA CurrentType ==
    ASSUME TypeInv, Executing
    PROVE  /\ block \in Block /\ block.parent \in DOMAIN tree /\ cursor \in Nat
           /\ storage \in Storage /\ storage.db \in Db /\ ledger \in Ledger
           /\ cursor + 1 \in 1 .. Len(block.extrinsics)
           /\ Current \in Hash
<1>1. /\ block \in Block /\ block.parent \in DOMAIN tree /\ cursor \in Nat
      /\ storage \in Storage /\ ledger \in Ledger /\ cursor < Len(block.extrinsics)
  BY DEF Executing, TypeInv, TypeOK, Anchored
<1>2. block.extrinsics \in Seq(Hash) /\ storage.db \in Db
  BY <1>1 DEF Block, Storage
<1>3. cursor + 1 \in 1 .. Len(block.extrinsics)
  BY <1>1, <1>2
<1> QED BY <1>1, <1>2, <1>3 DEF Current

LEMMA RestType ==
    ASSUME Rest
    PROVE  /\ task' \in {"idle", "authoring", "importing", "panicked"}
           /\ storage' \in Storage /\ block' \in Block \cup {None} /\ cursor' \in Nat
           /\ finished' \in BOOLEAN /\ ledger' \in Ledger
           /\ task' = "idle" /\ block' = None
BY Zenon, GenesisType DEF Rest

LEMMA TypeInit == Init => TypeInv
<1> SUFFICES ASSUME Init PROVE TypeInv
  OBVIOUS
<1>1. [parent |-> 0, number |-> 0, extrinsics |-> GenesisTransactions,
       storage |-> GenesisStorage, ledger |-> GenesisLedger] \in Imported
  BY GenesisType, ConstantsAssumption DEF Imported
<1>2. tree \in Seq(Imported)
  BY <1>1 DEF Init
<1> QED BY Zenon, <1>2, GenesisType DEF Init, TypeInv, TypeOK, Anchored

LEMMA TypeStep == TypeInv /\ [Next]_vars => TypeInv'
<1> SUFFICES ASSUME TypeInv, [Next]_vars PROVE TypeInv'
  OBVIOUS
<1> USE DEF TypeInv
<1>1. ASSUME NEW p \in DOMAIN tree, StartAuthoring(p) PROVE TypeInv'
  <2>1. Child(p) \in PreHeader
    BY SMTT(30), TreeType DEF Child, PreHeader
  <2>2. storage' \in Storage
    BY TreeType, <1>1, <2>1, OpenBlockType DEF StartAuthoring
  <2>3. storage'.db \in Db
    BY <2>2 DEF Storage
  <2>4. <<storage'.db>> \in Seq(Db)
    BY SMTT(30), <2>3
  <2>5. block' \in Block /\ block'.parent = p
    <3>1. p \in Nat /\ tree[p].number + 1 \in Nat /\ <<>> \in Seq(Hash)
      BY TreeType
    <3>2. block' = [parent |-> p, number |-> tree[p].number + 1, extrinsics |-> <<>>,
                    extrinsics_root |-> AnyRoot, state_root |-> AnyRoot,
                    trace |-> <<storage'.db>>]
      BY <1>1 DEF StartAuthoring
    <3> QED BY <2>4, <3>1, <3>2 DEF Block
  <2> QED BY TreeType, <1>1, <2>2, <2>5 DEF StartAuthoring, TypeOK, Anchored
<1>2. ASSUME NEW h \in Hash, Push(h), finished' \in BOOLEAN PROVE TypeInv'
  <2> DEFINE applied == ApplyExtrinsic(storage, h)
  <2>1. block \in Block /\ block.parent \in DOMAIN tree /\ storage \in Storage /\ ledger \in Ledger
    BY <1>2 DEF Push, TypeOK, Anchored
  <2>2. applied.storage \in Storage /\ Record(ledger, h) \in Ledger
    BY Zenon, <2>1, ApplyExtrinsicType, RecordType
  <2>3. storage' \in Storage /\ ledger' \in Ledger
    BY <1>2, <2>1, <2>2 DEF Push
  <2>4. block' \in Block /\ block'.parent = block.parent
    <3>1. /\ Append(block.extrinsics, h) \in Seq(Hash)
          /\ Append(block.trace, applied.storage.db) \in Seq(Db)
      BY <2>1, <2>2 DEF Block, Storage
    <3> QED BY Zenon, <1>2, <2>1, <3>1 DEF Push, Block
  <2> QED BY <1>2, <2>1, <2>3, <2>4 DEF Push, TypeOK, Anchored
<1>3. CASE FinalizeBlock
  <2>1. block \in Block /\ block.parent \in DOMAIN tree /\ storage \in Storage
    BY <1>3 DEF FinalizeBlock, TypeOK, Anchored
  <2>2. storage.extrinsics \in Seq(Hash) /\ CloseBlock(storage) \in Storage
    BY <2>1, CloseBlockType DEF Storage
  <2>3. gossip' \in Block /\ gossip'.parent = block.parent
    BY Zenon, <1>3, <2>1, <2>2 DEF FinalizeBlock, Block
  <2> QED BY <1>3, <2>1, <2>3, RestType DEF FinalizeBlock, TypeOK, Anchored
<1>4. ASSUME NEW b \in Block, b.parent \in DOMAIN tree, StartExecution(b), gossip' \in {gossip, None}
      PROVE  TypeInv'
  <2>1. [parent |-> b.parent, number |-> b.number] \in PreHeader
    BY DEF Block, PreHeader
  <2>2. storage' \in Storage /\ ledger' \in Ledger
    BY TreeType, <1>4, <2>1, OpenBlockType DEF StartExecution
  <2> QED BY <1>4, <2>2 DEF StartExecution, TypeOK, Anchored
<1>5. CASE ReceiveAuthored
  BY <1>4, <1>5 DEF ReceiveAuthored, TypeOK, Anchored
<1>6. ASSUME NEW p \in DOMAIN tree, NEW extrinsics \in Extrinsics, ReceiveForeign(p, extrinsics)
      PROVE  TypeInv'
  BY <1>4, <1>6, ForeignType DEF ReceiveForeign
<1>7. CASE ExecuteExtrinsic
  <2>1. Executing
    BY <1>7 DEF ExecuteExtrinsic
  <2>2. task = "importing"
    BY <2>1 DEF Executing
  <2>3. ApplyTuxedoTransaction(storage.db, Current).db \in Db /\ Record(ledger, Current) \in Ledger
    BY <2>1, CurrentType, ApplyType, RecordType
  <2>4. storage' \in Storage /\ ledger' \in Ledger
    BY <1>7, <2>1, <2>3, CurrentType DEF ExecuteExtrinsic, Storage
  <2> QED BY <1>7, <2>1, <2>2, <2>4, CurrentType DEF ExecuteExtrinsic, TypeOK, Anchored
<1>8. CASE Panic /\ task = "importing"
  BY <1>8 DEF Panic, TypeOK, Anchored
<1>9. CASE AcceptBlock
  <2> DEFINE node == [parent |-> block.parent, number |-> block.number,
                      extrinsics |-> block.extrinsics,
                      storage |-> FinishExecution(storage), ledger |-> ledger]
  <2>1. block \in Block /\ storage \in Storage /\ ledger \in Ledger /\ tree \in Seq(Imported)
    BY <1>9 DEF AcceptBlock, Executed, TypeOK, Anchored
  <2>2. node \in Imported
    BY <2>1, CloseBlockType DEF Block, Imported
  <2>3. tree' = Append(tree, node) /\ Rest /\ gossip' = gossip
    BY <1>9 DEF AcceptBlock
  <2> HIDE DEF node
  <2>4. tree' \in Seq(Imported) /\ DOMAIN tree \subseteq DOMAIN tree'
    BY <2>1, <2>2, <2>3
  <2> QED BY <2>3, <2>4, RestType DEF TypeOK, Anchored
<1>10. CASE Discard
  BY <1>10, RestType DEF Discard, TypeOK, Anchored
<1>11. CASE UNCHANGED vars
  BY <1>11 DEF vars, TypeOK, Anchored
<1>12. ASSUME NEW h \in Hash, PushInherent(h) PROVE TypeInv'
  BY <1>2, <1>12 DEF PushInherent, TypeOK
<1>13. ASSUME NEW h \in Hash, PushTransaction(h) PROVE TypeInv'
  BY <1>2, <1>13 DEF PushTransaction
<1> QED BY <1>1, <1>3, <1>5, <1>6, <1>7, <1>8, <1>9, <1>10, <1>11, <1>12, <1>13
        DEF Next, PanicOnExtrinsic, PanicOnRoots, Executing, Executed

(* Storage, blocks and history always have their types: in particular a    *)
(* height is stored at every moment validate_tuxedo_transaction may run.   *)
THEOREM TypeCorrect == Spec => []TypeOK
<1>1. TypeInv => TypeOK
  BY DEF TypeInv
<1> QED BY <1>1, TypeInit, TypeStep, PTL DEF Spec

-----------------------------------------------------------------------------
(* The ledger balances.                                                    *)

LEMMA BalanceInit == Init => LedgerBalances
BY SMTT(30), GenesisType DEF Init, LedgerBalances

LEMMA BalanceStep == TypeInv /\ LedgerBalances /\ [Next]_vars => LedgerBalances'
<1> SUFFICES ASSUME TypeInv, LedgerBalances, [Next]_vars PROVE LedgerBalances'
  OBVIOUS
<1>1. ASSUME NEW p \in DOMAIN tree, NEW header \in PreHeader,
             storage' = OpenBlock(tree[p].storage, header), ledger' = tree[p].ledger, tree' = tree
      PROVE  LedgerBalances'
  <2>1. storage'.db.utxos = tree[p].storage.db.utxos
    BY SMTT(30), TreeType, <1>1, OpenBlockType
  <2> QED BY <1>1, <2>1 DEF LedgerBalances, Balanced
<1>2. ASSUME NEW p \in DOMAIN tree, StartAuthoring(p) PROVE LedgerBalances'
  <2>1. Child(p) \in PreHeader
    BY TreeType DEF Child, PreHeader
  <2> QED BY <1>1, <1>2, <2>1 DEF StartAuthoring
<1>3. ASSUME NEW b \in Block, b.parent \in DOMAIN tree, StartExecution(b) PROVE LedgerBalances'
  <2>1. [parent |-> b.parent, number |-> b.number] \in PreHeader
    BY DEF Block, PreHeader
  <2> QED BY <1>1, <1>3, <2>1 DEF StartExecution
<1>4. CASE ReceiveAuthored
  BY <1>3, <1>4 DEF ReceiveAuthored, TypeInv, TypeOK, Anchored
<1>5. ASSUME NEW p \in DOMAIN tree, NEW extrinsics \in Extrinsics, ReceiveForeign(p, extrinsics)
      PROVE  LedgerBalances'
  BY <1>3, <1>5, ForeignType DEF ReceiveForeign
<1>6. ASSUME NEW h \in Hash, Push(h) PROVE LedgerBalances'
  <2>1. storage \in Storage /\ ledger \in Ledger
    BY DEF TypeInv, TypeOK
  <2>2. CASE ApplyExtrinsic(storage, h).error = "none"
    <3>1. storage' = ApplyExtrinsic(storage, h).storage /\ ledger' = Record(ledger, h) /\ tree' = tree
      BY <1>6, <2>2 DEF Push
    <3>2. /\ storage' \in Storage
          /\ storage'.db = ApplyTuxedoTransaction(storage.db, h).db
          /\ ApplyTuxedoTransaction(storage.db, h).error = "none"
      BY <2>1, <2>2, <3>1, ApplyExtrinsicType DEF ApplyExtrinsic
    <3>3. Balanced(storage', ledger')
      BY <2>1, <3>1, <3>2, ApplyBalanced DEF LedgerBalances
    <3> QED BY <3>1, <3>3 DEF LedgerBalances
  <2>3. CASE ApplyExtrinsic(storage, h).error # "none"
    BY <1>6, <2>3 DEF Push, LedgerBalances
  <2> QED BY <2>2, <2>3
<1>7. CASE ExecuteExtrinsic
  <2>1. /\ storage \in Storage /\ storage.db \in Db /\ ledger \in Ledger
        /\ Current \in Hash
    BY <1>7, CurrentType DEF ExecuteExtrinsic
  <2>3. /\ ApplyTuxedoTransaction(storage.db, Current).error = "none"
        /\ storage' = [storage EXCEPT !.db = ApplyTuxedoTransaction(storage.db, Current).db]
        /\ ledger' = Record(ledger, Current) /\ tree' = tree
    BY <1>7 DEF ExecuteExtrinsic
  <2>4. /\ storage' \in Storage
        /\ storage'.db = ApplyTuxedoTransaction(storage.db, Current).db
    BY <2>1, <2>3, ApplyType DEF Storage
  <2>5. Balanced(storage', ledger')
    BY Zenon, <2>1, <2>3, <2>4, ApplyBalanced DEF LedgerBalances
  <2> QED BY <2>3, <2>5 DEF LedgerBalances
<1>8. CASE AcceptBlock
  <2> DEFINE node == [parent |-> block.parent, number |-> block.number,
                      extrinsics |-> block.extrinsics,
                      storage |-> FinishExecution(storage), ledger |-> ledger]
  <2>1. storage \in Storage /\ tree \in Seq(Imported)
    BY DEF TypeInv, TypeOK
  <2>2. node.storage.db = storage.db /\ node.ledger = ledger
    BY DEF FinishExecution
  <2>3. tree' = Append(tree, node) /\ Rest
    BY <1>8 DEF AcceptBlock
  <2>4. Balanced(node.storage, node.ledger)
    BY <2>2 DEF LedgerBalances, Balanced
  <2> HIDE DEF node
  <2>5. \A n \in DOMAIN tree' : tree'[n] = node \/ (n \in DOMAIN tree /\ tree'[n] = tree[n])
    BY <2>1, <2>3
  <2> QED BY <2>3, <2>4, <2>5, GenesisType DEF LedgerBalances, Rest
<1>9. CASE FinalizeBlock \/ Discard
  BY <1>9, GenesisType DEF FinalizeBlock, Discard, Rest, LedgerBalances
<1>10. CASE Panic \/ UNCHANGED vars
  BY <1>10 DEF Panic, vars, LedgerBalances
<1> QED BY <1>2, <1>4, <1>5, <1>6, <1>7, <1>8, <1>9, <1>10
        DEF Next, PushInherent, PushTransaction, PanicOnExtrinsic, PanicOnRoots

(* On every branch and in every overlay an output is present exactly when  *)
(* it was created once more than it was consumed: no output is spent       *)
(* without having been created, and none is spent twice.                   *)
THEOREM LedgerCorrect == Spec => []LedgerBalances
BY TypeInit, TypeStep, BalanceInit, BalanceStep, PTL DEF Spec

-----------------------------------------------------------------------------
(* Outputs leave by redemption.                                            *)

(* A present output that a transaction changes is one of its inputs, gone  *)
(* afterwards, and evicted or redeemed to the satisfaction of its verifier.*)
LEMMA ApplyRedeems ==
    ASSUME NEW st \in Storage, NEW h \in Hash, NEW ref \in OutputRef,
           ApplyTuxedoTransaction(st.db, h).error = "none",
           st.db.utxos[ref] # None,
           ApplyTuxedoTransaction(st.db, h).db.utxos[ref] # st.db.utxos[ref]
    PROVE  /\ ApplyTuxedoTransaction(st.db, h).db.utxos[ref] = None
           /\ \E i \in DOMAIN Body[h].inputs :
                 /\ Body[h].inputs[i].output_ref = ref
                 /\ \/ Body[h].inputs[i].redeemer = Eviction
                    \/ Verify(st.db.utxos[ref].verifier, Stripped(h), st.db.height,
                              Body[h].inputs[i].redeemer)
<1>1. st.db \in Db
  BY DEF Storage
<1>2. ref \notin OutputRefs(h)
  BY SMTT(30), <1>1, ApplyEffect DEF HasPreExistingOutput, PeekUtxo
<1>3. /\ ref \in RefsOf(Body[h].inputs)
      /\ ApplyTuxedoTransaction(st.db, h).db.utxos[ref] = None
  BY <1>1, <1>2, ApplyEffect
<1>4. PICK i \in DOMAIN Body[h].inputs : Body[h].inputs[i].output_ref = ref
  BY SMTT(30), <1>3 DEF RefsOf
<1>5. ~VerifierRejects(st.db, h)
  BY SMTT(30), <1>1, ApplyEffect
<1>6. \/ Body[h].inputs[i].redeemer = Eviction
      \/ Verify(st.db.utxos[ref].verifier, Stripped(h), st.db.height, Body[h].inputs[i].redeemer)
  BY Zenon, <1>4, <1>5 DEF VerifierRejects, PeekUtxo
<1> QED BY <1>3, <1>4, <1>6

(* The step that applies a transaction redeems what leaves the UTXO set.   *)
LEMMA AppliedRedeems ==
    ASSUME storage \in Storage, NEW h \in Hash, Applied = h,
           ApplyTuxedoTransaction(storage.db, h).error = "none",
           storage'.db = ApplyTuxedoTransaction(storage.db, h).db
    PROVE  Redemption
<1> SUFFICES ASSUME NEW ref \in OutputRef,
                    storage.db.utxos[ref] # None,
                    storage'.db.utxos[ref] # storage.db.utxos[ref]
             PROVE  storage'.db.utxos[ref] = None /\ Redeems(h, ref)
  BY DEF Redemption
<1>1. ApplyTuxedoTransaction(storage.db, h).db.utxos[ref] = storage'.db.utxos[ref]
  OBVIOUS
<1> QED BY Zenon, <1>1, ApplyRedeems DEF Redeems

(* No other step changes the UTXO set of the overlay.                      *)
LEMMA RedemptionStep == TypeInv /\ [Next]_vars => [Redemption]_vars
<1> SUFFICES ASSUME TypeInv, Next PROVE Redemption
  OBVIOUS
<1>1. ASSUME NEW h \in Hash, Push(h) PROVE Redemption
  <2>1. task = "authoring" /\ storage \in Storage /\ block \in Block
    BY <1>1 DEF Push, TypeInv, TypeOK, Anchored
  <2>2. CASE ApplyExtrinsic(storage, h).error = "none"
    <3>1. /\ ApplyTuxedoTransaction(storage.db, h).error = "none"
          /\ storage'.db = ApplyTuxedoTransaction(storage.db, h).db
          /\ block' = [block EXCEPT !.extrinsics = Append(@, h),
                                    !.trace = Append(@, ApplyExtrinsic(storage, h).storage.db)]
      BY <1>1, <2>2 DEF Push, ApplyExtrinsic
    <3>2. block'.extrinsics = Append(block.extrinsics, h) /\ block.extrinsics \in Seq(Hash)
      BY <2>1, <3>1 DEF Block
    <3>3. Applied = h
      BY <2>1, <3>2 DEF Applied
    <3> QED BY <2>1, <3>1, <3>3, AppliedRedeems
  <2>3. CASE ApplyExtrinsic(storage, h).error # "none"
    BY <1>1, <2>3 DEF Push, Redemption
  <2> QED BY <2>2, <2>3
<1>2. CASE ExecuteExtrinsic
  <2>1. Executing /\ task = "importing"
    BY <1>2 DEF ExecuteExtrinsic, Executing
  <2>2. storage \in Storage /\ Current \in Hash
    BY <2>1, CurrentType
  <2>3. /\ ApplyTuxedoTransaction(storage.db, Current).error = "none"
        /\ storage'.db = ApplyTuxedoTransaction(storage.db, Current).db
    BY <1>2, <2>2 DEF ExecuteExtrinsic, Storage
  <2>4. Applied = Current
    BY <2>1 DEF Applied
  <2> QED BY <2>2, <2>3, <2>4, AppliedRedeems
<1>3. CASE task = "idle" \/ task' # task
  BY SMTT(30), <1>3 DEF Redemption
<1>4. ASSUME NEW p \in DOMAIN tree, StartAuthoring(p) PROVE task = "idle"
  BY SMTT(30), <1>4 DEF StartAuthoring
<1>5. ASSUME ReceiveAuthored PROVE task = "idle"
  BY <1>5 DEF ReceiveAuthored, StartExecution
<1>6. ASSUME NEW p \in DOMAIN tree, NEW e \in Extrinsics, ReceiveForeign(p, e) PROVE task = "idle"
  BY <1>6 DEF ReceiveForeign, StartExecution
<1>7. ASSUME FinalizeBlock \/ AcceptBlock \/ PanicOnExtrinsic \/ PanicOnRoots \/ Discard
      PROVE  task' # task
  BY <1>7 DEF FinalizeBlock, AcceptBlock, Executed, PanicOnExtrinsic, PanicOnRoots, Executing,
              Panic, Discard, Rest
<1> QED BY <1>1, <1>2, <1>3, <1>4, <1>5, <1>6, <1>7 DEF Next, PushInherent, PushTransaction

(* While a block is built or executed, an output leaves the UTXO set only  *)
(* by eviction or to the satisfaction of its verifier, and is never        *)
(* overwritten.                                                            *)
THEOREM RedemptionCorrect == Spec => UtxosLeaveByRedemption
BY TypeInit, TypeStep, RedemptionStep, PTL DEF Spec, UtxosLeaveByRedemption

-----------------------------------------------------------------------------
(* The authoring workflow and the import workflow agree.                   *)

Inherent(h) == IsInherent(Body[h].checker)

\* Among the first n extrinsics no inherent follows a non-inherent.
InherentsFirst(extrinsics, n) ==
    \A i, j \in 1 .. n : i < j /\ Inherent(extrinsics[j]) => Inherent(extrinsics[i])

\* The trace of b is what executing its extrinsics one after the other on
\* top of the storage of its parent yields, without an error.
Replayed(b, parent) ==
    /\ Len(b.trace) = Len(b.extrinsics) + 1
    /\ b.trace[1] = OpenBlock(parent, [parent |-> b.parent, number |-> b.number]).db
    /\ \A k \in 1 .. Len(b.extrinsics) :
          /\ ApplyTuxedoTransaction(b.trace[k], b.extrinsics[k]).error = "none"
          /\ ApplyTuxedoTransaction(b.trace[k], b.extrinsics[k]).db = b.trace[k + 1]
    /\ InherentsFirst(b.extrinsics, Len(b.extrinsics))

\* The roots of a block built here are those of its extrinsics and its trace.
Sealed(b, parent) ==
    /\ Replayed(b, parent)
    /\ b.extrinsics_root = b.extrinsics
    /\ b.state_root = [db |-> b.trace[Len(b.trace)], header |-> None, extrinsics |-> <<>>]

AuthoringState ==
    task = "authoring" =>
        /\ Replayed(block, tree[block.parent].storage)
        /\ storage.db = block.trace[Len(block.trace)]
        /\ storage.extrinsics = block.extrinsics
        /\ ~finished => \A k \in 1 .. Len(block.extrinsics) : Inherent(block.extrinsics[k])

ImportState ==
    task \in {"importing", "panicked"} =>
        /\ cursor <= Len(block.extrinsics)
        /\ storage.extrinsics = <<>>
        /\ InherentsFirst(block.extrinsics, cursor)
        /\ finished <=> \E k \in 1 .. cursor : ~Inherent(block.extrinsics[k])
        /\ Authored(block) => /\ Sealed(block, tree[block.parent].storage)
                              /\ storage.db = block.trace[cursor + 1]

TreeState ==
    \A n \in DOMAIN tree :
        /\ tree[n].storage.header = None
        /\ tree[n].storage.extrinsics = <<>>
        /\ InherentsFirst(tree[n].extrinsics, Len(tree[n].extrinsics))

WorkflowInv ==
    /\ TypeInv
    /\ TreeState
    /\ AuthoringState
    /\ ImportState
    /\ gossip # None => Sealed(gossip, tree[gossip.parent].storage)
    /\ AuthoredBlocksAccepted
    /\ task = "idle" => cursor = 0 /\ finished = FALSE

LEMMA WorkflowInit == Init => WorkflowInv
<1> SUFFICES ASSUME Init PROVE WorkflowInv
  OBVIOUS
<1>1. InherentsFirst(GenesisTransactions, Len(GenesisTransactions))
  <2>1. GenesisTransactions \in Seq(Hash)
    BY ConstantsAssumption
  <2> SUFFICES ASSUME NEW i \in 1 .. Len(GenesisTransactions),
                      NEW j \in 1 .. Len(GenesisTransactions),
                      i < j, Inherent(GenesisTransactions[j])
               PROVE  Inherent(GenesisTransactions[i])
    BY DEF InherentsFirst
  <2>2. i \in 1 .. j
    BY SMTT(30), <2>1
  <2> QED BY <2>2, GenesisAssumption DEF Inherent
<1>2. TreeState
  <2>1. GenesisStorage.header = None /\ GenesisStorage.extrinsics = <<>>
    BY DEF GenesisStorage
  <2>2. DOMAIN tree = {1} /\ tree[1].storage = GenesisStorage
        /\ tree[1].extrinsics = GenesisTransactions
    BY DEF Init
  <2> QED BY <1>1, <2>1, <2>2 DEF TreeState
<1> QED BY <1>2, TypeInit DEF Init, WorkflowInv, AuthoringState, ImportState, AuthoredBlocksAccepted

(* Executing one more extrinsic keeps inherents first when it is not       *)
(* misplaced.                                                              *)
LEMMA ExtendInherents ==
    ASSUME NEW extrinsics, NEW n \in Nat, InherentsFirst(extrinsics, n),
           Inherent(extrinsics[n + 1]) => \A k \in 1 .. n : Inherent(extrinsics[k])
    PROVE  InherentsFirst(extrinsics, n + 1)
<1> SUFFICES ASSUME NEW i \in 1 .. n + 1, NEW j \in 1 .. n + 1,
                    i < j, Inherent(extrinsics[j])
             PROVE  Inherent(extrinsics[i])
  BY DEF InherentsFirst
<1>1. CASE j = n + 1
  <2>1. i \in 1 .. n
    BY <1>1
  <2> QED BY <1>1, <2>1
<1>2. CASE j # n + 1
  <2>1. i \in 1 .. n /\ j \in 1 .. n
    BY <1>2
  <2> QED BY <2>1 DEF InherentsFirst
<1> QED BY <1>1, <1>2

(* Only the extrinsics a prefix holds matter.                              *)
LEMMA PrefixInherents ==
    ASSUME NEW s \in Seq(Hash), NEW h \in Hash, InherentsFirst(s, Len(s))
    PROVE  InherentsFirst(Append(s, h), Len(s))
<1>1. \A k \in 1 .. Len(s) : Append(s, h)[k] = s[k]
  OBVIOUS
<1> QED BY <1>1 DEF InherentsFirst

(* A transaction that the pool accepts is not an inherent.                 *)
LEMMA PoolHoldsNoInherents ==
    ASSUME NEW db, NEW h \in Hash, ValidateTransaction(db, h).error = "none"
    PROVE  ~Inherent(h)
BY SMTT(30) DEF ValidateTransaction, Invalid, Inherent

\* The extrinsic h applies on top of b, which then is new.
Extends(new, b, h, last) ==
    /\ last = ApplyTuxedoTransaction(b.trace[Len(b.trace)], h) /\ last.error = "none"
    /\ new.parent = b.parent /\ new.number = b.number
    /\ new.extrinsics = Append(b.extrinsics, h) /\ new.trace = Append(b.trace, last.db)
    /\ Inherent(h) => \A k \in 1 .. Len(b.extrinsics) : Inherent(b.extrinsics[k])

(* A block that is extended by an extrinsic that applies is still what     *)
(* replaying its extrinsics yields.                                        *)
LEMMA ExtendReplayed ==
    ASSUME NEW b \in Block, NEW h \in Hash, NEW parent, NEW new \in Block,
           Replayed(b, parent), NEW last, Extends(new, b, h, last)
    PROVE  Replayed(new, parent) /\ new.trace[Len(new.trace)] = last.db
<1>0. /\ last = ApplyTuxedoTransaction(b.trace[Len(b.trace)], h) /\ last.error = "none"
      /\ new.parent = b.parent /\ new.number = b.number
      /\ new.extrinsics = Append(b.extrinsics, h) /\ new.trace = Append(b.trace, last.db)
      /\ Inherent(h) => \A k \in 1 .. Len(b.extrinsics) : Inherent(b.extrinsics[k])
  BY Zenon DEF Extends
<1> DEFINE n == Len(b.extrinsics)
<1>1. b.extrinsics \in Seq(Hash) /\ b.trace \in Seq(Db) /\ n \in Nat /\ Len(b.trace) = n + 1
  <2>1. b.extrinsics \in Seq(Hash) /\ b.trace \in Seq(Db)
    BY DEF Block
  <2>2. Len(b.trace) = Len(b.extrinsics) + 1
    BY Zenon DEF Replayed
  <2> QED BY <2>1, <2>2
<1>2. b.trace[n + 1] \in Db
  BY <1>1
<1>3. last.db \in Db
  BY <1>0, <1>1, <1>2, ApplyType
<1>4. /\ Len(new.extrinsics) = n + 1 /\ Len(new.trace) = n + 2
      /\ \A k \in 1 .. n : new.extrinsics[k] = b.extrinsics[k]
      /\ new.extrinsics[n + 1] = h
  BY SMTT(30), <1>0, <1>1, <1>3
<1>5. (\A k \in 1 .. n + 1 : new.trace[k] = b.trace[k]) /\ new.trace[n + 2] = last.db
  BY <1>0, <1>1, <1>3
<1>6. ASSUME NEW k \in 1 .. n + 1
      PROVE  /\ ApplyTuxedoTransaction(new.trace[k], new.extrinsics[k]).error = "none"
             /\ ApplyTuxedoTransaction(new.trace[k], new.extrinsics[k]).db = new.trace[k + 1]
  <2>1. CASE k \in 1 .. n
    <3>1. new.trace[k] = b.trace[k] /\ new.trace[k + 1] = b.trace[k + 1]
      BY SMTT(30), <1>1, <1>5, <2>1
    <3> QED BY Zenon, <1>4, <2>1, <3>1 DEF Replayed
  <2>2. CASE k = n + 1
    <3>1. k + 1 = n + 2 /\ k = Len(b.trace)
      BY <1>1, <2>2
    <3>2. new.trace[k] = b.trace[Len(b.trace)] /\ new.trace[k + 1] = last.db
      BY Zenon, <1>5, <3>1
    <3> QED BY Zenon, <1>0, <1>4, <2>2, <3>2
  <2>3. k \in 1 .. n \/ k = n + 1
    BY <1>1
  <2> QED BY Zenon, <2>1, <2>2, <2>3
<1>7. InherentsFirst(new.extrinsics, n + 1)
  <2>1. InherentsFirst(new.extrinsics, n)
    BY <1>0, <1>1, PrefixInherents DEF Replayed
  <2>2. Inherent(new.extrinsics[n + 1]) => \A k \in 1 .. n : Inherent(new.extrinsics[k])
    BY <1>0, <1>4
  <2> QED BY Zenon, <1>1, <2>1, <2>2, ExtendInherents
<1>8. new.trace[1] = OpenBlock(parent, [parent |-> new.parent, number |-> new.number]).db
  <2>1. new.trace[1] = b.trace[1]
    BY <1>1, <1>5
  <2> QED BY <1>0, <2>1 DEF Replayed
<1>9. Len(new.trace) = Len(new.extrinsics) + 1
  BY SMTT(30), <1>1, <1>4
<1>10. Replayed(new, parent)
  BY Zenon, <1>4, <1>6, <1>7, <1>8, <1>9 DEF Replayed
<1> QED BY Zenon, <1>4, <1>5, <1>10

LEMMA WorkflowStep == WorkflowInv /\ [Next]_vars => WorkflowInv'
<1> SUFFICES ASSUME WorkflowInv, [Next]_vars PROVE WorkflowInv'
  OBVIOUS
<1>0. TypeInv /\ TypeInv'
  BY SMTT(30), TypeStep DEF WorkflowInv
<1>1. ASSUME NEW p \in DOMAIN tree, StartAuthoring(p) PROVE WorkflowInv'
  <2>1. /\ task = "idle" /\ task' = "authoring" /\ tree' = tree /\ gossip' = gossip
        /\ storage' = OpenBlock(tree[p].storage, Child(p))
        /\ block' = [parent |-> p, number |-> tree[p].number + 1, extrinsics |-> <<>>,
                     extrinsics_root |-> AnyRoot, state_root |-> AnyRoot,
                     trace |-> <<storage'.db>>]
    BY <1>1 DEF StartAuthoring
  <2>2. storage'.extrinsics = <<>>
    <3>1. tree[p].storage.extrinsics = <<>>
      BY Zenon DEF WorkflowInv, TreeState
    <3> QED BY <2>1, <3>1 DEF OpenBlock
  <2>3. Replayed(block', tree'[block'.parent].storage)
    <3>1. /\ block'.parent = p /\ block'.number = tree[p].number + 1
          /\ block'.extrinsics = <<>> /\ block'.trace = <<storage'.db>>
      BY <2>1
    <3>2. Len(block'.extrinsics) = 0 /\ Len(block'.trace) = 1 /\ block'.trace[1] = storage'.db
      BY <3>1
    <3>3. /\ Len(block'.trace) = Len(block'.extrinsics) + 1
          /\ \A k \in 1 .. Len(block'.extrinsics) : FALSE
      BY <3>2
    <3>4. storage'.db = OpenBlock(tree'[block'.parent].storage,
                                 [parent |-> block'.parent, number |-> block'.number]).db
      BY <2>1, <3>1, Zenon DEF Child
    <3> QED BY <3>2, <3>3, <3>4, Zenon DEF Replayed, InherentsFirst
  <2>4. AuthoringState'
    <3>1. /\ block'.extrinsics = <<>> /\ Len(block'.extrinsics) = 0 /\ Len(block'.trace) = 1
          /\ block'.trace[1] = storage'.db
      BY <2>1
    <3>2. \A k \in 1 .. Len(block'.extrinsics) : FALSE
      BY <3>1
    <3> QED BY <2>2, <2>3, <3>1, <3>2, Zenon DEF AuthoringState
  <2> QED BY Zenon, <1>0, <2>1, <2>4 DEF WorkflowInv, TreeState, ImportState, AuthoredBlocksAccepted
<1>2. ASSUME NEW h \in Hash, Push(h), finished' \in BOOLEAN,
             Inherent(h) => ~finished /\ finished' = finished,
             ~Inherent(h) => finished' = TRUE
      PROVE  WorkflowInv'
  <2> DEFINE applied == ApplyTuxedoTransaction(storage.db, h)
  <2>1. task = "authoring" /\ task' = task /\ tree' = tree /\ gossip' = gossip
    BY SMTT(30), <1>2 DEF Push
  <2>2. /\ block \in Block /\ storage \in Storage /\ storage.db \in Db
        /\ block' \in Block /\ finished \in BOOLEAN
    BY <1>0, <2>1 DEF TypeInv, TypeOK, Anchored, Storage
  <2>3. /\ Replayed(block, tree[block.parent].storage)
        /\ storage.db = block.trace[Len(block.trace)]
        /\ storage.extrinsics = block.extrinsics
        /\ ~finished => \A k \in 1 .. Len(block.extrinsics) : Inherent(block.extrinsics[k])
    BY <2>1 DEF WorkflowInv, AuthoringState
  <2>4. CASE applied.error = "none"
    <3>1. /\ storage' = [db |-> applied.db, header |-> storage.header,
                         extrinsics |-> Append(storage.extrinsics, h)]
          /\ block' = [block EXCEPT !.extrinsics = Append(@, h), !.trace = Append(@, applied.db)]
      BY Zenon, <1>2, <2>4 DEF Push, ApplyExtrinsic
    <3>2. /\ block'.parent = block.parent /\ block'.number = block.number
          /\ block'.extrinsics = Append(block.extrinsics, h)
          /\ block'.trace = Append(block.trace, applied.db)
      BY <2>2, <3>1 DEF Block
    <3>3. /\ Replayed(block', tree[block.parent].storage)
          /\ block'.trace[Len(block'.trace)] = applied.db
      <4>1. PICK parent : parent = tree[block.parent].storage
        BY Zenon
      <4>2. PICK new \in Block : new = block'
        BY <2>2, Zenon
      <4>3. Inherent(h) => \A k \in 1 .. Len(block.extrinsics) : Inherent(block.extrinsics[k])
        BY <1>2, <2>3, Zenon
      <4>4. Replayed(new, parent) /\ new.trace[Len(new.trace)] = applied.db
        <5>1. /\ new.parent = block.parent /\ new.number = block.number
              /\ new.extrinsics = Append(block.extrinsics, h)
              /\ new.trace = Append(block.trace, applied.db)
          BY <3>2, <4>2, Zenon
        <5>2. applied = ApplyTuxedoTransaction(block.trace[Len(block.trace)], h)
          BY <2>3, Zenon
        <5>3. Replayed(block, parent)
          BY <2>3, <4>1, Zenon
        <5>4. PICK last : last = applied
          BY Zenon
        <5>5. Extends(new, block, h, last)
          BY <2>4, <4>3, <5>1, <5>2, <5>4, Zenon DEF Extends
        <5> QED BY <2>2, <5>3, <5>4, <5>5, ExtendReplayed, SMTT(60)
      <4> QED BY <4>1, <4>2, <4>4, Zenon
    <3>4. ~finished' => \A k \in 1 .. Len(block'.extrinsics) : Inherent(block'.extrinsics[k])
      <4>1. block.extrinsics \in Seq(Hash)
        BY <2>2 DEF Block
      <4> QED BY <1>2, <2>3, <3>2, <4>1
    <3>5. AuthoringState'
      BY <2>1, <2>3, <3>1, <3>2, <3>3, <3>4 DEF AuthoringState
    <3> QED BY <1>0, <2>1, <3>5 DEF WorkflowInv, TreeState, ImportState, AuthoredBlocksAccepted
  <2>5. CASE applied.error # "none"
    <3>1. storage' = storage /\ block' = block
      BY <1>2, <2>5 DEF Push, ApplyExtrinsic
    <3>2. ~finished' => ~finished
      BY <1>2, <2>2
    <3>3. AuthoringState'
      BY <2>1, <2>3, <3>1, <3>2 DEF AuthoringState
    <3> QED BY <1>0, <2>1, <3>3 DEF WorkflowInv, TreeState, ImportState, AuthoredBlocksAccepted
  <2> QED BY <2>4, <2>5
<1>3. ASSUME NEW h \in Hash, PushInherent(h) PROVE WorkflowInv'
  <2>1. Inherent(h) /\ ~finished /\ Push(h) /\ finished' = finished
    BY <1>3 DEF PushInherent, Inherent
  <2>2. finished' \in BOOLEAN
    BY <1>0 DEF TypeInv, TypeOK
  <2> QED BY Zenon, <1>2, <2>1, <2>2
<1>4. ASSUME NEW h \in Hash, PushTransaction(h) PROVE WorkflowInv'
  <2>1. Push(h) /\ finished' = TRUE /\ ~Inherent(h)
    BY <1>4, PoolHoldsNoInherents DEF PushTransaction
  <2> QED BY Zenon, <1>2, <2>1
<1>5. CASE FinalizeBlock
  <2>1. /\ task = "authoring" /\ Rest /\ tree' = tree
        /\ gossip' = [block EXCEPT !.extrinsics_root = storage.extrinsics,
                                   !.state_root = CloseBlock(storage)]
    BY <1>5 DEF FinalizeBlock
  <2>2. block \in Block
    BY <1>0, <2>1 DEF TypeInv, Anchored
  <2>3. /\ gossip'.parent = block.parent /\ gossip'.number = block.number
        /\ gossip'.extrinsics = block.extrinsics /\ gossip'.trace = block.trace
        /\ gossip'.extrinsics_root = storage.extrinsics
        /\ gossip'.state_root = CloseBlock(storage)
    BY <2>1, <2>2 DEF Block
  <2>4. /\ Replayed(block, tree[block.parent].storage)
        /\ storage.db = block.trace[Len(block.trace)]
        /\ storage.extrinsics = block.extrinsics
    BY <2>1 DEF WorkflowInv, AuthoringState
  <2>5. Sealed(gossip', tree'[gossip'.parent].storage)
    BY SMTT(30), <2>1, <2>3, <2>4 DEF Sealed, Replayed, CloseBlock
  <2> QED BY <1>0, <2>1, <2>5
          DEF WorkflowInv, TreeState, AuthoringState, ImportState, AuthoredBlocksAccepted, Rest
<1>6. ASSUME NEW b \in Block, b.parent \in DOMAIN tree, StartExecution(b),
             gossip' \in {gossip, None},
             Authored(b) => Sealed(b, tree[b.parent].storage)
      PROVE  WorkflowInv'
  <2>1. /\ task = "idle" /\ task' = "importing" /\ tree' = tree /\ block' = b
        /\ storage' = OpenBlock(tree[b.parent].storage,
                                [parent |-> b.parent, number |-> b.number])
        /\ cursor' = 0 /\ finished' = FALSE
    BY <1>6 DEF StartExecution, WorkflowInv
  <2>2. storage'.extrinsics = <<>>
    <3>1. tree[b.parent].storage.extrinsics = <<>>
      BY Zenon, <1>6 DEF WorkflowInv, TreeState
    <3> QED BY <2>1, <3>1 DEF OpenBlock
  <2>3. Authored(b) => storage'.db = b.trace[1]
    BY <1>6, <2>1 DEF Sealed, Replayed
  <2>4. b.extrinsics \in Seq(Hash)
    BY SMTT(30) DEF Block
  <2>5. ImportState'
    <3>1. cursor' <= Len(block'.extrinsics) /\ (\A k \in 1 .. cursor' : FALSE) /\ cursor' + 1 = 1
      BY <2>1, <2>4
    <3>2. Authored(b)' <=> Authored(b)
      BY DEF Authored
    <3>3. Authored(b) => Sealed(b, tree'[b.parent].storage) /\ storage'.db = b.trace[cursor' + 1]
      BY <1>6, <2>1, <2>3, <3>1, Zenon
    <3>4. finished' <=> \E k \in 1 .. cursor' : ~Inherent(b.extrinsics[k])
      BY <2>1, <3>1
    <3> QED BY <2>1, <2>2, <3>1, <3>2, <3>3, <3>4, Zenon DEF ImportState, InherentsFirst, Authored
  <2>6. gossip' # None => Sealed(gossip', tree'[gossip'.parent].storage)
    BY Zenon, <1>6, <2>1 DEF WorkflowInv
  <2>7. task' # "idle" /\ task' # "authoring" /\ task' # "panicked"
    BY <2>1
  <2> QED BY Zenon, <1>0, <2>1, <2>5, <2>6, <2>7 DEF WorkflowInv, TreeState, AuthoringState, AuthoredBlocksAccepted
<1>7. CASE ReceiveAuthored
  <2>1. gossip # None /\ StartExecution(gossip) /\ gossip' = None
    BY Zenon, <1>7 DEF ReceiveAuthored
  <2>2. /\ gossip \in Block /\ gossip.parent \in DOMAIN tree
        /\ Sealed(gossip, tree[gossip.parent].storage)
    <3>1. gossip \in Block /\ gossip.parent \in DOMAIN tree
      BY <1>0, <2>1 DEF TypeInv, TypeOK, Anchored
    <3> QED BY Zenon, <2>1, <3>1 DEF WorkflowInv
  <2> QED BY <1>6, <2>1, <2>2
<1>8. ASSUME NEW p \in DOMAIN tree, NEW extrinsics \in Extrinsics, ReceiveForeign(p, extrinsics)
      PROVE  WorkflowInv'
  <2>1. ~Authored(Foreign(p, extrinsics))
    BY DEF Authored, Foreign
  <2>2. StartExecution(Foreign(p, extrinsics)) /\ gossip' = gossip
    BY <1>8 DEF ReceiveForeign
  <2> QED BY <1>0, <1>6, <2>1, <2>2, ForeignType
<1>9. CASE ExecuteExtrinsic
  <2> DEFINE applied == ApplyTuxedoTransaction(storage.db, Current)
             n == Len(block.extrinsics)
  <2>1. /\ Executing /\ ~Misplaced(Current) /\ applied.error = "none"
        /\ finished' = (finished \/ ~Inherent(Current))
        /\ storage' = [storage EXCEPT !.db = applied.db]
        /\ cursor' = cursor + 1 /\ tree' = tree /\ task' = task /\ block' = block
        /\ gossip' = gossip
    BY <1>9 DEF ExecuteExtrinsic, Inherent
  <2>2. /\ block \in Block /\ cursor \in Nat /\ storage \in Storage
        /\ cursor + 1 \in 1 .. n /\ Current \in Hash /\ task = "importing"
    BY SMTT(30), <1>0, <2>1, CurrentType DEF Executing
  <2>3. /\ storage.extrinsics = <<>>
        /\ InherentsFirst(block.extrinsics, cursor)
        /\ finished <=> \E k \in 1 .. cursor : ~Inherent(block.extrinsics[k])
        /\ Authored(block) => /\ Sealed(block, tree[block.parent].storage)
                              /\ storage.db = block.trace[cursor + 1]
    BY <2>2 DEF WorkflowInv, ImportState
  <2>4. n \in Nat /\ cursor + 1 <= n
    BY <2>2 DEF Block
  <2>5. storage'.extrinsics = <<>> /\ storage'.db = applied.db
    BY <2>1, <2>2, <2>3 DEF Storage
  <2>6. Current = block.extrinsics[cursor + 1]
    BY DEF Current
  <2>7. InherentsFirst(block.extrinsics, cursor + 1)
    <3>1. Inherent(block.extrinsics[cursor + 1])
            => \A k \in 1 .. cursor : Inherent(block.extrinsics[k])
      BY <2>1, <2>3, <2>6 DEF Misplaced, Inherent
    <3> QED BY <2>2, <2>3, <3>1, ExtendInherents
  <2>8. finished' <=> \E k \in 1 .. cursor + 1 : ~Inherent(block.extrinsics[k])
    <3>1. \A k : k \in 1 .. cursor + 1 <=> k \in 1 .. cursor \/ k = cursor + 1
      BY <2>2
    <3> QED BY Zenon, <2>1, <2>3, <2>6, <3>1
  <2>9. Authored(block) => storage'.db = block.trace[(cursor + 1) + 1]
    BY <2>2, <2>3, <2>5, <2>6 DEF Sealed, Replayed
  <2>10. ImportState'
    BY <2>1, <2>2, <2>3, <2>4, <2>5, <2>7, <2>8, <2>9 DEF ImportState, Authored
  <2> QED BY <1>0, <2>1, <2>2, <2>10 DEF WorkflowInv, TreeState, AuthoringState, AuthoredBlocksAccepted
<1>10. ASSUME Panic, task = "importing", ~Authored(block) PROVE WorkflowInv'
  <2>1. ImportState'
    BY <1>10 DEF Panic, WorkflowInv, ImportState, Authored
  <2> QED BY <1>0, <1>10, <2>1
          DEF Panic, WorkflowInv, TreeState, AuthoringState, AuthoredBlocksAccepted, Authored
<1>11. ASSUME PanicOnExtrinsic PROVE ~Authored(block)
  <2>1. /\ Executing
        /\ Misplaced(Current) \/ ApplyTuxedoTransaction(storage.db, Current).error # "none"
    BY <1>11 DEF PanicOnExtrinsic
  <2>2. /\ cursor \in Nat /\ cursor + 1 \in 1 .. Len(block.extrinsics) /\ task = "importing"
        /\ Current = block.extrinsics[cursor + 1]
    BY <1>0, <2>1, CurrentType DEF Executing, Current
  <2> SUFFICES ASSUME Authored(block) PROVE FALSE
    OBVIOUS
  <2>3. /\ Sealed(block, tree[block.parent].storage) /\ storage.db = block.trace[cursor + 1]
        /\ finished <=> \E k \in 1 .. cursor : ~Inherent(block.extrinsics[k])
    BY SMTT(30), <2>2 DEF WorkflowInv, ImportState
  <2>4. ApplyTuxedoTransaction(storage.db, Current).error = "none"
    BY Zenon, <2>2, <2>3 DEF Sealed, Replayed
  <2>5. ~Misplaced(Current)
    <3> SUFFICES ASSUME Inherent(Current), finished PROVE FALSE
      BY DEF Misplaced, Inherent
    <3>1. PICK k \in 1 .. cursor : ~Inherent(block.extrinsics[k])
      BY <2>3
    <3>2. k \in 1 .. Len(block.extrinsics) /\ k < cursor + 1
      BY <2>2, <3>1
    <3> QED BY <2>2, <2>3, <3>1, <3>2 DEF Sealed, Replayed, InherentsFirst
  <2> QED BY <2>1, <2>4, <2>5
<1>12. ASSUME PanicOnRoots PROVE ~Authored(block)
  <2>1. /\ task = "importing" /\ cursor = Len(block.extrinsics)
        /\ \/ block.state_root # FinishExecution(storage)
           \/ block.extrinsics_root # block.extrinsics
    BY SMTT(30), <1>12 DEF PanicOnRoots, Executed
  <2> SUFFICES ASSUME Authored(block) PROVE FALSE
    OBVIOUS
  <2>2. /\ Sealed(block, tree[block.parent].storage) /\ storage.db = block.trace[cursor + 1]
        /\ storage.extrinsics = <<>>
    BY Zenon, <2>1 DEF WorkflowInv, ImportState
  <2>3. storage.db = block.trace[Len(block.trace)]
    <3>1. Len(block.trace) = Len(block.extrinsics) + 1
      BY <2>2, Zenon DEF Sealed, Replayed
    <3> QED BY <2>1, <2>2, <3>1, Zenon
  <2> QED BY <2>1, <2>2, <2>3 DEF Sealed, FinishExecution
<1>13. CASE AcceptBlock
  <2> DEFINE node == [parent |-> block.parent, number |-> block.number,
                      extrinsics |-> block.extrinsics,
                      storage |-> FinishExecution(storage), ledger |-> ledger]
  <2>1. /\ task = "importing" /\ cursor = Len(block.extrinsics)
        /\ tree' = Append(tree, node) /\ Rest /\ gossip' = gossip
    BY <1>13 DEF AcceptBlock, Executed
  <2>2. tree \in Seq(Imported) /\ (gossip # None => gossip.parent \in DOMAIN tree)
    BY <1>0 DEF TypeInv, TypeOK, Anchored
  <2>3. storage.extrinsics = <<>> /\ InherentsFirst(block.extrinsics, Len(block.extrinsics))
    BY <2>1 DEF WorkflowInv, ImportState
  <2>4. /\ node.storage.header = None /\ node.storage.extrinsics = <<>>
        /\ InherentsFirst(node.extrinsics, Len(node.extrinsics))
    BY <2>3 DEF FinishExecution
  <2> HIDE DEF node
  <2>5. /\ \A n \in DOMAIN tree' : tree'[n] = node \/ (n \in DOMAIN tree /\ tree'[n] = tree[n])
        /\ \A n \in DOMAIN tree : tree'[n] = tree[n]
    BY SMTT(30), <2>1, <2>2
  <2>6. TreeState'
    BY <2>4, <2>5 DEF WorkflowInv, TreeState
  <2>7. gossip' # None => Sealed(gossip', tree'[gossip'.parent].storage)
    <3>1. gossip # None => Sealed(gossip, tree[gossip.parent].storage)
      BY Zenon DEF WorkflowInv
    <3> QED BY Zenon, <2>1, <2>2, <2>5, <3>1
  <2> QED BY Zenon, <1>0, <2>1, <2>6, <2>7
          DEF WorkflowInv, AuthoringState, ImportState, AuthoredBlocksAccepted, Rest
<1>14. CASE Discard
  <2>1. /\ task' = "idle" /\ cursor' = 0 /\ finished' = FALSE /\ tree' = tree /\ gossip' = gossip
    BY <1>14, Zenon DEF Discard, Rest
  <2>2. task' # "authoring" /\ task' # "importing" /\ task' # "panicked"
    BY <2>1
  <2> QED BY <1>0, <2>1, <2>2, Zenon DEF WorkflowInv, TreeState, AuthoringState, ImportState,
                                         AuthoredBlocksAccepted
<1>15. CASE UNCHANGED vars
  BY <1>0, <1>15 DEF vars, WorkflowInv, TreeState, AuthoringState, ImportState,
                     AuthoredBlocksAccepted, Authored
<1> QED BY <1>1, <1>3, <1>4, <1>5, <1>7, <1>8, <1>9, <1>10, <1>11, <1>12, <1>13, <1>14, <1>15
        DEF Next, PanicOnExtrinsic, PanicOnRoots, Executing, Executed

(* A block built with open_block, apply_extrinsic and close_block is never *)
(* refused by execute_block.                                               *)
THEOREM AuthoringCorrect == Spec => []AuthoredBlocksAccepted
<1>1. WorkflowInv => AuthoredBlocksAccepted
  BY DEF WorkflowInv
<1> QED BY <1>1, WorkflowInit, WorkflowStep, PTL DEF Spec

(* The take_while of inherent_extrinsics finds every inherent of a parent. *)
THEOREM ScrapeCorrect == Spec => []ScrapeFindsAllInherents
<1>1. WorkflowInv => ScrapeFindsAllInherents
  <2> SUFFICES ASSUME WorkflowInv, NEW n \in DOMAIN tree
               PROVE  OpeningInherents(tree[n].extrinsics)
                        = {i \in DOMAIN tree[n].extrinsics : Inherent(tree[n].extrinsics[i])}
    BY SMTT(30) DEF ScrapeFindsAllInherents, Inherent
  <2> DEFINE s == tree[n].extrinsics
  <2>1. s \in Seq(Hash)
    <3>1. tree \in Seq(Imported)
      BY DEF WorkflowInv, TypeInv, TypeOK
    <3>2. tree[n] \in Imported
      BY <3>1
    <3> QED BY <3>2 DEF Imported
  <2>2. InherentsFirst(s, Len(s))
    BY DEF WorkflowInv, TreeState
  <2> HIDE DEF s
  <2>3. ASSUME NEW i \in DOMAIN s, Inherent(s[i]), NEW j \in 1 .. i
        PROVE  Inherent(s[j])
    <3>1. i \in 1 .. Len(s) /\ j \in 1 .. Len(s) /\ (j = i \/ j < i)
      BY <2>1
    <3> QED BY <2>2, <2>3, <3>1 DEF InherentsFirst
  <2>4. ASSUME NEW i \in DOMAIN s, \A j \in 1 .. i : Inherent(s[j])
        PROVE  Inherent(s[i])
    <3>1. i \in 1 .. i
      BY <2>1
    <3> QED BY <2>4, <3>1
  <2>5. OpeningInherents(s) = {i \in DOMAIN s : Inherent(s[i])}
    BY SMTT(30), <2>3, <2>4 DEF OpeningInherents, Inherent
  <2> QED BY <2>5 DEF s
<1> QED BY <1>1, WorkflowInit, WorkflowStep, PTL DEF Spec

-----------------------------------------------------------------------------
(* Heights.                                                                *)

\* The stored height is the number of the block, one above its parent.
HeightInv ==
    /\ \A n \in DOMAIN tree : tree[n].storage.db.height = tree[n].number
    /\ task # "idle" => /\ block.number = tree[block.parent].number + 1
                        /\ storage.db.height = block.number
    /\ gossip # None => gossip.number = tree[gossip.parent].number + 1

(* Applying a transaction does not move the height.                        *)
LEMMA ApplyHeight ==
    ASSUME NEW db \in Db, NEW h \in Hash
    PROVE  ApplyTuxedoTransaction(db, h).db.height = db.height
<1> DEFINE valid == ValidateTuxedoTransaction(db, h)
<1>1. valid.db \in Db /\ valid.db.height = db.height
  BY ValidateType
<1>2. UpdateStorage(valid.db, h).height = valid.db.height
  BY SMTT(30), <1>1 DEF UpdateStorage, Db
<1> QED BY <1>1, <1>2 DEF ApplyTuxedoTransaction

(* Genesis is block 0 at height 0.                                         *)
LEMMA HeightInit == Init => HeightInv
<1> SUFFICES ASSUME Init PROVE HeightInv
  OBVIOUS
<1>1. GenesisStorage.db.height = 0
  BY DEF GenesisStorage
<1>2. DOMAIN tree = {1} /\ tree[1].storage = GenesisStorage /\ tree[1].number = 0
  BY DEF Init
<1> QED BY <1>1, <1>2 DEF Init, HeightInv

(* Heights only come from open_block and the start of execute_block.       *)
LEMMA HeightStep == TypeInv /\ HeightInv /\ [Next]_vars => HeightInv'
<1> SUFFICES ASSUME TypeInv, HeightInv, [Next]_vars PROVE HeightInv'
  OBVIOUS
<1>1. ASSUME NEW p \in DOMAIN tree, StartAuthoring(p) PROVE HeightInv'
  <2>1. Child(p) \in PreHeader
    BY TreeType DEF Child, PreHeader
  <2>2. storage'.db.height = tree[p].number + 1
    BY <1>1, <2>1, TreeType, OpenBlockType, SMTT(60) DEF StartAuthoring, Child
  <2> QED BY <1>1, <2>2 DEF StartAuthoring, HeightInv
<1>2. ASSUME NEW h \in Hash, Push(h) PROVE HeightInv'
  <2>1. block \in Block /\ storage \in Storage /\ storage.db \in Db /\ task # "idle" /\ task' # "idle"
    BY <1>2 DEF Push, TypeInv, TypeOK, Anchored, Storage
  <2>2. storage'.db.height = storage.db.height
    BY <1>2, <2>1, ApplyHeight DEF Push, ApplyExtrinsic
  <2>3. block'.parent = block.parent /\ block'.number = block.number
    BY Zenon, <1>2, <2>1 DEF Push, Block
  <2> QED BY <1>2, <2>1, <2>2, <2>3 DEF Push, HeightInv
<1>3. CASE FinalizeBlock
  <2>1. block \in Block /\ task # "idle"
    BY <1>3 DEF FinalizeBlock, TypeInv, Anchored
  <2>2. gossip'.parent = block.parent /\ gossip'.number = block.number
    BY <1>3, <2>1 DEF FinalizeBlock, Block
  <2> QED BY <1>3, <2>1, <2>2 DEF FinalizeBlock, Rest, HeightInv
<1>4. ASSUME NEW b \in Block, b.parent \in DOMAIN tree, StartExecution(b),
             gossip' \in {gossip, None}, b.number = tree[b.parent].number + 1
      PROVE  HeightInv'
  <2>1. [parent |-> b.parent, number |-> b.number] \in PreHeader
    BY DEF Block, PreHeader
  <2>2. storage'.db.height = b.number
    BY <1>4, <2>1, TreeType, OpenBlockType, SMTT(30) DEF StartExecution
  <2> QED BY <1>4, <2>2 DEF StartExecution, HeightInv
<1>5. CASE ReceiveAuthored
  BY <1>4, <1>5 DEF ReceiveAuthored, TypeInv, TypeOK, Anchored, HeightInv
<1>6. ASSUME NEW p \in DOMAIN tree, NEW e \in Extrinsics, ReceiveForeign(p, e) PROVE HeightInv'
  <2>1. Foreign(p, e).number = tree[p].number + 1
    BY DEF Foreign
  <2> QED BY <1>4, <1>6, <2>1, ForeignType DEF ReceiveForeign
<1>7. CASE ExecuteExtrinsic
  <2>1. storage \in Storage /\ storage.db \in Db /\ Current \in Hash /\ task # "idle"
    BY <1>7, CurrentType DEF ExecuteExtrinsic, Executing
  <2>2. storage'.db.height = storage.db.height
    BY <1>7, <2>1, ApplyHeight DEF ExecuteExtrinsic, Storage
  <2> QED BY <1>7, <2>1, <2>2 DEF ExecuteExtrinsic, HeightInv
<1>8. CASE AcceptBlock
  <2> DEFINE node == [parent |-> block.parent, number |-> block.number,
                      extrinsics |-> block.extrinsics,
                      storage |-> FinishExecution(storage), ledger |-> ledger]
  <2>1. tree' = Append(tree, node) /\ Rest /\ gossip' = gossip /\ task # "idle"
    BY <1>8 DEF AcceptBlock, Executed
  <2>2. node.storage.db.height = node.number
    BY <2>1 DEF FinishExecution, HeightInv
  <2>3. tree \in Seq(Imported) /\ (gossip # None => gossip.parent \in DOMAIN tree)
    BY DEF TypeInv, TypeOK, Anchored
  <2> HIDE DEF node
  <2>4. /\ \A n \in DOMAIN tree' : tree'[n] = node \/ (n \in DOMAIN tree /\ tree'[n] = tree[n])
        /\ \A n \in DOMAIN tree : tree'[n] = tree[n]
    BY <2>1, <2>3
  <2> QED BY <2>1, <2>2, <2>3, <2>4 DEF Rest, HeightInv
<1>9. CASE Panic /\ task = "importing"
  BY <1>9 DEF Panic, HeightInv
<1>10. CASE Discard
  BY <1>10 DEF Discard, Rest, HeightInv
<1>11. CASE UNCHANGED vars
  BY <1>11 DEF vars, HeightInv
<1> QED BY <1>1, <1>2, <1>3, <1>5, <1>6, <1>7, <1>8, <1>9, <1>10, <1>11
        DEF Next, PushInherent, PushTransaction, PanicOnExtrinsic, PanicOnRoots, Executing, Executed

-----------------------------------------------------------------------------
(* The refinement.                                                         *)

(* The branches are those of the imported blocks.                          *)
LEMMA BranchesSame == tree' = tree => Branches' = Branches
BY DEF Branches

(* A transaction that applies in the executive applies in the ledger.      *)
LEMMA ApplyImplements ==
    ASSUME NEW st \in Storage, NEW h \in Hash, ApplyTuxedoTransaction(st.db, h).error = "none"
    PROVE  /\ InputRefs(h) \cup PeekRefs(h) \subseteq {ref \in OutputRef : st.db.utxos[ref] # None}
           /\ DOMAIN CreatedOutputs(h) \cap {ref \in OutputRef : st.db.utxos[ref] # None} = {}
           /\ \A ref \in InputRefs(h) : UnlockedBy(h, ref, st.db.utxos[ref], st.db.height)
           /\ ApplyTuxedoTransaction(st.db, h).db.utxos
                = [ref \in OutputRef |-> IF ref \in DOMAIN CreatedOutputs(h)
                                         THEN CreatedOutputs(h)[ref]
                                         ELSE IF ref \in InputRefs(h) THEN None
                                         ELSE st.db.utxos[ref]]
           /\ ApplyTuxedoTransaction(st.db, h).db.height = st.db.height
<1> DEFINE db == st.db
           new == ApplyTuxedoTransaction(st.db, h).db
<1>1. db \in Db
  BY DEF Storage
<1>2. /\ Body[h].inputs \in Seq(Input) /\ Body[h].peeks \in Seq(OutputRef)
  BY ConstantsAssumption DEF Transaction
<1>3. InputRefs(h) \subseteq OutputRef
  <2>1. \A i \in DOMAIN Body[h].inputs : Body[h].inputs[i] \in Input
    BY <1>2
  <2>2. \A i \in DOMAIN Body[h].inputs : Body[h].inputs[i].output_ref \in OutputRef
    BY <2>1 DEF Input
  <2> QED BY <2>2 DEF InputRefs, RefsOf
<1>4. PeekRefs(h) \subseteq OutputRef
  BY <1>2 DEF PeekRefs
<1>5. /\ ~VerifierRejects(db, h) /\ ~HasPreExistingOutput(db, h) /\ MissingInputs(db, h) = {}
      /\ \A ref \in OutputRef :
            new.utxos[ref] = IF ref \in OutputRefs(h) THEN Body[h].outputs[ref.index + 1]
                             ELSE IF ref \in RefsOf(Body[h].inputs) THEN None
                             ELSE db.utxos[ref]
  BY <1>1, ApplyEffect
<1>6. new \in Db /\ new.height = db.height
  BY <1>1, ApplyType, ApplyHeight
<1>7. InputRefs(h) \cup PeekRefs(h) \subseteq {ref \in OutputRef : db.utxos[ref] # None}
  BY <1>3, <1>4, <1>5 DEF MissingInputs, PeekUtxo, InputRefs
<1>8. DOMAIN CreatedOutputs(h) \cap {ref \in OutputRef : db.utxos[ref] # None} = {}
  BY SMTT(60), <1>5 DEF HasPreExistingOutput, PeekUtxo, CreatedOutputs
<1>9. ASSUME NEW ref \in InputRefs(h) PROVE UnlockedBy(h, ref, db.utxos[ref], db.height)
  BY Zenon, <1>5, <1>7 DEF VerifierRejects, PeekUtxo, UnlockedBy
<1>10. new.utxos = [ref \in OutputRef |-> IF ref \in DOMAIN CreatedOutputs(h)
                                          THEN CreatedOutputs(h)[ref]
                                          ELSE IF ref \in InputRefs(h) THEN None
                                          ELSE db.utxos[ref]]
  <2>1. \A ref \in OutputRef :
           new.utxos[ref] = IF ref \in DOMAIN CreatedOutputs(h) THEN CreatedOutputs(h)[ref]
                            ELSE IF ref \in InputRefs(h) THEN None ELSE db.utxos[ref]
    BY <1>5 DEF CreatedOutputs, InputRefs
  <2>2. new.utxos \in [OutputRef -> Output \cup {None}]
    BY <1>6 DEF Db
  <2> HIDE DEF new
  <2> QED BY <2>1, <2>2
<1> QED BY <1>6, <1>7, <1>8, <1>9, <1>10

(* Opening a block, to build or to execute it, forks the parent's state.   *)
LEMMA ForkImplements ==
    ASSUME TypeInv, HeightInv, NEW p \in DOMAIN tree, NEW header \in PreHeader,
           header.number = tree[p].number + 1, task = "idle", task' # "idle", tree' = tree,
           storage' = OpenBlock(tree[p].storage, header)
    PROVE  Abstract!Fork(p)
<1>1. /\ storage'.db.utxos = tree[p].storage.db.utxos
      /\ storage'.db.height = tree[p].storage.db.height + 1
  BY TreeType, OpenBlockType DEF HeightInv
<1>2. Working = None
  BY DEF Working
<1>3. Working' = [utxos |-> storage'.db.utxos, height |-> storage'.db.height]
  BY DEF Working
<1>4. Branches[p] = [utxos |-> tree[p].storage.db.utxos, height |-> tree[p].storage.db.height]
  BY DEF Branches
<1>5. Working' = [utxos |-> Branches[p].utxos, height |-> Branches[p].height + 1]
  BY <1>1, <1>3, <1>4, SMTT(30)
<1> QED BY <1>2, <1>5, BranchesSame DEF Abstract!Fork

(* The overlay of a task is a working copy.                                *)
LEMMA WorkingType ==
    ASSUME TypeInv, task # "idle"
    PROVE  /\ Working = [utxos |-> storage.db.utxos, height |-> storage.db.height]
           /\ Working # None
<1>1. storage.db \in Db
  BY DEF TypeInv, TypeOK, Storage
<1>2. Working = [utxos |-> storage.db.utxos, height |-> storage.db.height]
  BY DEF Working
<1>3. Working \in [utxos : [OutputRef -> Output \cup {None}], height : Nat]
  BY <1>1, <1>2 DEF Db
<1> QED BY <1>2, <1>3, WorkingAssumption

(* Applying a transaction to the overlay is a step of the ledger.          *)
LEMMA ApplyStep ==
    ASSUME TypeInv, NEW h \in Hash, task # "idle", task' = task, tree' = tree,
           ApplyTuxedoTransaction(storage.db, h).error = "none",
           storage'.db = ApplyTuxedoTransaction(storage.db, h).db
    PROVE  Abstract!Apply(h)
<1>1. Working = [utxos |-> storage.db.utxos, height |-> storage.db.height] /\ Working # None
  BY WorkingType
<1>2. Working' = [utxos |-> storage'.db.utxos, height |-> storage'.db.height]
  BY DEF Working
<1>3. storage \in Storage
  BY DEF TypeInv, TypeOK
<1>4. Working.utxos = storage.db.utxos /\ Working.height = storage.db.height
  BY <1>1
<1>5. Abstract!Present(Working.utxos) = {ref \in OutputRef : storage.db.utxos[ref] # None}
  BY <1>4 DEF Abstract!Present
<1>6. /\ InputRefs(h) \cup PeekRefs(h) \subseteq Abstract!Present(Working.utxos)
      /\ DOMAIN CreatedOutputs(h) \cap Abstract!Present(Working.utxos) = {}
      /\ \A ref \in InputRefs(h) : UnlockedBy(h, ref, Working.utxos[ref], Working.height)
  BY Zenon, <1>3, <1>4, <1>5, ApplyImplements
<1>7. Working' = [utxos |-> [ref \in OutputRef |-> IF ref \in DOMAIN CreatedOutputs(h)
                                                    THEN CreatedOutputs(h)[ref]
                                                    ELSE IF ref \in InputRefs(h) THEN None
                                                    ELSE Working.utxos[ref]],
                  height |-> Working.height]
  <2>1. PICK db : db = ApplyTuxedoTransaction(storage.db, h).db
    BY Zenon
  <2>2. /\ db.utxos = [ref \in OutputRef |-> IF ref \in DOMAIN CreatedOutputs(h)
                                             THEN CreatedOutputs(h)[ref]
                                             ELSE IF ref \in InputRefs(h) THEN None
                                             ELSE storage.db.utxos[ref]]
        /\ db.height = storage.db.height
    BY Zenon, <1>3, <2>1, ApplyImplements
  <2>3. storage'.db = db
    BY Zenon, <2>1
  <2> QED BY Zenon, <1>2, <1>4, <2>2, <2>3
<1> QED BY <1>1, <1>6, <1>7, BranchesSame DEF Abstract!Apply

(* Every step is a step of the ledger or leaves branches and copy alone.   *)
LEMMA RefinementStep ==
    TypeInv /\ HeightInv /\ [Next]_vars => [Abstract!Next]_(Abstract!vars)
<1> SUFFICES ASSUME TypeInv, HeightInv, [Next]_vars
             PROVE  Abstract!Next \/ UNCHANGED <<Branches, Working>>
  BY DEF Abstract!vars
<1>0. DOMAIN Branches = DOMAIN tree
  BY DEF Branches
<1>1. ASSUME NEW p \in DOMAIN tree, StartAuthoring(p) PROVE Abstract!Next
  <2>1. Child(p) \in PreHeader /\ Child(p).number = tree[p].number + 1
    BY TreeType DEF Child, PreHeader
  <2>2. Abstract!Fork(p)
    BY <1>1, <2>1, ForkImplements DEF StartAuthoring
  <2> QED BY <1>0, <2>2 DEF Abstract!Next
<1>2. ASSUME NEW b \in Block, b.parent \in DOMAIN tree, StartExecution(b),
             b.number = tree[b.parent].number + 1
      PROVE  Abstract!Next
  <2>1. [parent |-> b.parent, number |-> b.number] \in PreHeader
    BY DEF Block, PreHeader
  <2>2. Abstract!Fork(b.parent)
    BY <1>2, <2>1, ForkImplements DEF StartExecution
  <2> QED BY <1>0, <1>2, <2>2 DEF Abstract!Next
<1>3. CASE ReceiveAuthored
  BY <1>2, <1>3 DEF ReceiveAuthored, TypeInv, TypeOK, Anchored, HeightInv
<1>4. ASSUME NEW p \in DOMAIN tree, NEW e \in Extrinsics, ReceiveForeign(p, e) PROVE Abstract!Next
  <2>1. Foreign(p, e).number = tree[p].number + 1
    BY DEF Foreign
  <2> QED BY <1>2, <1>4, <2>1, ForeignType DEF ReceiveForeign
<1>5. ASSUME NEW h \in Hash, Push(h) PROVE Abstract!Next \/ UNCHANGED <<Branches, Working>>
  <2>1. task # "idle" /\ task' = task /\ tree' = tree
    BY <1>5 DEF Push
  <2>2. CASE ApplyExtrinsic(storage, h).error = "none"
    <3>1. /\ ApplyTuxedoTransaction(storage.db, h).error = "none"
          /\ storage'.db = ApplyTuxedoTransaction(storage.db, h).db
      BY <1>5, <2>2 DEF Push, ApplyExtrinsic
    <3>2. Abstract!Apply(h)
      BY <2>1, <3>1, ApplyStep
    <3> QED BY <3>2 DEF Abstract!Next
  <2>3. CASE ApplyExtrinsic(storage, h).error # "none"
    BY <1>5, <2>1, <2>3, BranchesSame DEF Push, Working
  <2> QED BY <2>2, <2>3
<1>6. CASE ExecuteExtrinsic
  <2>1. storage \in Storage /\ Current \in Hash /\ task # "idle"
    BY <1>6, CurrentType DEF ExecuteExtrinsic, Executing
  <2>2. Abstract!Apply(Current)
    BY <1>6, <2>1, ApplyStep DEF ExecuteExtrinsic, Storage
  <2> QED BY <2>1, <2>2 DEF Abstract!Next
<1>7. CASE AcceptBlock
  <2> DEFINE node == [parent |-> block.parent, number |-> block.number,
                      extrinsics |-> block.extrinsics,
                      storage |-> FinishExecution(storage), ledger |-> ledger]
  <2>1. tree' = Append(tree, node) /\ task # "idle" /\ task' = "idle"
    BY <1>7 DEF AcceptBlock, Executed, Rest
  <2>2. tree \in Seq(Imported)
    BY DEF TypeInv, TypeOK
  <2>3. node.storage.db = storage.db
    BY DEF FinishExecution
  <2>4. Working # None /\ Working = [utxos |-> storage.db.utxos, height |-> storage.db.height]
    BY <2>1, WorkingType
  <2> HIDE DEF node
  <2>5. Branches' = Append(Branches, Working)
    <3>1. /\ Len(tree) \in Nat /\ DOMAIN tree = 1 .. Len(tree)
          /\ DOMAIN tree' = 1 .. Len(tree) + 1
          /\ \A n \in 1 .. Len(tree) : tree'[n] = tree[n]
          /\ tree'[Len(tree) + 1] = node
      BY <2>1, <2>2
    <3>2. Branches = [n \in 1 .. Len(tree) |-> [utxos |-> tree[n].storage.db.utxos,
                                                height |-> tree[n].storage.db.height]]
      BY <3>1 DEF Branches
    <3>3. Branches' = [n \in 1 .. Len(tree) + 1 |-> [utxos |-> tree'[n].storage.db.utxos,
                                                     height |-> tree'[n].storage.db.height]]
      BY <3>1 DEF Branches
    <3>4. Branches' = [n \in 1 .. Len(tree) + 1 |-> IF n = Len(tree) + 1 THEN Working
                                                     ELSE Branches[n]]
      BY <2>3, <2>4, <3>1, <3>2, <3>3, SMTT(30)
    <3>5. Len(Branches) = Len(tree)
      BY <3>1, <3>2
    <3> QED BY <3>1, <3>2, <3>4, <3>5, SMTT(60)
  <2>6. Working' = None
    BY <2>1 DEF Working
  <2> QED BY <2>4, <2>5, <2>6 DEF Abstract!Next, Abstract!Commit
<1>8. CASE FinalizeBlock \/ Discard
  <2>1. task # "idle" /\ task' = "idle" /\ tree' = tree
    BY <1>8 DEF FinalizeBlock, Discard, Rest
  <2>2. Working # None /\ Working' = None
    BY <2>1, WorkingType DEF Working
  <2> QED BY <2>1, <2>2, BranchesSame DEF Abstract!Next, Abstract!Forget
<1>9. CASE Panic /\ task = "importing"
  BY <1>9, BranchesSame DEF Panic, Working
<1>10. CASE UNCHANGED vars
  BY <1>10, BranchesSame DEF vars, Working
<1> QED BY <1>1, <1>3, <1>4, <1>5, <1>6, <1>7, <1>8, <1>9, <1>10
        DEF Next, PushInherent, PushTransaction, PanicOnExtrinsic, PanicOnRoots, Executing, Executed

(* The genesis block is the only branch of the first state.                *)
LEMMA RefinementInit == Init => Abstract!Init
<1> SUFFICES ASSUME Init PROVE Abstract!Init
  OBVIOUS
<1> DEFINE node == [parent |-> 0, number |-> 0, extrinsics |-> GenesisTransactions,
                    storage |-> GenesisStorage, ledger |-> GenesisLedger]
           start == [utxos |-> GenesisStorage.db.utxos, height |-> 0]
<1>1. tree = <<node>> /\ Working = None
  BY DEF Init, Working
<1>2. node.storage = GenesisStorage /\ GenesisStorage.db.height = 0
  BY DEF GenesisStorage
<1> HIDE DEF node
<1>3. DOMAIN tree = {1} /\ tree[1] = node
  BY <1>1
<1>4. Branches = [n \in {1} |-> start]
  BY <1>2, <1>3 DEF Branches
<1> HIDE DEF start
<1>5. Branches = <<start>>
  BY <1>4
<1> QED BY <1>1, <1>5 DEF Abstract!Init, start

(* Authoring, pool and import together are a ledger of unspent outputs     *)
(* with branches: every step of Executive is a step of Ledger or changes   *)
(* nothing that Ledger speaks of.                                          *)
THEOREM LedgerRefinement == Spec => ImplementsLedger
BY TypeInit, TypeStep, HeightInit, HeightStep, RefinementInit, RefinementStep, PTL
   DEF Spec, ImplementsLedger, Abstract!Spec
=============================================================================
