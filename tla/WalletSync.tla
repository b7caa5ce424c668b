----------------------------- MODULE WalletSync -----------------------------
(***************************************************************************)
(* The wallet's database and its synchronisation with a node               *)
(* (wallet/src/sync.rs, started from wallet/src/main.rs).                  *)
(*                                                                         *)
(* The database is written one table entry at a time and a crash may come  *)
(* between any two writes; the node may switch to another branch, on to a  *)
(* longer chain or back to a shorter one, and a call to it may fail.  An   *)
(* output is named by its reference, which is the hash of its transaction  *)
(* and so fixes its owner and amount: the tables of outputs are sets of    *)
(* references.                                                             *)
(***************************************************************************)
EXTENDS Naturals, Integers, Sequences, FiniteSets, SequencesExt

CONSTANTS
    Block, Genesis, Parent,  \* the tree of blocks, known by their hashes
    Txs,                     \* Txs[b]: the extrinsics of block b
    Tx, Ref,                 \* transactions and output references
    Inputs,                  \* Inputs[t]: the references t consumes
    Outputs,                 \* Outputs[t]: the references t creates
    Coins,                   \* references to coins that the filter keeps
    Timestamps,              \* references to timestamps
    None,
    MovesDuringSync,         \* whether the node may move while the wallet runs
    MaxNumber,               \* bound: the highest block number
    MaxFailures, MaxCrashes, \* bounds: failed calls and crashes
    MaxMoves                 \* bound: changes of the node's best block

ASSUME TreeAssumption ==
    /\ Genesis \in Block /\ None \notin Block /\ None \notin Ref
    /\ Parent \in [Block \ {Genesis} -> Block]
    /\ Txs \in [Block -> Seq(Tx)]
    /\ Inputs \in [Tx -> Seq(Ref)] /\ Outputs \in [Tx -> Seq(Ref)]
    /\ Coins \subseteq Ref /\ Timestamps \subseteq Ref \ Coins
    /\ MaxNumber \in Nat /\ MaxFailures \in Nat /\ MaxCrashes \in Nat /\ MaxMoves \in Nat
    /\ MovesDuringSync \in BOOLEAN
    \* The numbers of headers.
    /\ \E number \in [Block -> 0 .. MaxNumber] :
           /\ number[Genesis] = 0
           /\ \A b \in Block \ {Genesis} : number[b] = number[Parent[b]] + 1

-----------------------------------------------------------------------------
(* Chains, and what a wallet should hold.                                  *)

Path[b \in Block] == IF b = Genesis THEN <<b>> ELSE Append(Path[Parent[b]], b)

Number(b) == Len(Path[b]) - 1

Extrinsics(b) == FlattenSeq([n \in DOMAIN Path[b] |-> Txs[Path[b][n]]])

\* The coins of the user on the chain that ends in b.
Owned(b) ==
    FoldLeft(LAMBDA coins, t : (coins \cup (Range(Outputs[t]) \cap Coins)) \ Range(Inputs[t]),
             {}, Extrinsics(b))

\* The last timestamp on the chain that ends in b.
TimeAt(b) ==
    FoldLeft(LAMBDA time, ref : IF ref \in Timestamps THEN ref ELSE time,
             None, FlattenSeq([n \in DOMAIN Extrinsics(b) |-> Outputs[Extrinsics(b)[n]]]))

-----------------------------------------------------------------------------
VARIABLES
    best,       \* the node's best block
    hashes,     \* BLOCK_HASHES: number => hash
    blocks,     \* BLOCKS: the hashes of the stored blocks
    unspent,    \* UNSPENT
    spent,      \* SPENT
    timestamp,  \* TIMESTAMP
    exists,     \* a database was created on disk
    pc,         \* where the wallet process is
    height,     \* the loop variable of synchronize_helper
    hash,       \* the hash of the block to fetch
    todo,       \* the writes ahead of the next call to the node
    failures, crashes, moves,
    nodeMoved,  \* history: the node has moved while the wallet was running
    rolledBack  \* history: a block was unapplied since TIMESTAMP was written

tables == <<hashes, blocks, unspent, spent, timestamp>>
process == <<pc, height, hash, todo>>
events == <<failures, crashes, moves, nodeMoved>>
vars == <<best, tables, exists, process, events, rolledBack>>

\* chain_getBlockHash: the block of the node's best chain at a height.
NodeHash(n) == IF n < Len(Path[best]) THEN Path[best][n + 1] ELSE None

\* The best height is the number of entries less one, -1 for an empty table.
Height == Cardinality({n \in 0 .. MaxNumber : hashes[n] # None}) - 1

-----------------------------------------------------------------------------
(* The writes of apply_block and unapply_highest_block, in order.          *)

Do(op, arg) == [op |-> op, arg |-> arg]

\* Coins of any owner pass the filter.
ApplyTransactionUnfiltered(t) ==
    [n \in DOMAIN Outputs[t] |-> IF Outputs[t][n] \in Timestamps THEN Do("time", Outputs[t][n])
                                 ELSE Do("add", Outputs[t][n])]
    \o [n \in DOMAIN Inputs[t] |-> Do("spend", Inputs[t][n])]

\* add_unspent_output for a coin that passes the filter, the timestamp for a
\* timestamp, nothing for another output.
ApplyOutput(ref) ==
    IF ref \in Coins THEN <<Do("add", ref)>>
    ELSE IF ref \in Timestamps THEN <<Do("time", ref)>> ELSE <<>>

\* The outputs, then spend_output for the inputs.
ApplyTransaction(t) ==
    FlattenSeq([n \in DOMAIN Outputs[t] |-> ApplyOutput(Outputs[t][n])])
    \o [n \in DOMAIN Inputs[t] |-> Do("spend", Inputs[t][n])]

ApplyBlock(b) ==
    <<Do("put_hash", b), Do("put_block", b)>>
    \o FlattenSeq([n \in DOMAIN Txs[b] |-> ApplyTransaction(Txs[b][n])])

UnapplyTransaction(t) ==
    [n \in DOMAIN Inputs[t] |-> Do("unspend", Inputs[t][n])]
    \o [n \in DOMAIN Outputs[t] |-> Do("drop", Outputs[t][n])]

\* The loop without rev().
UnapplyBlockForwards(b) ==
    <<Do("take_hash", b), Do("take_block", b)>>
    \o FlattenSeq([n \in DOMAIN Txs[b] |-> UnapplyTransaction(Txs[b][n])])

\* The block is taken, and found missing, before its hash.
UnapplyBlockFirst(b) ==
    <<Do("take_block", b), Do("take_hash", b)>>
    \o FlattenSeq([n \in DOMAIN Txs[b] |-> UnapplyTransaction(Reverse(Txs[b])[n])])

UnapplyBlock(b) ==
    <<Do("take_hash", b), Do("take_block", b)>>
    \o FlattenSeq([n \in DOMAIN Txs[b] |-> UnapplyTransaction(Reverse(Txs[b])[n])])

\* One write.  spend_output and unspend_output are two: a removal and, when
\* something was removed, an insertion.  A missing block is an error that
\* ends the process.
Write ==
    /\ todo # <<>>
    /\ LET op == Head(todo).op
           arg == Head(todo).arg
           rest == Tail(todo)
           moved == \/ op = "spend" /\ arg \in unspent
                    \/ op = "unspend" /\ arg \in spent
           corrupt == op = "take_block" /\ arg \notin blocks
       IN  /\ hashes' = CASE op = "put_hash"  -> [hashes EXCEPT ![Number(arg)] = arg]
                          [] op = "take_hash" -> [hashes EXCEPT ![Height] = None]
                          [] OTHER            -> hashes
           /\ blocks' = CASE op = "put_block"  -> blocks \cup {arg}
                          [] op = "take_block" -> blocks \ {arg}
                          [] OTHER             -> blocks
           /\ unspent' = CASE op = "add"              -> unspent \cup {arg}
                           [] op \in {"spend", "drop"} -> unspent \ {arg}
                           [] OTHER                   -> unspent
           /\ spent' = CASE op = "put_spent" -> spent \cup {arg}
                         [] op = "unspend"   -> spent \ {arg}
                         [] OTHER            -> spent
           /\ timestamp' = IF op = "time" THEN arg ELSE timestamp
           /\ rolledBack' = (op = "take_hash" \/ (rolledBack /\ op # "time"))
           /\ todo' = IF corrupt THEN <<>>
                      ELSE IF moved THEN <<Do(IF op = "spend" THEN "put_spent" ELSE "add", arg)>> \o rest
                      ELSE rest
           /\ pc' = IF corrupt THEN "down" ELSE pc
    /\ UNCHANGED <<best, exists, height, hash, events>>

-----------------------------------------------------------------------------
(* The wallet process.                                                     *)

\* An empty table gets the genesis block.
OpenDb == IF Height = -1 THEN <<Do("put_hash", Genesis), Do("put_block", Genesis)>> ELSE <<>>

\* main up to the synchronisation.  The genesis transactions are applied only
\* to a database that was not on disk before (was_recovered).
Open ==
    /\ pc = "down"
    /\ todo' = OpenDb \o (IF exists THEN <<>> ELSE ApplyBlock(Genesis))
    /\ exists' = TRUE
    /\ pc' = "open"
    /\ UNCHANGED <<best, tables, height, hash, events, rolledBack>>

\* --no-sync.
SkipSync ==
    /\ pc = "open" /\ todo = <<>>
    /\ pc' = "down"
    /\ UNCHANGED <<best, tables, exists, height, hash, todo, events, rolledBack>>

BeginSync ==
    /\ pc = "open" /\ todo = <<>>
    /\ height' = Height
    /\ pc' = "compare"
    /\ UNCHANGED <<best, tables, exists, hash, todo, events, rolledBack>>

Calling(where) == pc = where /\ todo = <<>>

\* One test of the loop that goes back to the common ancestor.
CompareKeepingHeight ==
    /\ Calling("compare") /\ height \in 0 .. MaxNumber /\ hashes[height] # None
    /\ IF hashes[height] = NodeHash(height)
       THEN pc' = "ask" /\ height' = height + 1 /\ UNCHANGED todo
       ELSE todo' = UnapplyBlock(hashes[Height]) /\ UNCHANGED <<pc, height>>
    /\ UNCHANGED <<best, tables, exists, hash, events, rolledBack>>

Compare ==
    /\ Calling("compare") /\ height \in 0 .. MaxNumber /\ hashes[height] # None
    /\ IF hashes[height] = NodeHash(height)
       THEN pc' = "ask" /\ height' = height + 1 /\ UNCHANGED todo
       ELSE todo' = UnapplyBlock(hashes[Height]) /\ height' = height - 1 /\ UNCHANGED pc
    /\ UNCHANGED <<best, tables, exists, hash, events, rolledBack>>

\* The forward loop stops one block early.
AskHashAhead ==
    /\ Calling("ask")
    /\ hash' = NodeHash(height)
    /\ pc' = IF NodeHash(height + 1) = None THEN "synced" ELSE "fetch"
    /\ UNCHANGED <<best, tables, exists, height, todo, events, rolledBack>>

AskHash ==
    /\ Calling("ask")
    /\ hash' = NodeHash(height)
    /\ pc' = IF NodeHash(height) = None THEN "synced" ELSE "fetch"
    /\ UNCHANGED <<best, tables, exists, height, todo, events, rolledBack>>

\* A node can return any block it ever named; if it has lost it, the expect() of the
\* wallet panics, which is a Crash.
FetchBlock ==
    /\ Calling("fetch")
    /\ todo' = ApplyBlock(hash)
    /\ height' = height + 1
    /\ pc' = "ask"
    /\ UNCHANGED <<best, tables, exists, hash, events, rolledBack>>

\* The command is run and the process ends.
Exit ==
    /\ pc = "synced"
    /\ pc' = "down"
    /\ UNCHANGED <<best, tables, exists, height, hash, todo, events, rolledBack>>

\* An error from the node ends the process between two calls.
CallFails ==
    /\ \E where \in {"compare", "ask", "fetch"} : Calling(where)
    /\ failures < MaxFailures
    /\ failures' = failures + 1
    /\ pc' = "down"
    /\ UNCHANGED <<best, tables, exists, height, hash, todo, crashes, moves, nodeMoved, rolledBack>>

\* The writes made so far stay.
Crash ==
    /\ pc # "down"
    /\ crashes < MaxCrashes
    /\ crashes' = crashes + 1
    /\ pc' = "down"
    /\ todo' = <<>>
    /\ UNCHANGED <<best, tables, exists, height, hash, failures, moves, nodeMoved, rolledBack>>

\* The node imports blocks and reorganises, or its operator reverts it, or the
\* user turns to another one: its best block may be any other.
NodeMoves ==
    /\ pc = "down" \/ MovesDuringSync
    /\ moves < MaxMoves
    /\ moves' = moves + 1
    /\ best' \in Block \ {best}
    /\ nodeMoved' = (nodeMoved \/ pc # "down")
    /\ UNCHANGED <<tables, exists, process, failures, crashes, rolledBack>>

Init ==
    /\ best = Genesis
    /\ hashes = [n \in 0 .. MaxNumber |-> None]
    /\ blocks = {} /\ unspent = {} /\ spent = {}
    /\ timestamp = None
    /\ exists = FALSE
    /\ pc = "down" /\ height = 0 /\ hash = None /\ todo = <<>>
    /\ failures = 0 /\ crashes = 0 /\ moves = 0
    /\ nodeMoved = FALSE /\ rolledBack = FALSE

Sync == Write \/ Open \/ BeginSync \/ Compare \/ AskHash \/ FetchBlock \/ Exit

Next == Sync \/ SkipSync \/ CallFails \/ Crash \/ NodeMoves

\* The user keeps running the wallet, and does not forever skip the
\* synchronisation.
Spec == Init /\ [][Next]_vars /\ WF_vars(Sync) /\ SF_vars(BeginSync)

-----------------------------------------------------------------------------
(* Properties.                                                             *)

(* Every table keeps its type, and the loop variable stays a block number  *)
(* or one above (a u32 that is decremented).                               *)
TypeOK ==
    /\ best \in Block
    /\ hashes \in [0 .. MaxNumber -> Block \cup {None}]
    /\ blocks \subseteq Block
    /\ unspent \subseteq Coins /\ spent \subseteq Coins
    /\ timestamp \in Timestamps \cup {None}
    /\ exists \in BOOLEAN
    /\ pc \in {"down", "open", "compare", "ask", "fetch", "synced"}
    /\ height \in 0 .. MaxNumber + 1
    /\ hash \in Block \cup {None}
    /\ todo \in Seq([op : {"put_hash", "put_block", "add", "time", "spend", "put_spent",
                           "take_hash", "take_block", "unspend", "drop"},
                     arg : Block \cup Ref])
    /\ failures \in 0 .. MaxFailures /\ crashes \in 0 .. MaxCrashes /\ moves \in 0 .. MaxMoves
    /\ nodeMoved \in BOOLEAN /\ rolledBack \in BOOLEAN

\* The wallet's own best block.
Top == hashes[Height]

\* The process was never killed and the node never moved under it.
Undisturbed == crashes = 0 /\ ~nodeMoved

(* Undisturbed by crashes and by moves of the node in the middle of a      *)
(* synchronisation, the tables are those of one chain whenever the wallet  *)
(* is about to call the node, or is not running: the blocks are linked     *)
(* from genesis to its best block and the unspent table is what the user   *)
(* owns there, however apply_block and unapply_highest_block were mixed    *)
(* and whichever call to the node failed.                                  *)
WalletHoldsChain ==
    Undisturbed /\ todo = <<>> /\ exists =>
        /\ \A n \in 0 .. MaxNumber :
              hashes[n] = IF n <= Number(Top) THEN Path[Top][n + 1] ELSE None
        /\ blocks = Range(Path[Top])
        /\ unspent = Owned(Top)

(* When synchronize_helper returns undisturbed, the wallet is at the       *)
(* node's best block, wherever the node went meanwhile.  The stored        *)
(* timestamp is the last one of that chain, unless blocks were unapplied   *)
(* and nothing wrote a timestamp since: a rollback does not restore it.    *)
SyncedToBest ==
    Undisturbed /\ pc = "synced" => Top = best /\ (rolledBack \/ timestamp = TimeAt(best))

(* The number of entries tells the best height, which height() relies on,  *)
(* and the loops of synchronize_helper stay in step with it: no expect()   *)
(* fails and no block is unapplied other than the one compared, even after *)
(* crashes between any two writes and moves of the node between any two    *)
(* calls.                                                                  *)
HeightIsBest ==
    /\ \A n \in 0 .. MaxNumber : hashes[n] # None <=> n <= Height
    /\ Calling("compare") => height = Height /\ hashes[height] # None
    /\ Calling("ask") \/ Calling("fetch") => height = Height + 1

(* The wallet catches up again and again: no rollback, failed call, crash  *)
(* or corrupt block leaves a database that synchronize_helper can never    *)
(* bring to the node's best block, once the node stays where it is.        *)
AlwaysCatchesUp == []<>(pc = "synced" /\ Top = best)

(* "Orphaned blocks (if any) have been discarded at this point": when the  *)
(* backward loop ends, every block of the wallet is on the node's chain.   *)
OrphansDiscarded ==
    [][pc = "compare" /\ pc' = "ask" =>
        \A n \in 0 .. Height : hashes[n] = NodeHash(n)]_vars

=============================================================================
