------------------------- MODULE ValidationStorage -------------------------
(***************************************************************************)
(* The storage that validate_block puts in place of the host functions of  *)
(* sp_io (tuxedo-parachain-core/src/validate_block.rs, trie_cache.rs): the *)
(* nodes of a proof, a cache of the values read from them, and an overlay  *)
(* of the changes of the block with nested transactions.  The overlay and  *)
(* the trie are sp_state_machine's.                                        *)
(***************************************************************************)
EXTENDS Integers, Sequences

CONSTANTS
    Key, Item, MaxLen, MaxDepth,
    Parents,        \* states of the parent block, maps from Key
    Proofs,         \* sets of keys that a proof may have nodes for
    Prefixes,       \* sets of keys that clear_prefix and storage_kill name
    MaxCalls        \* bound: calls of the runtime

VARIABLES
    base,           \* the parent's state, as far as the proof has it
    proved,         \* the keys the proof has nodes for
    cache,          \* value_cache: by name alone
    overlay,        \* changes, one function for each level of transactions
    answer,         \* the last call and what it returned
    panicked,       \* whether validation gave up
    calls           \* number of calls

vars == <<base, proved, cache, overlay, answer, panicked, calls>>

Merged(b, o) == [k \in Key |->
    LET levels == {i \in 1 .. Len(o) : k \in DOMAIN o[i]}
    IN  IF levels = {} THEN b[k]
        ELSE o[CHOOSE i \in levels : \A j \in levels : j <= i][k]]

Host == INSTANCE HostStorage WITH
    store <- Merged(base, overlay),
    saved <- [i \in 1 .. Len(overlay) - 1 |-> Merged(base, SubSeq(overlay, 1, i))]

None == [some |-> FALSE]
Some(v) == [some |-> TRUE, value |-> v]
NoChanges == [k \in {} |-> None]
Names == {k[2] : k \in Key}

ASSUME ValidationStorageAssumption ==
    /\ \A k \in Key : k[2] \in Nat
    /\ Prefixes \subseteq SUBSET Key /\ Proofs \subseteq SUBSET Key
    /\ Parents \subseteq [Key -> {None} \cup {Some(v) : v \in Host!Value}]
    /\ MaxLen \in Nat \ {0} /\ MaxDepth \in Nat /\ MaxCalls \in Nat

\* run_with_externalities: an empty overlay and an empty cache on the nodes of the
\* proof, whose root is the parent's.
Init ==
    /\ base \in Parents
    /\ proved \in Proofs
    /\ cache = [n \in {} |-> None]
    /\ overlay = <<NoChanges>>
    /\ answer = <<"none">> /\ panicked = FALSE /\ calls = 0

Call == ~panicked /\ calls < MaxCalls /\ calls' = calls + 1 /\ UNCHANGED <<base, proved>>

-----------------------------------------------------------------------------
(* The backend, read through the cache.                                    *)

InOverlay(key) == \E i \in 1 .. Len(overlay) : key \in DOMAIN overlay[i]

\* A child storage has a trie once it has a key.
HasTrie(key) == key[1] = "main" \/ \E k \in Key : k[1] = key[1] /\ base[k].some

\* lookup_value_for_key, or else the node of the proof.
lookup_value_for_key(key) == IF key[2] \in DOMAIN cache THEN cache[key[2]] ELSE base[key]

cache_value_for_key(key, value) ==
    [n \in DOMAIN cache \cup {key[2]} |-> IF n = key[2] THEN value ELSE cache[n]]

\* A key with no node in the proof cannot be looked up, and the externalities may
\* not fail within a runtime.
Unreadable(key) ==
    ~InOverlay(key) /\ key \notin proved /\ (HasTrie(key) => key[2] \notin DOMAIN cache)

Storage(key) ==
    IF InOverlay(key) THEN Merged(base, overlay)[key]
    ELSE IF HasTrie(key) THEN lookup_value_for_key(key) ELSE None

\* What a read leaves in the cache.
CacheAfter(key) ==
    IF InOverlay(key) \/ ~HasTrie(key) THEN cache
    ELSE cache_value_for_key(key, lookup_value_for_key(key))

Panic(keys) ==
    /\ Call
    /\ \E k \in keys : Unreadable(k)
    /\ panicked' = TRUE
    /\ UNCHANGED <<cache, overlay, answer>>

-----------------------------------------------------------------------------
(* Reading.                                                                *)

Answers(key, a) ==
    /\ Call /\ ~Unreadable(key)
    /\ answer' = a
    /\ cache' = CacheAfter(key)
    /\ UNCHANGED <<overlay, panicked>>

host_storage_get(key) == Answers(key, <<"get", key, Storage(key)>>)

host_storage_exists(key) == Answers(key, <<"exists", key, Storage(key).some>>)

\* Mutant: the offset is left out.
SliceFromStart(value, offset, size) ==
    SubSeq(value, 1, IF Len(value) <= size THEN Len(value) ELSE size)

\* The bytes copied to the caller's buffer.
Slice(value, offset, size) ==
    LET from == IF offset <= Len(value) THEN offset ELSE Len(value)
        rest == SubSeq(value, from + 1, Len(value))
    IN  SubSeq(rest, 1, IF Len(rest) <= size THEN Len(rest) ELSE size)

host_storage_read(key, offset, size) ==
    Answers(key, IF Storage(key).some
                 THEN <<"read", key, offset, size,
                        Some(<<Len(Storage(key).value), Slice(Storage(key).value, offset, size)>>)>>
                 ELSE <<"read", key, None>>)

\* next_key walks the keys of the trie, which are not in the cache, and of the
\* overlay.
host_storage_next_key(key) ==
    /\ Call
    /\ \A k \in Key : k[1] = key[1] /\ k[2] > key[2] => k \in proved
    /\ answer' = <<"next_key", key, Host!NextKey(Merged(base, overlay), key)>>
    /\ UNCHANGED <<cache, overlay, panicked>>

\* Mutant: the value cache is enabled while the root is calculated.
RootCacheShared ==
    [n \in DOMAIN cache \cup {k[2] : k \in {k \in Key : InOverlay(k)}} |->
        IF \E k \in Key : k[2] = n /\ InOverlay(k)
        THEN Merged(base, overlay)[CHOOSE k \in Key : k[2] = n /\ InOverlay(k)]
        ELSE cache[n]]

\* as_trie_db_mut_cache: no value cache.
RootCache == cache

host_storage_root ==
    /\ Call /\ Key \subseteq proved
    /\ answer' = <<"root", Merged(base, overlay)>>
    /\ cache' = RootCache
    /\ UNCHANGED <<overlay, panicked>>

host_default_child_storage_root(child) ==
    LET keys == {k \in Key : k[1] = child}
    IN  /\ Call /\ keys \subseteq proved
        /\ answer' = <<"child_root", child, [k \in keys |-> Merged(base, overlay)[k]]>>
        /\ cache' = RootCache
        /\ UNCHANGED <<overlay, panicked>>

-----------------------------------------------------------------------------
(* Writing.                                                                *)

Depth == Len(overlay)
Changed(o, keys, v) == [k \in DOMAIN o \cup keys |-> IF k \in keys THEN v ELSE o[k]]

Place(keys, v) ==
    /\ overlay' = [overlay EXCEPT ![Depth] = Changed(@, keys, v)]
    /\ answer' = <<"none">>
    /\ UNCHANGED panicked

host_storage_set(key, value) == Call /\ Place({key}, Some(value)) /\ UNCHANGED cache

host_storage_clear(key) == Call /\ Place({key}, None) /\ UNCHANGED cache

\* The old value is read, unless the overlay has it.
host_storage_append(key, item) ==
    /\ Call /\ ~Unreadable(key)
    /\ Storage(key).some => Len(Storage(key).value) < MaxLen
    /\ Place({key}, Host!Appended(Storage(key), item))
    /\ cache' = CacheAfter(key)

\* clear_prefix and storage_kill without a limit: the keys of the trie and of the
\* overlay.
host_storage_clear_prefix(keys) ==
    /\ Call /\ keys \subseteq proved
    /\ Place({k \in keys : Merged(base, overlay)[k].some}, None)
    /\ UNCHANGED cache

-----------------------------------------------------------------------------
(* Transactions.                                                           *)

host_storage_start_transaction ==
    /\ Call /\ Depth <= MaxDepth
    /\ overlay' = Append(overlay, NoChanges)
    /\ answer' = <<"none">>
    /\ UNCHANGED <<cache, panicked>>

host_storage_rollback_transaction ==
    /\ Call /\ Depth > 1
    /\ overlay' = SubSeq(overlay, 1, Depth - 1)
    /\ answer' = <<"rollback">>
    /\ UNCHANGED <<cache, panicked>>

Committed(o) ==
    LET inner == o[Len(o)]
        outer == o[Len(o) - 1]
    IN  Append(SubSeq(o, 1, Len(o) - 2),
               [k \in DOMAIN inner \cup DOMAIN outer |->
                   IF k \in DOMAIN inner THEN inner[k] ELSE outer[k]])

host_storage_commit_transaction ==
    /\ Call /\ Depth > 1
    /\ overlay' = Committed(overlay)
    /\ answer' = <<"commit">>
    /\ UNCHANGED <<cache, panicked>>

\* Ending a transaction that was never started fails an expect().
NoTransaction ==
    /\ Call /\ Depth = 1
    /\ panicked' = TRUE
    /\ UNCHANGED <<cache, overlay, answer>>

-----------------------------------------------------------------------------
\* The functions that both kinds of storage have.
Functions(key) ==
    \/ host_storage_get(key) \/ host_storage_exists(key) \/ host_storage_next_key(key)
    \/ \E offset, size \in 0 .. MaxLen : host_storage_read(key, offset, size)
    \/ \E item \in Item : host_storage_set(key, <<item>>)
    \/ host_storage_clear(key)
    \/ Panic({key})

host_storage(key) ==
    /\ key[1] = "main"
    /\ Functions(key) \/ \E item \in Item : host_storage_append(key, item)

\* The functions of child storages build the ChildInfo and do the same with it.
host_default_child_storage(key) ==
    /\ key[1] # "main"
    /\ Functions(key) \/ host_default_child_storage_root(key[1])

Next ==
    \/ \E key \in Key : host_storage(key) \/ host_default_child_storage(key)
    \/ \E keys \in Prefixes : host_storage_clear_prefix(keys) \/ Panic(keys)
    \/ host_storage_root
    \/ host_storage_start_transaction \/ host_storage_rollback_transaction
    \/ host_storage_commit_transaction \/ NoTransaction

Spec == Init /\ [][Next]_vars

-----------------------------------------------------------------------------
(* Properties.                                                             *)

\* Until it gives up, everything a runtime can see of its storage in validate_block
\* is what the host functions of a node would have shown it: the answers of reads,
\* after any sequence of writes, nested transactions and calculations of the root.
ImplementsHost == Host!HostSpec

\* A key the block has not changed reads as the parent's state has it, from the
\* proof or from the cache, and so a transaction that is rolled back after a root
\* was calculated inside it leaves no trace.
UnchangedReadsParents ==
    \A k \in Key : ~InOverlay(k) /\ ~Unreadable(k) => Storage(k) = base[k]
=============================================================================
