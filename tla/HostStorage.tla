---------------------------- MODULE HostStorage ----------------------------
(***************************************************************************)
(* What a runtime expects of the storage host functions of sp_io: a map    *)
(* from keys to values, and nested transactions that restore it.  A key is *)
(* the storage it belongs to, the main one or a child, and a name.         *)
(***************************************************************************)
EXTENDS Integers, Sequences

CONSTANTS
    Key,            \* pairs of a storage and a name, a number
    Item,           \* what is appended to values; a value is a sequence of them
    MaxLen,         \* bound: length of a value
    MaxDepth        \* bound: open transactions

None == [some |-> FALSE]
Some(v) == [some |-> TRUE, value |-> v]

Value == UNION {[1 .. n -> Item] : n \in 0 .. MaxLen}

VARIABLES
    store,          \* the map; None where there is no value
    saved,          \* the maps at the start of the open transactions
    answer          \* the last call and what it returned

hostVars == <<store, saved, answer>>

\* Least name of the same storage that follows and has a value.
NextKey(map, key) ==
    LET after == {k \in Key : k[1] = key[1] /\ k[2] > key[2] /\ map[k].some}
    IN  IF after = {} THEN None
        ELSE Some(CHOOSE k \in after : \A other \in after : k[2] <= other[2])

\* The part of a value a caller with a buffer of that size gets from an offset.
Part(value, offset, size) ==
    <<Len(value), [i \in 1 .. (IF offset + size <= Len(value) THEN size
                               ELSE IF offset <= Len(value) THEN Len(value) - offset ELSE 0)
                   |-> value[offset + i]]>>

Appended(old, item) == Some(Append(IF old.some THEN old.value ELSE <<>>, item))

HostInit ==
    /\ store \in [Key -> {None} \cup {Some(v) : v \in Value}]
    /\ saved = <<>> /\ answer = <<"none">>

Reads(key) ==
    /\ \/ answer' = <<"get", key, store[key]>>
       \/ answer' = <<"exists", key, store[key].some>>
       \/ answer' = <<"next_key", key, NextKey(store, key)>>
       \/ ~store[key].some /\ answer' = <<"read", key, None>>
       \/ store[key].some /\ \E offset, size \in 0 .. MaxLen :
              answer' = <<"read", key, offset, size, Some(Part(store[key].value, offset, size))>>
    /\ UNCHANGED <<store, saved>>

Writes(key) ==
    /\ \/ \E v \in Value : store' = [store EXCEPT ![key] = Some(v)]
       \/ store' = [store EXCEPT ![key] = None]
       \/ \E i \in Item : store' = [store EXCEPT ![key] = Appended(@, i)]
    /\ answer' = <<"none">> /\ UNCHANGED saved

Clears(keys) ==
    /\ store' = [k \in Key |-> IF k \in keys THEN None ELSE store[k]]
    /\ answer' = <<"none">> /\ UNCHANGED saved

\* The root is a digest of the whole map, or of a child storage.
Root ==
    /\ \/ answer' = <<"root", store>>
       \/ \E child \in {k[1] : k \in Key} :
              answer' = <<"child_root", child, [k \in {k \in Key : k[1] = child} |-> store[k]]>>
    /\ UNCHANGED <<store, saved>>

Starts == saved' = Append(saved, store) /\ answer' = <<"none">> /\ UNCHANGED store

Ends ==
    /\ saved # <<>>
    /\ \/ answer' = <<"commit">> /\ UNCHANGED store
       \/ answer' = <<"rollback">> /\ store' = saved[Len(saved)]
    /\ saved' = SubSeq(saved, 1, Len(saved) - 1)

HostNext ==
    \/ \E key \in Key : Reads(key) \/ Writes(key)
    \/ \E keys \in SUBSET Key : Clears(keys)
    \/ Root \/ Starts \/ Ends

HostSpec == HostInit /\ [][HostNext]_hostVars
=============================================================================
