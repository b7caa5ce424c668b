---------------------- MODULE ValidationStorageProofs ----------------------
(***************************************************************************)
(* Proof that validate_block's storage reads what a block has not changed  *)
(* as the parent's state, whatever the value cache holds.                  *)
(***************************************************************************)
EXTENDS ValidationStorage, FiniteSetTheorems, WellFoundedInduction, TLAPS

-----------------------------------------------------------------------------
(* Sets of numbers.                                                        *)

\* A set of numbers that is not empty has a least one.
LEMMA LeastNumber ==
    ASSUME NEW T \in SUBSET Nat, T # {}
    PROVE  \E m \in T : \A k \in T : m <= k
<1>1. \E R : IsWellFoundedOn(R, Nat) /\ \A x, y \in Nat : <<x, y>> \in R <=> x < y
    <2> DEFINE R == OpToRel(<, Nat)
    <2>1. IsWellFoundedOn(R, Nat)
        BY NatLessThanWellFounded
    <2>2. \A x, y \in Nat : <<x, y>> \in R <=> x < y
        BY DEF OpToRel
    <2> HIDE DEF R
    <2> QED  BY <2>1, <2>2
<1>2. PICK R : IsWellFoundedOn(R, Nat) /\ \A x, y \in Nat : <<x, y>> \in R <=> x < y
    BY <1>1
<1>3. T \subseteq Nat /\ IsWellFoundedOn(R, Nat)
    BY <1>2
<1>4. PICK m \in T : \A y \in T : ~(<<y, m>> \in R)
    BY <1>3, WFMin, Zenon
<1>5. ASSUME NEW k \in T PROVE m <= k
    <2>1. ~(k < m) /\ k \in Nat /\ m \in Nat
        BY <1>2, <1>3, <1>4
    <2> QED  BY <2>1
<1> QED  BY <1>5

\* A set of numbers with a bound that is not empty has a greatest one.
LEMMA GreatestNumber ==
    ASSUME NEW n \in Nat, NEW T \in SUBSET (0 .. n), T # {}
    PROVE  \E m \in T : \A k \in T : k <= m
<1> DEFINE U == {n - k : k \in T}
<1>1. U \in SUBSET Nat /\ U # {}
    <2>1. \A k \in T : n - k \in Nat
        OBVIOUS
    <2> QED  BY <2>1
<1>2. PICK u \in U : \A k \in U : u <= k
    BY <1>1, LeastNumber
<1>3. PICK m \in T : u = n - m
    OBVIOUS
<1>4. ASSUME NEW k \in T PROVE k <= m
    <2>1. n - k \in U
        OBVIOUS
    <2>2. n - m <= n - k
        BY <1>2, <1>3, <2>1
    <2> QED  BY <2>2
<1> QED  BY <1>4

Option == {None} \cup {Some(v) : v \in Seq(Item)}
Changes == UNION {[keys -> Option] : keys \in SUBSET Key}

\* No two keys share a name: the main storage and the child storages are apart.
NamesApart == \A k, l \in Key : k[2] = l[2] => k = l

\* What is cached for a key is what the parent's state has for it.
CacheIsParents ==
    /\ base \in Parents
    /\ cache = [n \in DOMAIN cache |-> cache[n]]
    /\ \A k \in Key : k[2] \in DOMAIN cache => cache[k[2]] = base[k]

\* Looking a key up caches the parent's value for it, and nothing else changes.
LEMMA LookupKeepsCache ==
    ASSUME CacheIsParents, NamesApart, NEW key \in Key,
           cache' = CacheAfter(key), base' = base
    PROVE  CacheIsParents'
<1>1. CASE InOverlay(key) \/ ~HasTrie(key)
    BY <1>1 DEF CacheAfter, CacheIsParents
<1>2. CASE ~(InOverlay(key) \/ ~HasTrie(key))
    <2>1. lookup_value_for_key(key) = base[key]
        BY DEF lookup_value_for_key, CacheIsParents
    <2>2. cache' = [n \in DOMAIN cache \cup {key[2]} |-> IF n = key[2] THEN base[key] ELSE cache[n]]
        BY <1>2, <2>1 DEF CacheAfter, cache_value_for_key
    <2>3. ASSUME NEW k \in Key, k[2] \in DOMAIN cache'
          PROVE  cache'[k[2]] = base[k]
        <3>1. CASE k[2] = key[2]
            <4>1. k = key  BY <3>1 DEF NamesApart
            <4> QED  BY <2>2, <2>3, <4>1
        <3>2. CASE k[2] # key[2]
            BY <2>2, <2>3, <3>2 DEF CacheIsParents
        <3> QED  BY <3>1, <3>2
    <2>4. cache' = [n \in DOMAIN cache' |-> cache'[n]]
        BY <2>2
    <2> QED  BY <2>3, <2>4 DEF CacheIsParents
<1> QED  BY <1>1, <1>2

\* No host function puts anything but the parent's values into the cache.
LEMMA CacheStep ==
    ASSUME NamesApart, CacheIsParents, [Next]_vars
    PROVE  CacheIsParents'
<1>1. CASE UNCHANGED vars
    BY <1>1 DEF vars, CacheIsParents
<1>2. ASSUME base' = base, cache' = cache PROVE CacheIsParents'
    BY <1>2 DEF CacheIsParents
<1>3. ASSUME NEW key \in Key, Functions(key) PROVE CacheIsParents'
    <2>1. ASSUME NEW a, Answers(key, a) PROVE CacheIsParents'
        BY <2>1, LookupKeepsCache DEF Answers, Call
    <2>2. CASE host_storage_get(key)
        BY <2>1, <2>2 DEF host_storage_get
    <2>3. CASE host_storage_exists(key)
        BY <2>1, <2>3 DEF host_storage_exists
    <2>4. CASE host_storage_next_key(key)
        BY <1>2, <2>4 DEF host_storage_next_key, Call
    <2>5. CASE \E offset, size \in 0 .. MaxLen : host_storage_read(key, offset, size)
        BY <2>1, <2>5 DEF host_storage_read
    <2>6. CASE \E item \in Item : host_storage_set(key, <<item>>)
        BY <1>2, <2>6 DEF host_storage_set, Call
    <2>7. CASE host_storage_clear(key)
        BY <1>2, <2>7 DEF host_storage_clear, Call
    <2>8. CASE Panic({key})
        BY <1>2, <2>8 DEF Panic, Call
    <2> QED  BY <1>3, <2>2, <2>3, <2>4, <2>5, <2>6, <2>7, <2>8 DEF Functions
<1>4. ASSUME NEW key \in Key, host_storage(key) PROVE CacheIsParents'
    <2>1. ASSUME NEW item \in Item, host_storage_append(key, item) PROVE CacheIsParents'
        BY <2>1, LookupKeepsCache DEF host_storage_append, Call
    <2> QED  BY <1>3, <1>4, <2>1 DEF host_storage
<1>5. ASSUME NEW key \in Key, host_default_child_storage(key) PROVE CacheIsParents'
    <2>1. CASE host_default_child_storage_root(key[1])
        BY <1>2, <2>1 DEF host_default_child_storage_root, RootCache, Call
    <2> QED  BY <1>3, <1>5, <2>1 DEF host_default_child_storage
<1>6. ASSUME NEW keys \in Prefixes, host_storage_clear_prefix(keys) \/ Panic(keys)
      PROVE  CacheIsParents'
    BY <1>2, <1>6 DEF host_storage_clear_prefix, Panic, Call
<1>7. CASE host_storage_root
    BY <1>2, <1>7 DEF host_storage_root, RootCache, Call
<1>8. CASE host_storage_start_transaction
    BY <1>2, <1>8 DEF host_storage_start_transaction, Call
<1>9. CASE host_storage_rollback_transaction
    BY <1>2, <1>9 DEF host_storage_rollback_transaction, Call
<1>10. CASE host_storage_commit_transaction
    BY <1>2, <1>10 DEF host_storage_commit_transaction, Call
<1>11. CASE NoTransaction
    BY <1>2, <1>11 DEF NoTransaction, Call
<1> QED
    BY <1>1, <1>4, <1>5, <1>6, <1>7, <1>8, <1>9, <1>10, <1>11 DEF Next

LEMMA UnchangedIsParents ==
    ASSUME CacheIsParents, NEW k \in Key, ~InOverlay(k)
    PROVE  Storage(k) = base[k]
<1>1. CASE HasTrie(k)
    BY <1>1 DEF Storage, lookup_value_for_key, CacheIsParents
<1>2. CASE ~HasTrie(k)
    <2>1. ~base[k].some
        BY <1>2 DEF HasTrie
    <2>2. base[k] = None
        <3>1. base[k] \in {None} \cup {Some(v) : v \in Host!Value}
            BY ValidationStorageAssumption DEF CacheIsParents
        <3> QED  BY <2>1, <3>1 DEF Some
    <2> QED  BY <1>2, <2>2 DEF Storage
<1> QED  BY <1>1, <1>2

\* The cache holds the parent's values and none of the block's, whatever host functions
\* the runtime calls in which order: as_trie_db_mut_cache has no value cache.
THEOREM CacheCorrect ==
    ASSUME NamesApart
    PROVE  Spec => []CacheIsParents
<1>1. Init => CacheIsParents
    BY DEF Init, CacheIsParents
<1>2. CacheIsParents /\ [Next]_vars => CacheIsParents'
    BY CacheStep
<1> QED  BY <1>1, <1>2, PTL DEF Spec

\* A key the block has not changed reads as the parent's state has it, for any keys of
\* different names, any proof and any number of calls: in particular after a transaction
\* that was rolled back once a root had been calculated inside it.
THEOREM UnchangedReadsCorrect ==
    ASSUME NamesApart
    PROVE  Spec => []UnchangedReadsParents
<1>1. CacheIsParents => UnchangedReadsParents
    BY UnchangedIsParents DEF UnchangedReadsParents
<1> QED  BY <1>1, CacheCorrect, PTL

-----------------------------------------------------------------------------
(* The overlay over the parent's state.                                    *)

\* The level that decides is the greatest one that has the key.
LEMMA MergedAt ==
    ASSUME NEW b, NEW o, Len(o) \in Nat, NEW k \in Key, NEW i \in 1 .. Len(o), k \in DOMAIN o[i],
           \A j \in 1 .. Len(o) : k \in DOMAIN o[j] => j <= i
    PROVE  Merged(b, o)[k] = o[i][k]
<1> DEFINE levels == {j \in 1 .. Len(o) : k \in DOMAIN o[j]}
<1>1. \A l \in levels : (\A j \in levels : j <= l) => l = i
    OBVIOUS
<1>2. (CHOOSE l \in levels : \A j \in levels : j <= l) = i
    BY <1>1
<1>3. levels # {}
    OBVIOUS
<1> QED  BY <1>2, <1>3 DEF Merged

LEMMA MergedBase ==
    ASSUME NEW b, NEW o, NEW k \in Key, \A j \in 1 .. Len(o) : k \notin DOMAIN o[j]
    PROVE  Merged(b, o)[k] = b[k]
BY DEF Merged

LEMMA SomeLevelDecides ==
    ASSUME NEW o, Len(o) \in Nat, NEW k
    PROVE  \/ \A j \in 1 .. Len(o) : k \notin DOMAIN o[j]
           \/ \E i \in 1 .. Len(o) : /\ k \in DOMAIN o[i]
                                     /\ \A j \in 1 .. Len(o) : k \in DOMAIN o[j] => j <= i
<1> DEFINE levels == {j \in 1 .. Len(o) : k \in DOMAIN o[j]}
<1>1. levels \in SUBSET (0 .. Len(o))
    OBVIOUS
<1>2. CASE levels # {}
    <2>1. \E i \in levels : \A j \in levels : j <= i
        BY <1>1, <1>2, GreatestNumber
    <2> QED  BY <2>1
<1>3. CASE levels = {}
    BY <1>3
<1> QED  BY <1>2, <1>3

\* What shows for a key is decided by one level, wherever the levels are.
LEMMA MergedMoved ==
    ASSUME NEW b, NEW o, NEW p, Len(o) \in Nat, Len(p) \in Nat, NEW k \in Key,
           \A j \in 1 .. Len(p) : k \in DOMAIN p[j] => \E i \in 1 .. Len(o) : k \in DOMAIN o[i],
           \A i \in 1 .. Len(o) :
               k \in DOMAIN o[i] /\ (\A j \in 1 .. Len(o) : k \in DOMAIN o[j] => j <= i)
               => \E m \in 1 .. Len(p) :
                      /\ k \in DOMAIN p[m] /\ p[m][k] = o[i][k]
                      /\ \A j \in 1 .. Len(p) : k \in DOMAIN p[j] => j <= m
    PROVE  Merged(b, p)[k] = Merged(b, o)[k]
<1>1. CASE \A j \in 1 .. Len(o) : k \notin DOMAIN o[j]
    <2>1. \A j \in 1 .. Len(p) : k \notin DOMAIN p[j]
        BY <1>1
    <2>2. Merged(b, o)[k] = b[k]
        BY <1>1, MergedBase
    <2>3. Merged(b, p)[k] = b[k]
        BY <2>1, MergedBase
    <2> QED  BY <2>2, <2>3
<1>2. ASSUME NEW i \in 1 .. Len(o), k \in DOMAIN o[i],
             \A j \in 1 .. Len(o) : k \in DOMAIN o[j] => j <= i
      PROVE  Merged(b, p)[k] = Merged(b, o)[k]
    <2>1. PICK m \in 1 .. Len(p) : /\ k \in DOMAIN p[m] /\ p[m][k] = o[i][k]
                                  /\ \A j \in 1 .. Len(p) : k \in DOMAIN p[j] => j <= m
        BY <1>2
    <2>2. Merged(b, o)[k] = o[i][k]
        BY <1>2, MergedAt
    <2>3. Merged(b, p)[k] = p[m][k]
        BY <2>1, MergedAt
    <2> QED  BY <2>1, <2>2, <2>3
<1> QED  BY <1>1, <1>2, SomeLevelDecides

\* Overlays that have the same for a key show the same for it.
LEMMA MergedSame ==
    ASSUME NEW b, NEW o, NEW p, Len(o) \in Nat, Len(p) = Len(o), NEW k \in Key,
           \A i \in 1 .. Len(o) : (k \in DOMAIN p[i]) = (k \in DOMAIN o[i]),
           \A i \in 1 .. Len(o) : k \in DOMAIN o[i] => p[i][k] = o[i][k]
    PROVE  Merged(b, p)[k] = Merged(b, o)[k]
<1>1. \A j \in 1 .. Len(p) : k \in DOMAIN p[j] => \E i \in 1 .. Len(o) : k \in DOMAIN o[i]
    OBVIOUS
<1>2. ASSUME NEW i \in 1 .. Len(o), k \in DOMAIN o[i],
             \A j \in 1 .. Len(o) : k \in DOMAIN o[j] => j <= i
      PROVE  \E m \in 1 .. Len(p) : /\ k \in DOMAIN p[m] /\ p[m][k] = o[i][k]
                                    /\ \A j \in 1 .. Len(p) : k \in DOMAIN p[j] => j <= m
    <2> WITNESS i \in 1 .. Len(p)
    <2> QED  BY <1>2
<1> QED  BY <1>1, <1>2, MergedMoved

LEMMA ChangesAre ==
    \A c : c \in Changes <=> /\ DOMAIN c \subseteq Key
                             /\ c = [k \in DOMAIN c |-> c[k]]
                             /\ \A k \in DOMAIN c : c[k] \in Option
BY DEF Changes

LEMMA ChangedIsChanges ==
    ASSUME NEW c \in Changes, NEW keys \in SUBSET Key, NEW v \in Option
    PROVE  Changed(c, keys, v) \in Changes
<1>1. /\ DOMAIN Changed(c, keys, v) = DOMAIN c \cup keys
      /\ \A k \in DOMAIN c \cup keys : Changed(c, keys, v)[k] = IF k \in keys THEN v ELSE c[k]
      /\ Changed(c, keys, v) = [k \in DOMAIN Changed(c, keys, v) |-> Changed(c, keys, v)[k]]
    BY DEF Changed
<1> QED  BY <1>1, ChangesAre

Placed(o, keys, v) == [o EXCEPT ![Len(o)] = Changed(@, keys, v)]

MayPlace(o, keys, v) ==
    o \in Seq(Changes) /\ o # <<>> /\ keys \in SUBSET Key /\ v \in Option

\* p is o with v at the top for keys, read on b.
Shows(b, o, p, keys, v) ==
    /\ p \in Seq(Changes) /\ Len(p) = Len(o)
    /\ \A i \in 1 .. Len(o) - 1 : p[i] = o[i]
    /\ \A k \in Key : Merged(b, p)[k] = IF k \in keys THEN v ELSE Merged(b, o)[k]

\* A change at the top shows for its keys.
LEMMA PlaceMerged ==
    ASSUME NEW b, NEW o, NEW keys, NEW v, MayPlace(o, keys, v)
    PROVE  Shows(b, o, Placed(o, keys, v), keys, v)
<1> o \in Seq(Changes) /\ o # <<>> /\ keys \in SUBSET Key /\ v \in Option
    BY DEF MayPlace
<1>1. PICK n : n = Len(o)
    OBVIOUS
<1>2. PICK p : p = Placed(o, keys, v)
    OBVIOUS
<1>3. n \in Nat \ {0} /\ n \in 1 .. n /\ o[n] \in Changes
    BY <1>1
<1>4. Changed(o[n], keys, v) \in Changes
    BY <1>3, ChangedIsChanges
<1>5. /\ p \in Seq(Changes) /\ Len(p) = n
      /\ \A i \in 1 .. n - 1 : p[i] = o[i]
      /\ p[n] = Changed(o[n], keys, v)
    BY <1>1, <1>2, <1>3, <1>4 DEF Placed
<1>6. /\ DOMAIN p[n] = DOMAIN o[n] \cup keys
      /\ \A k \in DOMAIN p[n] : p[n][k] = IF k \in keys THEN v ELSE o[n][k]
    BY <1>5 DEF Changed
<1>7. ASSUME NEW k \in keys PROVE Merged(b, p)[k] = v
    <2>1. /\ k \in Key /\ Len(p) \in Nat /\ n \in 1 .. Len(p) /\ k \in DOMAIN p[n]
          /\ \A j \in 1 .. Len(p) : k \in DOMAIN p[j] => j <= n
        BY <1>3, <1>5, <1>6
    <2>2. Merged(b, p)[k] = p[n][k]
        BY <2>1, MergedAt
    <2> QED  BY <1>6, <2>1, <2>2
<1>8. ASSUME NEW k \in Key, k \notin keys PROVE Merged(b, p)[k] = Merged(b, o)[k]
    <2>1. ASSUME NEW i \in 1 .. n
          PROVE  /\ (k \in DOMAIN p[i]) = (k \in DOMAIN o[i])
                 /\ k \in DOMAIN o[i] => p[i][k] = o[i][k]
        <3>1. CASE i = n
            BY <1>6, <1>8, <3>1
        <3>2. CASE i # n
            <4>1. p[i] = o[i]
                BY <1>3, <1>5, <3>2
            <4> QED  BY <4>1
        <3> QED  BY <3>1, <3>2
    <2>2. /\ Len(o) \in Nat /\ Len(p) = Len(o)
          /\ \A i \in 1 .. Len(o) : (k \in DOMAIN p[i]) = (k \in DOMAIN o[i])
          /\ \A i \in 1 .. Len(o) : k \in DOMAIN o[i] => p[i][k] = o[i][k]
        BY <1>1, <1>3, <1>5, <2>1
    <2> QED  BY <2>2, MergedSame
<1> QED  BY <1>1, <1>2, <1>5, <1>7, <1>8 DEF Shows

\* A transaction that was only started shows nothing.
LEMMA StartMerged ==
    ASSUME NEW b, NEW o \in Seq(Changes)
    PROVE  \E p : /\ p = Append(o, NoChanges)
                  /\ p \in Seq(Changes) /\ Len(p) = Len(o) + 1
                  /\ \A i \in 1 .. Len(o) : p[i] = o[i]
                  /\ Merged(b, p) = Merged(b, o)
<1>1. NoChanges \in Changes /\ DOMAIN NoChanges = {}
    <2>1. DOMAIN NoChanges = {} /\ NoChanges = [k \in DOMAIN NoChanges |-> NoChanges[k]]
        BY DEF NoChanges
    <2> QED  BY <2>1, ChangesAre
<1>2. PICK p : p = Append(o, NoChanges)
    OBVIOUS
<1>3. /\ p \in Seq(Changes) /\ Len(p) = Len(o) + 1 /\ Len(o) \in Nat
      /\ \A i \in 1 .. Len(o) : p[i] = o[i]
      /\ p[Len(o) + 1] = NoChanges
    BY <1>1, <1>2
<1>4. ASSUME NEW k \in Key PROVE Merged(b, p)[k] = Merged(b, o)[k]
    <2>1. \A j \in 1 .. Len(p) : k \in DOMAIN p[j] => j \in 1 .. Len(o) /\ k \in DOMAIN o[j]
        BY <1>1, <1>3
    <2>2. ASSUME NEW i \in 1 .. Len(o), k \in DOMAIN o[i],
                 \A j \in 1 .. Len(o) : k \in DOMAIN o[j] => j <= i
          PROVE  \E m \in 1 .. Len(p) : /\ k \in DOMAIN p[m] /\ p[m][k] = o[i][k]
                                        /\ \A j \in 1 .. Len(p) : k \in DOMAIN p[j] => j <= m
        <3>1. i \in 1 .. Len(p) /\ p[i] = o[i]
            BY <1>3
        <3> QED  BY <2>1, <2>2, <3>1
    <2>3. Len(o) \in Nat /\ Len(p) \in Nat
        BY <1>3
    <2> QED  BY <2>1, <2>2, <2>3, MergedMoved
<1>5. Merged(b, p) = [k \in Key |-> Merged(b, p)[k]] /\ Merged(b, o) = [k \in Key |-> Merged(b, o)[k]]
    BY DEF Merged
<1> QED  BY <1>2, <1>3, <1>4, <1>5

\* A transaction that is committed goes on to show what it showed.
LEMMA CommitMerged ==
    ASSUME NEW b, NEW o \in Seq(Changes), Len(o) > 1
    PROVE  \E p : /\ p = Committed(o)
                  /\ p \in Seq(Changes) /\ Len(p) = Len(o) - 1
                  /\ \A i \in 1 .. Len(o) - 2 : p[i] = o[i]
                  /\ Merged(b, p) = Merged(b, o)
<1>1. PICK n : n = Len(o)
    OBVIOUS
<1>2. n \in Nat /\ n > 1 /\ o[n] \in Changes /\ o[n - 1] \in Changes
    BY <1>1
<1>3. PICK c : c = [k \in DOMAIN o[n] \cup DOMAIN o[n - 1] |->
                        IF k \in DOMAIN o[n] THEN o[n][k] ELSE o[n - 1][k]]
    OBVIOUS
<1>4. /\ DOMAIN c = DOMAIN o[n] \cup DOMAIN o[n - 1] /\ c = [k \in DOMAIN c |-> c[k]]
      /\ \A k \in DOMAIN c : c[k] = IF k \in DOMAIN o[n] THEN o[n][k] ELSE o[n - 1][k]
    BY <1>3
<1>5. c \in Changes
    BY <1>2, <1>4, ChangesAre
<1>6. PICK q : q = SubSeq(o, 1, n - 2)
    OBVIOUS
<1>7. q \in Seq(Changes) /\ Len(q) = n - 2 /\ \A i \in 1 .. n - 2 : q[i] = o[i]
    BY <1>1, <1>2, <1>6
<1>8. PICK p : p = Append(q, c)
    OBVIOUS
<1>9. p = Committed(o)
    BY <1>1, <1>3, <1>6, <1>8 DEF Committed
<1>10. /\ p \in Seq(Changes) /\ Len(p) = n - 1 /\ p[n - 1] = c
       /\ \A i \in 1 .. n - 2 : p[i] = o[i]
    BY <1>2, <1>5, <1>7, <1>8
<1>11. ASSUME NEW k \in Key PROVE Merged(b, p)[k] = Merged(b, o)[k]
    <2>1. ASSUME NEW j \in 1 .. Len(p), k \in DOMAIN p[j]
          PROVE  \E i \in 1 .. Len(o) : k \in DOMAIN o[i] /\ i >= j
        <3>1. CASE j = n - 1
            BY <1>1, <1>2, <1>4, <1>10, <2>1, <3>1
        <3>2. CASE j # n - 1
            BY <1>1, <1>2, <1>10, <2>1, <3>2
        <3> QED  BY <3>1, <3>2
    <2>2. ASSUME NEW i \in 1 .. Len(o), k \in DOMAIN o[i],
                 \A j \in 1 .. Len(o) : k \in DOMAIN o[j] => j <= i
          PROVE  \E m \in 1 .. Len(p) : /\ k \in DOMAIN p[m] /\ p[m][k] = o[i][k]
                                        /\ \A j \in 1 .. Len(p) : k \in DOMAIN p[j] => j <= m
        <3>1. CASE i >= n - 1
            <4>1. k \in DOMAIN p[n - 1] /\ p[n - 1][k] = o[i][k]
                BY <1>1, <1>2, <1>4, <1>10, <2>2, <3>1
            <4>2. n - 1 \in 1 .. Len(p) /\ \A j \in 1 .. Len(p) : k \in DOMAIN p[j] => j <= n - 1
                BY <1>2, <1>10
            <4> QED  BY <4>1, <4>2
        <3>2. CASE i < n - 1
            <4>1. i \in 1 .. Len(p) /\ p[i] = o[i]
                BY <1>1, <1>2, <1>10, <3>2
            <4>2. ASSUME NEW j \in 1 .. Len(p), k \in DOMAIN p[j] PROVE j <= i
                <5>1. PICK l \in 1 .. Len(o) : k \in DOMAIN o[l] /\ l >= j
                    BY <2>1, <4>2
                <5> QED  BY <1>1, <1>2, <2>2, <5>1
            <4> QED  BY <2>2, <4>1, <4>2
        <3> QED  BY <1>1, <1>2, <3>1, <3>2
    <2>3. Len(o) \in Nat /\ Len(p) \in Nat
        BY <1>1, <1>2, <1>10
    <2>4. \A j \in 1 .. Len(p) : k \in DOMAIN p[j] => \E i \in 1 .. Len(o) : k \in DOMAIN o[i]
        BY <2>1
    <2> QED  BY <2>2, <2>3, <2>4, MergedMoved
<1>12. Merged(b, p) = [k \in Key |-> Merged(b, p)[k]] /\ Merged(b, o) = [k \in Key |-> Merged(b, o)[k]]
    BY DEF Merged
<1> QED  BY <1>1, <1>9, <1>10, <1>11, <1>12

\* What the open transactions started from depends on the levels below them alone.
LEMMA PrefixSame ==
    ASSUME NEW o \in Seq(Changes), NEW p \in Seq(Changes), NEW i \in Nat,
           i <= Len(o), i <= Len(p), \A j \in 1 .. i : p[j] = o[j]
    PROVE  SubSeq(p, 1, i) = SubSeq(o, 1, i)
OBVIOUS

\* The bytes host_storage_read copies are the part of the value the caller asked for.
LEMMA SliceIsPart ==
    ASSUME NEW value \in Seq(Item), NEW offset \in Nat, NEW size \in Nat
    PROVE  <<Len(value), Slice(value, offset, size)>> = Host!Part(value, offset, size)
<1>1. PICK n \in Nat : n = Len(value)
    OBVIOUS
<1>2. PICK from \in 0 .. n : from = IF offset <= n THEN offset ELSE n
    OBVIOUS
<1>3. PICK rest : rest = SubSeq(value, from + 1, n)
    OBVIOUS
<1>4. rest \in Seq(Item) /\ Len(rest) = n - from
    BY <1>1, <1>3
<1>5. \A i \in 1 .. n - from : rest[i] = value[from + i]
    BY <1>1, <1>3
<1>6. PICK l : l = IF offset + size <= n THEN size ELSE IF offset <= n THEN n - offset ELSE 0
    OBVIOUS
<1>7. l = (IF Len(rest) <= size THEN Len(rest) ELSE size) /\ l \in Nat /\ l <= n - from
    BY <1>2, <1>4, <1>6
<1>8. SubSeq(rest, 1, l) = [i \in 1 .. l |-> rest[i]]
    BY <1>4, <1>7
<1>9. ASSUME NEW i \in 1 .. l PROVE rest[i] = value[offset + i]
    BY <1>2, <1>5, <1>6, <1>7
<1>10. Slice(value, offset, size) = SubSeq(rest, 1, l)
    BY <1>1, <1>2, <1>3, <1>7 DEF Slice
<1>11. Slice(value, offset, size) = [i \in 1 .. l |-> value[offset + i]]
    BY <1>8, <1>9, <1>10
<1> QED  BY <1>1, <1>6, <1>11 DEF Host!Part

-----------------------------------------------------------------------------
(* The host functions.                                                     *)

StorageInv == CacheIsParents /\ overlay \in Seq(Changes) /\ overlay # <<>>

\* Reading through overlay, cache and proof gives what the overlay over the parent's
\* state has.
LEMMA ReadsMerged ==
    ASSUME NamesApart, StorageInv, NEW key \in Key
    PROVE  Storage(key) = Merged(base, overlay)[key] /\ Storage(key) \in Option
<1>1. base[key] \in Option
    <2>1. base[key] \in {None} \cup {Some(v) : v \in Host!Value}
        BY ValidationStorageAssumption DEF StorageInv, CacheIsParents
    <2>2. Host!Value \subseteq Seq(Item)
        BY ValidationStorageAssumption DEF Host!Value
    <2> QED  BY <2>1, <2>2 DEF Option
<1>2. CASE ~InOverlay(key)
    <2>1. Merged(base, overlay)[key] = base[key]
        BY <1>2, MergedBase DEF InOverlay
    <2>2. Storage(key) = base[key]
        BY <1>2, UnchangedIsParents DEF StorageInv
    <2> QED  BY <1>1, <2>1, <2>2
<1>3. CASE InOverlay(key)
    <2>1. Len(overlay) \in Nat
        BY DEF StorageInv
    <2>2. PICK i \in 1 .. Len(overlay) :
              /\ key \in DOMAIN overlay[i]
              /\ \A j \in 1 .. Len(overlay) : key \in DOMAIN overlay[j] => j <= i
        BY <1>3, <2>1, SomeLevelDecides DEF InOverlay
    <2>3. Merged(base, overlay)[key] = overlay[i][key]
        BY <2>1, <2>2, MergedAt
    <2>4. overlay[i] \in Changes
        BY <2>2 DEF StorageInv
    <2>5. overlay[i][key] \in Option
        BY <2>2, <2>4, ChangesAre
    <2> QED  BY <1>3, <2>3, <2>5 DEF Storage
<1> QED  BY <1>2, <1>3

LEMMA AppendedIsOption ==
    ASSUME NamesApart, StorageInv, NEW key \in Key, NEW item \in Item
    PROVE  Host!Appended(Storage(key), item) \in Option
<1>1. Storage(key) \in Option
    BY ReadsMerged
<1>2. CASE Storage(key) = None
    <2>1. Host!Appended(Storage(key), item) = Some(Append(<<>>, item))
        BY <1>2 DEF None, Some, Host!Appended, Host!Some
    <2>2. Append(<<>>, item) \in Seq(Item)
        OBVIOUS
    <2> QED  BY <2>1, <2>2 DEF Option
<1>3. ASSUME NEW v \in Seq(Item), Storage(key) = Some(v)
      PROVE  Host!Appended(Storage(key), item) \in Option
    <2>1. Host!Appended(Storage(key), item) = Some(Append(v, item))
        BY <1>3 DEF Some, Host!Appended, Host!Some
    <2>2. Append(v, item) \in Seq(Item)
        OBVIOUS
    <2> QED  BY <2>1, <2>2 DEF Option
<1> QED  BY <1>1, <1>2, <1>3 DEF Option

\* The host functions keep an overlay of changes and an honest cache.
LEMMA StorageStep ==
    ASSUME NamesApart, StorageInv, [Next]_vars
    PROVE  StorageInv'
<1>1. CacheIsParents'
    BY CacheStep DEF StorageInv
<1>2. overlay' \in Seq(Changes) /\ overlay' # <<>>
    <2>1. ASSUME overlay' = overlay PROVE overlay' \in Seq(Changes) /\ overlay' # <<>>
        BY <2>1 DEF StorageInv
    <2>2. ASSUME NEW keys \in SUBSET Key, NEW v \in Option, Place(keys, v)
          PROVE  overlay' \in Seq(Changes) /\ overlay' # <<>>
        <3>1. overlay' = Placed(overlay, keys, v)
            BY <2>2 DEF Place, Depth, Placed
        <3>2. /\ Placed(overlay, keys, v) \in Seq(Changes)
              /\ Len(Placed(overlay, keys, v)) = Len(overlay)
            <4>1. MayPlace(overlay, keys, v)
                BY DEF StorageInv, MayPlace
            <4> QED  BY <4>1, PlaceMerged DEF Shows
        <3> QED  BY <3>1, <3>2 DEF StorageInv
    <2>3. None \in Option /\ \A v \in Seq(Item) : Some(v) \in Option
        BY DEF Option
    <2>4. ASSUME NEW key \in Key, Functions(key)
          PROVE  overlay' \in Seq(Changes) /\ overlay' # <<>>
        <3>1. ASSUME NEW a, Answers(key, a) PROVE overlay' = overlay
            BY <3>1 DEF Answers
        <3>2. ASSUME NEW item \in Item, host_storage_set(key, <<item>>)
              PROVE  overlay' \in Seq(Changes) /\ overlay' # <<>>
            <4>1. {key} \in SUBSET Key /\ Some(<<item>>) \in Option
                <5>1. <<item>> \in Seq(Item)
                    OBVIOUS
                <5> QED  BY <2>3, <5>1
            <4>2. Place({key}, Some(<<item>>))
                BY <3>2 DEF host_storage_set
            <4> QED  BY <2>2, <4>1, <4>2
        <3>3. CASE host_storage_clear(key)
            BY <2>2, <2>3, <3>3 DEF host_storage_clear
        <3>4. CASE \/ host_storage_get(key) \/ host_storage_exists(key)
                   \/ \E offset, size \in 0 .. MaxLen : host_storage_read(key, offset, size)
            BY <2>1, <3>1, <3>4 DEF host_storage_get, host_storage_exists, host_storage_read
        <3>5. CASE host_storage_next_key(key) \/ Panic({key})
            BY <2>1, <3>5 DEF host_storage_next_key, Panic
        <3> QED  BY <2>4, <3>2, <3>3, <3>4, <3>5 DEF Functions
    <2>5. ASSUME NEW key \in Key, NEW item \in Item, host_storage_append(key, item)
          PROVE  overlay' \in Seq(Changes) /\ overlay' # <<>>
        <3>1. Host!Appended(Storage(key), item) \in Option
            BY AppendedIsOption
        <3> QED  BY <2>2, <2>5, <3>1 DEF host_storage_append
    <2>6. ASSUME NEW keys \in Prefixes, host_storage_clear_prefix(keys)
          PROVE  overlay' \in Seq(Changes) /\ overlay' # <<>>
        <3>1. {k \in keys : Merged(base, overlay)[k].some} \in SUBSET Key
            BY ValidationStorageAssumption
        <3> QED  BY <2>2, <2>3, <2>6, <3>1 DEF host_storage_clear_prefix
    <2>7. CASE host_storage_start_transaction
        BY <2>7, StartMerged DEF host_storage_start_transaction, StorageInv
    <2>8. CASE host_storage_rollback_transaction
        <3>1. PICK o : o = overlay
            OBVIOUS
        <3>2. o \in Seq(Changes) /\ Len(o) > 1 /\ overlay' = SubSeq(o, 1, Len(o) - 1)
            BY <2>8, <3>1 DEF host_storage_rollback_transaction, Depth, StorageInv
        <3>3. SubSeq(o, 1, Len(o) - 1) \in Seq(Changes) /\ Len(SubSeq(o, 1, Len(o) - 1)) = Len(o) - 1
            BY <3>2
        <3>4. Len(overlay') > 0 /\ overlay' \in Seq(Changes)
            BY <3>2, <3>3
        <3> QED  BY <3>4
    <2>9. CASE host_storage_commit_transaction
        <3>1. PICK p : p = Committed(overlay) /\ p \in Seq(Changes) /\ Len(p) = Len(overlay) - 1
            BY <2>9, CommitMerged DEF host_storage_commit_transaction, Depth, StorageInv
        <3>2. overlay' = p /\ Len(overlay) > 1 /\ Len(overlay) \in Nat
            BY <2>9, <3>1 DEF host_storage_commit_transaction, Depth, StorageInv
        <3> QED  BY <3>1, <3>2
    <2> QED
        BY <2>1, <2>4, <2>5, <2>6, <2>7, <2>8, <2>9
        DEF Next, vars, host_storage, host_default_child_storage, host_default_child_storage_root,
            Panic, host_storage_root, NoTransaction
<1> QED  BY <1>1, <1>2 DEF StorageInv

\* The maps that the open transactions started from.
Saved(b, o) == [i \in 1 .. Len(o) - 1 |-> Merged(b, SubSeq(o, 1, i))]

LEMMA SavedSame ==
    ASSUME NEW b, NEW o \in Seq(Changes), NEW p \in Seq(Changes), Len(p) = Len(o),
           \A i \in 1 .. Len(o) - 1 : p[i] = o[i]
    PROVE  Saved(b, p) = Saved(b, o)
<1>1. ASSUME NEW i \in 1 .. Len(o) - 1 PROVE SubSeq(p, 1, i) = SubSeq(o, 1, i)
    <2>1. /\ i \in Nat /\ i <= Len(o) /\ i <= Len(p)
          /\ \A j \in 1 .. i : p[j] = o[j]
        OBVIOUS
    <2> QED  BY <2>1, PrefixSame
<1> QED  BY <1>1 DEF Saved

\* Ending a transaction forgets the map it started from.
LEMMA SavedEnds ==
    ASSUME NEW b, NEW o \in Seq(Changes), Len(o) > 1, NEW p \in Seq(Changes), Len(p) = Len(o) - 1,
           \A i \in 1 .. Len(o) - 2 : p[i] = o[i]
    PROVE  /\ Saved(b, o) # <<>>
           /\ Saved(b, p) = SubSeq(Saved(b, o), 1, Len(Saved(b, o)) - 1)
<1>1. PICK n \in Nat : n = Len(o)
    OBVIOUS
<1>2. Saved(b, o) = [i \in 1 .. n - 1 |-> Merged(b, SubSeq(o, 1, i))] /\ n - 1 \in Nat /\ n > 1
    BY <1>1 DEF Saved
<1>3. Len(Saved(b, o)) = n - 1
    BY <1>2
<1>4. ASSUME NEW i \in 1 .. n - 2 PROVE SubSeq(p, 1, i) = SubSeq(o, 1, i)
    <2>1. /\ i \in Nat /\ i <= Len(o) /\ i <= Len(p)
          /\ \A j \in 1 .. i : p[j] = o[j]
        BY <1>1
    <2> QED  BY <2>1, PrefixSame
<1>5. Saved(b, p) = [i \in 1 .. n - 2 |-> Saved(b, o)[i]]
    <2>1. Len(p) - 1 = n - 2
        BY <1>1
    <2>2. Saved(b, p) = [i \in 1 .. n - 2 |-> Merged(b, SubSeq(p, 1, i))]
        BY <2>1 DEF Saved
    <2>3. ASSUME NEW i \in 1 .. n - 2 PROVE Merged(b, SubSeq(p, 1, i)) = Saved(b, o)[i]
        <3>1. i \in 1 .. n - 1
            OBVIOUS
        <3>2. Saved(b, o)[i] = Merged(b, SubSeq(o, 1, i))
            BY <1>2, <3>1, Zenon
        <3> QED  BY <1>4, <3>2, Zenon
    <2> QED  BY <2>2, <2>3
<1>6. SubSeq(Saved(b, o), 1, n - 2) = [i \in 1 .. n - 2 |-> Saved(b, o)[i]]
    BY <1>2
<1> QED  BY <1>2, <1>3, <1>5, <1>6

\* Starting one remembers the map of the moment.
LEMMA SavedStarts ==
    ASSUME NEW b, NEW o \in Seq(Changes), o # <<>>, NEW p \in Seq(Changes), Len(p) = Len(o) + 1,
           \A i \in 1 .. Len(o) : p[i] = o[i]
    PROVE  Saved(b, p) = Append(Saved(b, o), Merged(b, o))
<1>1. PICK n \in Nat \ {0} : n = Len(o)
    OBVIOUS
<1>2. ASSUME NEW i \in 1 .. n PROVE SubSeq(p, 1, i) = SubSeq(o, 1, i)
    <2>1. /\ i \in Nat /\ i <= Len(o) /\ i <= Len(p)
          /\ \A j \in 1 .. i : p[j] = o[j]
        BY <1>1
    <2> QED  BY <2>1, PrefixSame
<1>3. SubSeq(o, 1, n) = o
    BY <1>1
<1>4. Saved(b, p) = [i \in 1 .. n |-> Merged(b, SubSeq(o, 1, i))]
    <2>1. Len(p) - 1 = n
        BY <1>1
    <2>2. Saved(b, p) = [i \in 1 .. n |-> Merged(b, SubSeq(p, 1, i))]
        BY <2>1 DEF Saved
    <2> QED  BY <1>2, <2>2
<1>5. Saved(b, o) = [i \in 1 .. n - 1 |-> Merged(b, SubSeq(o, 1, i))]
    BY <1>1 DEF Saved
<1>6. PICK f : f = [i \in 1 .. n |-> Merged(b, SubSeq(o, 1, i))]
    OBVIOUS
<1>7. /\ f[n] = Merged(b, o) /\ f = [i \in 1 .. n |-> f[i]]
      /\ \A i \in 1 .. n - 1 : f[i] = Merged(b, SubSeq(o, 1, i))
    <2>1. n \in 1 .. n /\ \A i \in 1 .. n - 1 : i \in 1 .. n
        OBVIOUS
    <2> QED  BY <1>3, <1>6, <2>1, Zenon
<1>9. Saved(b, o) = [i \in 1 .. n - 1 |-> f[i]]
    BY <1>5, <1>7
<1>8. Append([i \in 1 .. n - 1 |-> f[i]], f[n]) = [i \in 1 .. n |-> f[i]]
    OBVIOUS
<1> QED  BY <1>4, <1>6, <1>7, <1>8, <1>9

\* Every host function of validate_block does to the abstract map, its saved copies and
\* the answer what the host function of a node does, or nothing when validation gives up.
LEMMA HostStep ==
    ASSUME NamesApart, StorageInv, [Next]_vars
    PROVE  [Host!HostNext]_(Host!hostVars)
<1> DEFINE store == Merged(base, overlay)
           saved == Saved(base, overlay)
<1> SUFFICES \/ Host!HostNext
             \/ answer' = answer /\ store' = store /\ saved' = saved
    BY DEF Host!hostVars, Saved
<1>1. overlay \in Seq(Changes) /\ overlay # <<>> /\ overlay' \in Seq(Changes)
    BY StorageStep DEF StorageInv
<1>2. ASSUME base' = base, overlay' = overlay PROVE store' = store /\ saved' = saved
    BY <1>2
<1>3. ASSUME NEW keys \in SUBSET Key, NEW v \in Option, Place(keys, v), base' = base
      PROVE  /\ saved' = saved /\ answer' = <<"none">>
             /\ store' = [k \in Key |-> IF k \in keys THEN v ELSE store[k]]
    <2>1. overlay' = Placed(overlay, keys, v) /\ answer' = <<"none">>
        BY <1>3 DEF Place, Depth, Placed
    <2>2. /\ Len(Placed(overlay, keys, v)) = Len(overlay)
          /\ \A i \in 1 .. Len(overlay) - 1 : Placed(overlay, keys, v)[i] = overlay[i]
          /\ \A k \in Key : Merged(base, Placed(overlay, keys, v))[k] =
                              IF k \in keys THEN v ELSE Merged(base, overlay)[k]
        <3>1. MayPlace(overlay, keys, v)
            BY <1>1 DEF MayPlace
        <3>2. Shows(base, overlay, Placed(overlay, keys, v), keys, v)
            BY <3>1, PlaceMerged, Zenon
        <3> QED  BY <3>2 DEF Shows
    <2>3. saved' = saved
        BY <1>1, <1>3, <2>1, <2>2, SavedSame
    <2>4. store' = [k \in Key |-> store'[k]]
        BY DEF Merged
    <2>5. \A k \in Key : store'[k] = IF k \in keys THEN v ELSE store[k]
        BY <1>3, <2>1, <2>2
    <2> HIDE DEF store
    <2> QED  BY <2>1, <2>3, <2>4, <2>5
<1>4. ASSUME NEW keys \in SUBSET Key, Place(keys, None), base' = base PROVE Host!Clears(keys)
    <2>1. None \in Option
        BY DEF Option
    <2>2. /\ saved' = saved /\ answer' = <<"none">>
          /\ store' = [k \in Key |-> IF k \in keys THEN None ELSE store[k]]
        BY <1>3, <1>4, <2>1
    <2> QED  BY <2>2 DEF Host!Clears, Host!None, None, Saved
<1>5. ASSUME NEW key \in Key, Functions(key)
      PROVE  Host!HostNext \/ (answer' = answer /\ store' = store /\ saved' = saved)
    <2>1. Storage(key) = store[key] /\ Storage(key) \in Option
        BY ReadsMerged
    <2>2. ASSUME NEW a, Answers(key, a) PROVE answer' = a /\ store' = store /\ saved' = saved
        BY <1>2, <2>2 DEF Answers, Call
    <2>3. ASSUME Host!Reads(key) PROVE Host!HostNext
        BY <2>3 DEF Host!HostNext
    <2>4. CASE host_storage_get(key)
        <3>1. answer' = <<"get", key, store[key]>> /\ store' = store /\ saved' = saved
            BY <2>1, <2>2, <2>4 DEF host_storage_get
        <3>2. Host!Reads(key)
            BY <3>1 DEF Host!Reads, Saved
        <3> QED  BY <2>3, <3>2
    <2>5. CASE host_storage_exists(key)
        <3>1. answer' = <<"exists", key, store[key].some>> /\ store' = store /\ saved' = saved
            BY <2>1, <2>2, <2>5 DEF host_storage_exists
        <3>2. Host!Reads(key)
            BY <3>1 DEF Host!Reads, Saved
        <3> QED  BY <2>3, <3>2
    <2>6. CASE host_storage_next_key(key)
        <3>1. answer' = <<"next_key", key, Host!NextKey(store, key)>> /\ store' = store /\ saved' = saved
            BY <1>2, <2>6 DEF host_storage_next_key, Call
        <3>2. Host!Reads(key)
            BY <3>1 DEF Host!Reads, Saved
        <3> QED  BY <2>3, <3>2
    <2>7. ASSUME NEW offset \in 0 .. MaxLen, NEW size \in 0 .. MaxLen,
                 host_storage_read(key, offset, size)
          PROVE  Host!HostNext
        <3>1. store' = store /\ saved' = saved
            BY <2>2, <2>7 DEF host_storage_read
        <3>2. CASE Storage(key).some
            <4>1. PICK value \in Seq(Item) : Storage(key) = Some(value)
                <5>1. Storage(key) = None \/ \E value \in Seq(Item) : Storage(key) = Some(value)
                    BY <2>1 DEF Option
                <5>2. ~None.some
                    BY DEF None
                <5>3. Storage(key) # None
                    BY <3>2, <5>2
                <5> QED  BY <5>1, <5>3
            <4>2. Storage(key).value = value /\ store[key].value = value /\ store[key].some
                BY <2>1, <3>2, <4>1 DEF Some
            <4>3. offset \in Nat /\ size \in Nat
                BY ValidationStorageAssumption
            <4>4. answer' = <<"read", key, offset, size, Some(<<Len(value), Slice(value, offset, size)>>)>>
                BY <2>2, <2>7, <3>2, <4>2 DEF host_storage_read
            <4>5. <<Len(value), Slice(value, offset, size)>> = Host!Part(store[key].value, offset, size)
                BY <4>2, <4>3, SliceIsPart
            <4>6. answer' = <<"read", key, offset, size, Some(Host!Part(store[key].value, offset, size))>>
                BY <4>4, <4>5
            <4>7. Host!Reads(key)
                BY <3>1, <4>2, <4>6 DEF Host!Reads, Saved, Host!Some, Some
            <4> QED  BY <2>3, <4>7
        <3>3. CASE ~Storage(key).some
            <4>1. answer' = <<"read", key, None>>
                BY <2>2, <2>7, <3>3 DEF host_storage_read
            <4>2. Host!Reads(key)
                BY <2>1, <3>1, <3>3, <4>1 DEF Host!Reads, Saved, Host!None, None
            <4> QED  BY <2>3, <4>2
        <3> QED  BY <3>2, <3>3
    <2>8. ASSUME NEW item \in Item, host_storage_set(key, <<item>>) PROVE Host!HostNext
        <3>1. <<item>> \in Seq(Item) /\ <<item>> \in Host!Value
            <4>1. <<item>> \in [1 .. 1 -> Item] /\ 1 \in 0 .. MaxLen
                BY ValidationStorageAssumption
            <4> QED  BY <4>1 DEF Host!Value
        <3>2. Some(<<item>>) \in Option /\ {key} \in SUBSET Key
            BY <3>1 DEF Option
        <3>3. Place({key}, Some(<<item>>)) /\ base' = base
            BY <2>8 DEF host_storage_set, Call
        <3>4. /\ saved' = saved /\ answer' = <<"none">>
              /\ store' = [k \in Key |-> IF k \in {key} THEN Some(<<item>>) ELSE store[k]]
            BY <1>3, <3>2, <3>3
        <3>5. store' = [store EXCEPT ![key] = Some(<<item>>)]
            <4>1. store = [k \in Key |-> store[k]]
                BY DEF Merged
            <4> HIDE DEF store
            <4> QED  BY <3>4, <4>1
        <3>6. Host!Writes(key)
            BY <3>1, <3>4, <3>5 DEF Host!Writes, Saved, Host!Some, Some
        <3> QED  BY <3>6 DEF Host!HostNext
    <2>9. CASE host_storage_clear(key)
        <3>1. {key} \in SUBSET Key /\ Place({key}, None) /\ base' = base
            BY <2>9 DEF host_storage_clear, Call
        <3>2. Host!Clears({key})
            BY <1>4, <3>1
        <3> QED  BY <3>1, <3>2 DEF Host!HostNext
    <2>10. CASE Panic({key})
        BY <1>2, <2>10 DEF Panic, Call
    <2> QED  BY <1>5, <2>4, <2>5, <2>6, <2>7, <2>8, <2>9, <2>10 DEF Functions
<1>6. ASSUME NEW key \in Key, NEW item \in Item, host_storage_append(key, item)
      PROVE  Host!HostNext
    <2>1. PICK v : v = Host!Appended(Storage(key), item)
        OBVIOUS
    <2>2. v \in Option /\ {key} \in SUBSET Key /\ Place({key}, v) /\ base' = base
        BY <1>6, <2>1, AppendedIsOption DEF host_storage_append, Call
    <2>3. /\ saved' = saved /\ answer' = <<"none">>
          /\ store' = [k \in Key |-> IF k \in {key} THEN v ELSE store[k]]
        BY <1>3, <2>2
    <2>4. v = Host!Appended(store[key], item)
        BY <2>1, ReadsMerged
    <2>5. store' = [store EXCEPT ![key] = Host!Appended(@, item)]
        <3>1. store = [k \in Key |-> store[k]]
            BY DEF Merged
        <3> HIDE DEF store
        <3> QED  BY <2>3, <2>4, <3>1
    <2>6. Host!Writes(key)
        BY <2>3, <2>5 DEF Host!Writes, Saved
    <2> QED  BY <2>6 DEF Host!HostNext
<1>7. ASSUME NEW keys \in Prefixes, host_storage_clear_prefix(keys) PROVE Host!HostNext
    <2>1. PICK cleared : cleared = {k \in keys : Merged(base, overlay)[k].some}
        OBVIOUS
    <2>2. cleared \in SUBSET Key /\ Place(cleared, None) /\ base' = base
        BY <1>7, <2>1, ValidationStorageAssumption DEF host_storage_clear_prefix, Call
    <2> QED  BY <1>4, <2>2 DEF Host!HostNext
<1>8. CASE host_storage_root
    <2>1. answer' = <<"root", store>> /\ store' = store /\ saved' = saved
        BY <1>2, <1>8 DEF host_storage_root, Call
    <2> QED  BY <2>1 DEF Host!HostNext, Host!Root, Saved
<1>9. ASSUME NEW key \in Key, host_default_child_storage_root(key[1]) PROVE Host!HostNext
    <2>1. /\ answer' = <<"child_root", key[1], [k \in {k \in Key : k[1] = key[1]} |-> store[k]]>>
          /\ store' = store /\ saved' = saved
        BY <1>2, <1>9 DEF host_default_child_storage_root, Call
    <2>2. key[1] \in {k[1] : k \in Key}
        OBVIOUS
    <2> QED  BY <2>1, <2>2 DEF Host!HostNext, Host!Root, Saved
<1>10. CASE host_storage_start_transaction
    <2>1. PICK p : /\ p = Append(overlay, NoChanges)
                   /\ p \in Seq(Changes) /\ Len(p) = Len(overlay) + 1
                   /\ \A i \in 1 .. Len(overlay) : p[i] = overlay[i]
                   /\ Merged(base, p) = Merged(base, overlay)
        BY <1>1, StartMerged
    <2>2. overlay' = p /\ base' = base /\ answer' = <<"none">>
        BY <1>10, <2>1 DEF host_storage_start_transaction, Call
    <2>3. Saved(base, p) = Append(Saved(base, overlay), Merged(base, overlay))
        BY <1>1, <2>1, SavedStarts
    <2>4. saved' = Append(saved, store) /\ store' = store
        BY <2>1, <2>2, <2>3
    <2> QED  BY <2>2, <2>4 DEF Host!HostNext, Host!Starts, Saved
<1>11. CASE host_storage_rollback_transaction
    <2>1. PICK p : p = SubSeq(overlay, 1, Len(overlay) - 1)
        OBVIOUS
    <2>2. /\ overlay' = p /\ base' = base /\ answer' = <<"rollback">>
          /\ Len(overlay) > 1 /\ Len(overlay) \in Nat
        BY <1>1, <1>11, <2>1 DEF host_storage_rollback_transaction, Call, Depth
    <2>3. /\ p \in Seq(Changes) /\ Len(p) = Len(overlay) - 1
          /\ \A i \in 1 .. Len(overlay) - 2 : p[i] = overlay[i]
        BY <1>1, <2>1, <2>2
    <2>4. /\ Saved(base, overlay) # <<>>
          /\ Saved(base, p) = SubSeq(Saved(base, overlay), 1, Len(Saved(base, overlay)) - 1)
        BY <1>1, <2>2, <2>3, SavedEnds
    <2>5. /\ Len(Saved(base, overlay)) = Len(overlay) - 1
          /\ Saved(base, overlay)[Len(overlay) - 1] = Merged(base, p)
        BY <2>1, <2>2 DEF Saved
    <2>6. /\ saved # <<>> /\ saved' = SubSeq(saved, 1, Len(saved) - 1)
          /\ store' = saved[Len(saved)]
        BY <2>2, <2>4, <2>5
    <2> QED  BY <2>2, <2>6 DEF Host!HostNext, Host!Ends, Saved
<1>12. CASE host_storage_commit_transaction
    <2>1. Len(overlay) > 1
        BY <1>12 DEF host_storage_commit_transaction, Depth
    <2>2. PICK p : /\ p = Committed(overlay)
                   /\ p \in Seq(Changes) /\ Len(p) = Len(overlay) - 1
                   /\ \A i \in 1 .. Len(overlay) - 2 : p[i] = overlay[i]
                   /\ Merged(base, p) = Merged(base, overlay)
        BY <1>1, <2>1, CommitMerged
    <2>3. overlay' = p /\ base' = base /\ answer' = <<"commit">>
        BY <1>12, <2>2 DEF host_storage_commit_transaction, Call
    <2>4. /\ Saved(base, overlay) # <<>>
          /\ Saved(base, p) = SubSeq(Saved(base, overlay), 1, Len(Saved(base, overlay)) - 1)
        BY <1>1, <2>1, <2>2, SavedEnds
    <2>5. saved # <<>> /\ saved' = SubSeq(saved, 1, Len(saved) - 1) /\ store' = store
        BY <2>2, <2>3, <2>4
    <2> QED  BY <2>3, <2>5 DEF Host!HostNext, Host!Ends, Saved
<1>13. ASSUME NEW keys, Panic(keys) PROVE answer' = answer /\ store' = store /\ saved' = saved
    BY <1>2, <1>13 DEF Panic, Call
<1>14. ASSUME NoTransaction \/ UNCHANGED vars
       PROVE  answer' = answer /\ store' = store /\ saved' = saved
    BY <1>2, <1>14 DEF NoTransaction, Call, vars
<1> QED
    BY <1>5, <1>6, <1>7, <1>8, <1>9, <1>10, <1>11, <1>12, <1>13, <1>14
    DEF Next, host_storage, host_default_child_storage

\* validate_block keeps the promise of the host functions (ImplementsHost): whatever the
\* parent's state, the proof and the calls of the runtime, every answer until validation
\* gives up is the one a node's storage would have given, through nested transactions
\* and calculations of the root.
THEOREM HostImplemented == ASSUME NamesApart PROVE Spec => ImplementsHost
<1>1. ASSUME Init PROVE Host!HostInit /\ StorageInv
    <2>1. overlay = <<NoChanges>> /\ base \in Parents /\ answer = <<"none">> /\ cache = [n \in {} |-> None]
        BY <1>1 DEF Init
    <2>2. NoChanges \in Changes /\ DOMAIN NoChanges = {}
        <3>1. DOMAIN NoChanges = {} /\ NoChanges = [k \in DOMAIN NoChanges |-> NoChanges[k]]
            BY DEF NoChanges
        <3> QED  BY <3>1, ChangesAre
    <2>3. overlay \in Seq(Changes) /\ overlay # <<>> /\ Len(overlay) = 1
        BY <2>1, <2>2
    <2>4. StorageInv
        BY <2>1, <2>3 DEF StorageInv, CacheIsParents
    <2>5. Merged(base, overlay) = base
        <3>1. base \in [Key -> {None} \cup {Some(v) : v \in Host!Value}]
            BY <2>1, ValidationStorageAssumption
        <3>2. ASSUME NEW k \in Key PROVE Merged(base, overlay)[k] = base[k]
            BY <2>1, <2>2, <2>3, MergedBase
        <3>3. Merged(base, overlay) = [k \in Key |-> Merged(base, overlay)[k]]
            BY DEF Merged
        <3> QED  BY <3>1, <3>2, <3>3
    <2>6. base \in [Key -> {Host!None} \cup {Host!Some(v) : v \in Host!Value}]
        BY <2>1, ValidationStorageAssumption DEF Host!None, Host!Some, None, Some
    <2>7. [i \in 1 .. Len(overlay) - 1 |-> Merged(base, SubSeq(overlay, 1, i))] = <<>>
        BY <2>3
    <2> QED  BY <2>1, <2>4, <2>5, <2>6, <2>7 DEF Host!HostInit
<1>2. StorageInv /\ [Next]_vars => StorageInv' /\ [Host!HostNext]_(Host!hostVars)
    BY HostStep, StorageStep
<1> QED  BY <1>1, <1>2, PTL DEF Spec, ImplementsHost, Host!HostSpec
=============================================================================
